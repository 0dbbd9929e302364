------------------------- MODULE RuntimeUpdateProofs -------------------------
(* Theorems of RuntimeUpdate, for any set of processes, any budget of       *)
(* attempts and any number of runs of the session.                          *)
EXTENDS RuntimeUpdate, TLAPS

(* The ranges of TypeOK, named.                                             *)
ProcType == [Proc -> [at : {"free"} \cup Alive, bin : {"old", "new"},
                      boot : BOOLEAN]]
States   == {"none", "prepared", "starting", "rolling_back", "healthy",
             "rolled_back"}
Maybe    == Proc \cup {None}
TxType   == [state : States, old : Maybe, new : Maybe, base : 0 .. MaxRuns]
Leases   == {"none", "held", "expired"}
SessType == [run : 1 .. MaxRuns, up : BOOLEAN, busy : BOOLEAN]
Places   == {"idle", "read", "hold", "check", "save", "stop", "stopping",
             "spawn", "wait", "finish", "rollback", "rbStopping", "rbSpawn",
             "rbUnlock", "rbWait", "rbFinish", "release"}
Modes      == {"update", "recover", "finalize"}
HelperType == [at : Places, mode : Modes, old : Maybe, base : 0 .. MaxRuns,
               counted : BOOLEAN]
Seen       == Keys \cup {<<>>}
RecoveryType == [status : {"none", "open", "stopped"},
                 attempts : 0 .. RecoveryAttempts, seen : Seen,
                 knows : BOOLEAN]

Ranges ==
    /\ proc \in ProcType /\ tx \in TxType /\ lease \in Leases
    /\ sess \in SessType /\ rpc \in Maybe /\ worked \in BOOLEAN
    /\ helper \in HelperType /\ recovery \in RecoveryType

(* Where the helper is says how far the transaction has come.               *)
Fits(at, mode, state) ==
    /\ at \in {"hold", "check", "save"} => state \in {"none", "prepared"}
    /\ at \in {"stop", "stopping"} => state = "prepared"
    /\ at \in {"spawn", "wait"} => state = "starting"
    /\ at = "finish" => state \in {"starting", "healthy"}
    /\ at \in {"rollback", "rbStopping", "rbSpawn", "rbUnlock", "rbWait"}
       => state = "rolling_back"
    /\ at = "rbFinish" => state \in {"rolling_back", "rolled_back"}
    /\ at = "release" => state \in {"healthy", "rolled_back"}
    /\ at = "read" /\ mode = "finalize" => state \notin {"none", "prepared"}
PhaseSound == Fits(helper.at, helper.mode, tx.state)

(* A live lease keeps requests out, and with them new turns and new work.   *)
AdmissionSound ==
    lease = "held" =>
        /\ rpc = None
        /\ helper.at \in {"save", "stop"} => ~sess.busy
        /\ helper.at \in {"stop", "stopping"} \/ tx.state = "starting"
           => ~worked

(* What may be given back was taken.                                        *)
BudgetSound ==
    helper.counted => recovery.attempts # 0 /\ helper.at # "idle"

(* Until the old runtime is stopped the transaction has launched nothing.   *)
Early == tx.state \in {"none", "prepared"}
Own(p) == proc[p].at # "free" /\ ~proc[p].boot

ServingSound ==
    \A p, q \in Proc :
        proc[p].at = "serving" /\ proc[q].at = "serving" => p = q
EarlySound ==
    Early => /\ tx.new = None
             /\ \A p \in Proc : proc[p].at # "spawned"
NoneSound ==
    tx.state = "none" =>
        /\ tx.old = None
        /\ \A p \in Proc : Own(p) => p = First /\ proc[p].at = "serving"
PreparedSound ==
    tx.state = "prepared" => \A p \in Proc : Own(p) => p = tx.old

(* Afterwards the old one is gone for good, and what was launched is the    *)
(* child on record, or has published nothing.                               *)
LaterSound ==
    ~Early => /\ proc[tx.old].at = "free"
              /\ \A p \in Proc : Own(p) /\ proc[p].at # "spawned"
                                 => p = tx.new
OldSound == tx.state # "none" => tx.old \in Proc

(* What the helper holds in memory is still so when it writes it down.      *)
MemorySound ==
    /\ helper.at = "save" =>
         /\ helper.old \in Proc
         /\ tx.state = "none" => \A p \in Proc : Own(p) => p = helper.old
         /\ tx.state = "prepared" => helper.old = tx.old
    /\ helper.at = "spawn" =>
         /\ tx.new = None
         /\ \A p \in Proc : proc[p].at # "spawned"
    /\ helper.at = "rbStopping" => tx.new \in Proc

ProcSound ==
    /\ ServingSound /\ EarlySound /\ NoneSound /\ PreparedSound
    /\ LaterSound /\ OldSound /\ MemorySound

(* The inductive invariant.                                                 *)
IInv == Ranges /\ PhaseSound /\ AdmissionSound /\ BudgetSound /\ ProcSound

(* One runtime serves and nothing is under way.                             *)
LEMMA InitHolds == Init => IInv
<1> SUFFICES ASSUME Init PROVE IInv
    OBVIOUS
<1> USE ProcAssumption DEF Init
<1>1. /\ proc \in ProcType
      /\ \A p \in Proc : /\ proc[p].at = IF p = First THEN "serving"
                                         ELSE "free"
                         /\ ~proc[p].boot
  BY DEF ProcType, Free, Alive
<1>2. Ranges
  <2>1. 1 \in 1 .. MaxRuns /\ 0 \in 0 .. MaxRuns /\ 0 \in 0 .. RecoveryAttempts
    BY BoundAssumption
  <2>2. tx \in TxType /\ sess \in SessType /\ lease \in Leases /\ rpc \in Maybe
    BY <2>1 DEF TxType, States, Maybe, SessType, Leases
  <2>3. helper \in HelperType
    BY <2>1 DEF Idle, HelperType, Places, Modes, Maybe
  <2>4. recovery \in RecoveryType
    BY <2>1 DEF NoRecovery, RecoveryType, Seen
  <2> QED BY <1>1, <2>2, <2>3, <2>4 DEF Ranges
<1>3. PhaseSound
  BY DEF PhaseSound, Fits, Idle
<1>4. AdmissionSound
  BY DEF AdmissionSound
<1>5. BudgetSound
  BY DEF BudgetSound, Idle
<1>6. ProcSound
  BY <1>1 DEF ProcSound, ServingSound, EarlySound, NoneSound, PreparedSound,
     LaterSound, OldSound, MemorySound, Own, Early, Idle
<1> QED BY <1>2, <1>3, <1>4, <1>5, <1>6 DEF IInv
-----------------------------------------------------------------------------
(* What a step of the helper does to its memory and to the manager's record.*)
LEMMA GotoMoves ==
    ASSUME Ranges, NEW at \in Places, Goto(at)
    PROVE  /\ helper' \in HelperType /\ helper'.at = at
           /\ helper'.mode = helper.mode /\ helper'.counted = helper.counted
           /\ recovery' = recovery
  BY DEF Ranges, HelperType, Goto

(* The helper that is not there.                                            *)
LEMMA IdleIs ==
    Idle \in HelperType /\ Idle.at = "idle" /\ Idle.counted = FALSE
<1>1. 0 \in 0 .. MaxRuns
  BY BoundAssumption
<1> QED BY <1>1 DEF Idle, HelperType, Places, Modes, Maybe

(* What is booked stays within the budget.                                  *)
LEMMA BookedIs ==
    ASSUME Ranges, BudgetSound, NEW class
    PROVE  Booked(class) \in RecoveryType
<1>1. Refunded \in 0 .. RecoveryAttempts
  <2>1. /\ recovery.attempts \in 0 .. RecoveryAttempts
        /\ helper.counted \in BOOLEAN
    BY DEF Ranges, RecoveryType, HelperType
  <2>2. CASE helper.counted
    BY <2>1, <2>2, BoundAssumption DEF Refunded, BudgetSound
  <2>3. CASE ~helper.counted
    BY <2>1, <2>3, BoundAssumption DEF Refunded
  <2> QED BY <2>2, <2>3
<1> DEFINE knows == lease # "none"
           stops == \/ class = "operator"
                    \/ class = "transient" /\ Exhausted(knows)
           s == IF stops THEN "stopped" ELSE "open"
           n == IF class = "waiting" THEN Refunded ELSE recovery.attempts
<1>2. Booked(class)
      = [recovery EXCEPT !.status = s, !.knows = knows, !.attempts = n]
  BY DEF Booked
<1>3. /\ s \in {"none", "open", "stopped"} /\ knows \in BOOLEAN
      /\ n \in 0 .. RecoveryAttempts
  BY <1>1 DEF Ranges, RecoveryType
<1> HIDE DEF s, n, knows
<1> QED BY <1>2, <1>3 DEF Ranges, RecoveryType

(* The helper exits.                                                        *)
LEMMA EndMoves ==
    ASSUME Ranges, BudgetSound, NEW class, End(class)
    PROVE  /\ helper' \in HelperType /\ helper'.at = "idle"
           /\ ~helper'.counted /\ recovery' \in RecoveryType
  BY IdleIs, BookedIs DEF End, Ranges

(* The transaction is written.                                              *)
LEMMA StateMoves ==
    ASSUME Ranges, NEW state \in States, tx' = [tx EXCEPT !.state = state]
    PROVE  /\ tx' \in TxType /\ tx'.state = state
           /\ tx'.old = tx.old /\ tx'.new = tx.new
  BY DEF Ranges, TxType

(* The child on record is replaced or forgotten.                            *)
LEMMA NewMoves ==
    ASSUME Ranges, NEW state \in States, NEW p \in Maybe,
           \/ tx' = [tx EXCEPT !.state = state, !.new = p]
           \/ state = tx.state /\ tx' = [tx EXCEPT !.new = p]
    PROVE  /\ tx' \in TxType /\ tx'.state = state
           /\ tx'.old = tx.old /\ tx'.new = p
  BY DEF Ranges, TxType

(* A process becomes what it becomes.                                       *)
LEMMA ProcMoves ==
    ASSUME Ranges, NEW p \in Proc, NEW at \in {"free"} \cup Alive,
           NEW bin \in {"old", "new"}, NEW boot \in BOOLEAN,
           proc' = [proc EXCEPT ![p] = [at |-> at, bin |-> bin, boot |-> boot]]
    PROVE  /\ proc' \in ProcType
           /\ proc'[p] = [at |-> at, bin |-> bin, boot |-> boot]
           /\ \A q \in Proc : q # p => proc'[q] = proc[q]
<1> DEFINE R == [at : {"free"} \cup Alive, bin : {"old", "new"},
                 boot : BOOLEAN]
           r == [at |-> at, bin |-> bin, boot |-> boot]
<1>1. r \in R
  OBVIOUS
<1>2. proc \in [Proc -> R]
  BY DEF Ranges, ProcType
<1>3. proc' = [proc EXCEPT ![p] = r]
  OBVIOUS
<1>4. /\ proc' \in [Proc -> R] /\ proc'[p] = r
      /\ \A q \in Proc : q # p => proc'[q] = proc[q]
  <2> HIDE DEF R, r
  <2> QED BY <1>1, <1>2, <1>3
<1>5. proc' \in ProcType
  BY <1>4 DEF ProcType
<1> QED BY <1>4, <1>5

(* Only its place changes.                                                  *)
LEMMA PlaceMoves ==
    ASSUME Ranges, NEW p \in Proc, NEW at \in {"free"} \cup Alive,
           proc' = [proc EXCEPT ![p].at = at]
    PROVE  /\ proc' \in ProcType
           /\ proc'[p].at = at /\ proc'[p].boot = proc[p].boot
           /\ \A q \in Proc : q # p => proc'[q] = proc[q]
  BY DEF Ranges, ProcType

(* A child is launched.                                                      *)
LEMMA LaunchMoves ==
    ASSUME Ranges, NEW p \in Proc, NEW bin \in {"old", "new"},
           Launch(p, bin, FALSE)
    PROVE  /\ proc' \in ProcType /\ proc[p].at = "free"
           /\ p # tx.old /\ p # tx.new
           /\ proc'[p].at = "spawned" /\ ~proc'[p].boot
           /\ \A q \in Proc : q # p => proc'[q] = proc[q]
<1>1. proc' = [proc EXCEPT ![p] = [at |-> "spawned", bin |-> bin,
                                   boot |-> FALSE]]
  BY DEF Launch
<1>2. "spawned" \in {"free"} \cup Alive
  BY DEF Alive
<1>3. /\ proc' \in ProcType
      /\ proc'[p] = [at |-> "spawned", bin |-> bin, boot |-> FALSE]
      /\ \A q \in Proc : q # p => proc'[q] = proc[q]
  BY <1>1, <1>2, ProcMoves
<1>4. proc'[p].at = "spawned" /\ ~proc'[p].boot
  BY <1>3
<1> QED BY <1>3, <1>4 DEF Launch

(* The manager boots a runtime.                                              *)
LEMMA BootMoves ==
    ASSUME Ranges, NEW p \in Proc, NEW bin \in {"old", "new"},
           Launch(p, bin, TRUE)
    PROVE  /\ proc' \in ProcType /\ proc[p].at = "free"
           /\ p # tx.old /\ p # tx.new
           /\ proc'[p].at = "loading" /\ proc'[p].boot
           /\ \A q \in Proc : q # p => proc'[q] = proc[q]
<1>1. proc' = [proc EXCEPT ![p] = [at |-> "loading", bin |-> bin,
                                   boot |-> TRUE]]
  BY DEF Launch
<1>2. "loading" \in {"free"} \cup Alive
  BY DEF Alive
<1>3. /\ proc' \in ProcType
      /\ proc'[p] = [at |-> "loading", bin |-> bin, boot |-> TRUE]
      /\ \A q \in Proc : q # p => proc'[q] = proc[q]
  BY <1>1, <1>2, ProcMoves
<1>4. proc'[p].at = "loading" /\ proc'[p].boot
  BY <1>3
<1> QED BY <1>3, <1>4 DEF Launch

(* A process is told to exit.                                               *)
LEMMA TerminateMoves ==
    ASSUME Ranges, NEW p \in Proc, Terminate(p)
    PROVE  /\ proc' \in ProcType /\ rpc' \in Maybe
           /\ rpc = None => rpc' = None
           /\ proc'[p].at = IF proc[p].at = "free" THEN "free" ELSE "ending"
           /\ proc'[p].boot = proc[p].boot
           /\ \A q \in Proc : q # p => proc'[q] = proc[q]
<1> DEFINE at == IF proc[p].at = "free" THEN "free" ELSE "ending"
<1>1. at \in {"free"} \cup Alive
  BY DEF Alive
<1>2. proc' = [proc EXCEPT ![p].at = at]
  BY DEF Terminate
<1> HIDE DEF at
<1>3. /\ proc' \in ProcType
      /\ proc'[p].at = at /\ proc'[p].boot = proc[p].boot
      /\ \A q \in Proc : q # p => proc'[q] = proc[q]
  BY <1>1, <1>2, PlaceMoves
<1> QED BY <1>3 DEF Terminate, Maybe, Ranges, at

(* Nothing about the processes or the transaction changes.                  *)
LEMMA ProcKept ==
    ASSUME ProcSound, UNCHANGED <<proc, tx>>,
           \/ helper' = helper
           \/ helper'.at \notin {"save", "spawn", "rbStopping"}
    PROVE  ProcSound'
  BY DEF ProcSound, ServingSound, EarlySound, NoneSound, PreparedSound,
     LaterSound, OldSound, MemorySound, Own, Early

(* The transaction goes on, past the end of the old runtime.                *)
LEMMA LaterKept ==
    ASSUME ProcSound, UNCHANGED proc, ~Early,
           tx'.state \notin {"none", "prepared"},
           tx'.old = tx.old, tx'.new = tx.new,
           helper'.at \notin {"save", "spawn", "rbStopping"}
    PROVE  ProcSound'
  BY DEF ProcSound, ServingSound, EarlySound, NoneSound, PreparedSound,
     LaterSound, OldSound, MemorySound, Own, Early

(* The child on record is forgotten when none is there.                     *)
LEMMA ForgetKept ==
    ASSUME ProcSound, UNCHANGED proc, tx.state # "none",
           tx'.state \notin {"none", "prepared"},
           tx'.old = tx.old, tx'.new = None,
           proc[tx.old].at = "free",
           \A p \in Proc : Own(p) => proc[p].at = "spawned",
           helper'.at \notin {"save", "spawn", "rbStopping"}
    PROVE  ProcSound'
  BY DEF ProcSound, ServingSound, EarlySound, NoneSound, PreparedSound,
     LaterSound, OldSound, MemorySound, Own, Early

(* Admission stays as it is, or opens.                                      *)
LEMMA AdmissionKept ==
    ASSUME AdmissionSound, UNCHANGED <<rpc, sess, worked>>,
           lease' = "held" => lease = "held",
           tx'.state = "starting" => tx.state = "starting",
           helper' = helper \/ helper'.at \notin {"save", "stop", "stopping"}
    PROVE  AdmissionSound'
  BY DEF AdmissionSound

(* The budget is what it was.                                               *)
LEMMA BudgetKept ==
    ASSUME BudgetSound,
           \/ ~helper'.counted
           \/ /\ helper'.counted = helper.counted
              /\ helper'.at # "idle" \/ helper' = helper
              /\ UNCHANGED recovery
    PROVE  BudgetSound'
  BY DEF BudgetSound
-----------------------------------------------------------------------------
(* Clients, the session and the clock.                                      *)
LEMMA ClientStep ==
    ASSUME IInv, NEW p \in Proc,
           BeginRequest(p) \/ EndRequest \/ TurnEnds \/
             SessionFails \/ LeaseExpires
    PROVE  IInv'
<1> USE DEF IInv
<1>1. CASE BeginRequest(p)
  <2>1. rpc' \in Maybe
    BY <1>1 DEF BeginRequest, Maybe
  <2>2. Ranges'
    BY <1>1, <2>1 DEF BeginRequest, Ranges
  <2>3. PhaseSound'
    BY <1>1, <2>1 DEF BeginRequest, PhaseSound, Fits
  <2>4. AdmissionSound'
    BY <1>1, <2>1 DEF BeginRequest, AdmissionSound
  <2>5. BudgetSound'
    BY <1>1, <2>1, BudgetKept DEF BeginRequest
  <2>6. ProcSound'
    BY <1>1, <2>1, ProcKept DEF BeginRequest
  <2> QED BY <2>2, <2>3, <2>4, <2>5, <2>6
<1>2. CASE EndRequest
  <2>1. sess' \in SessType /\ rpc' \in Maybe
    <3>1. CASE sess' = [sess EXCEPT !.busy = TRUE]
      BY <1>2, <3>1 DEF EndRequest, Ranges, SessType, Maybe
    <3>2. CASE sess.run < MaxRuns
               /\ sess' = [run |-> sess.run + 1, up |-> TRUE, busy |-> FALSE]
      <4>1. sess.run + 1 \in 1 .. MaxRuns
        BY <3>2, BoundAssumption DEF Ranges, SessType
      <4> QED BY <1>2, <3>2, <4>1 DEF EndRequest, SessType, Maybe
    <3> QED BY <1>2, <3>1, <3>2 DEF EndRequest
  <2>2. Ranges'
    BY <1>2, <2>1 DEF EndRequest, Ranges
  <2>3. PhaseSound'
    BY <1>2, <2>1 DEF EndRequest, PhaseSound, Fits
  <2>4. AdmissionSound'
    BY <1>2, <2>1 DEF EndRequest, AdmissionSound
  <2>5. BudgetSound'
    BY <1>2, <2>1, BudgetKept DEF EndRequest
  <2>6. ProcSound'
    BY <1>2, <2>1, ProcKept DEF EndRequest
  <2> QED BY <2>2, <2>3, <2>4, <2>5, <2>6
<1>3. CASE TurnEnds
  <2>1. sess' \in SessType /\ ~sess'.busy
    BY <1>3 DEF TurnEnds, Ranges, SessType
  <2>2. Ranges'
    BY <1>3, <2>1 DEF TurnEnds, Ranges
  <2>3. PhaseSound'
    BY <1>3, <2>1 DEF TurnEnds, PhaseSound, Fits
  <2>4. AdmissionSound'
    BY <1>3, <2>1 DEF TurnEnds, AdmissionSound
  <2>5. BudgetSound'
    BY <1>3, <2>1, BudgetKept DEF TurnEnds
  <2>6. ProcSound'
    BY <1>3, <2>1, ProcKept DEF TurnEnds
  <2> QED BY <2>2, <2>3, <2>4, <2>5, <2>6
<1>4. CASE SessionFails
  <2>1. sess' \in SessType /\ ~sess'.busy
    BY <1>4 DEF SessionFails, Ranges, SessType
  <2>2. Ranges'
    BY <1>4, <2>1 DEF SessionFails, Ranges
  <2>3. PhaseSound'
    BY <1>4, <2>1 DEF SessionFails, PhaseSound, Fits
  <2>4. AdmissionSound'
    BY <1>4, <2>1 DEF SessionFails, AdmissionSound
  <2>5. BudgetSound'
    BY <1>4, <2>1, BudgetKept DEF SessionFails
  <2>6. ProcSound'
    BY <1>4, <2>1, ProcKept DEF SessionFails
  <2> QED BY <2>2, <2>3, <2>4, <2>5, <2>6
<1>5. CASE LeaseExpires
  <2>1. lease' \in Leases /\ lease' # "held"
    BY <1>5 DEF LeaseExpires, Leases
  <2>2. Ranges'
    BY <1>5, <2>1 DEF LeaseExpires, Ranges
  <2>3. PhaseSound'
    BY <1>5, <2>1 DEF LeaseExpires, PhaseSound, Fits
  <2>4. AdmissionSound'
    BY <1>5, <2>1 DEF LeaseExpires, AdmissionSound
  <2>5. BudgetSound'
    BY <1>5, <2>1, BudgetKept DEF LeaseExpires
  <2>6. ProcSound'
    BY <1>5, <2>1, ProcKept DEF LeaseExpires
  <2> QED BY <2>2, <2>3, <2>4, <2>5, <2>6
<1> QED BY <1>1, <1>2, <1>3, <1>4, <1>5

(* Processes exit, publish themselves, serve and boot.                      *)
LEMMA ProcessStep ==
    ASSUME IInv, NEW p \in Proc,
           Exits(p) \/ RuntimeChild(p) \/ Serve(p) \/ Boot(p)
    PROVE  IInv'
<1> USE DEF IInv
<1>1. CASE Exits(p)
  <2>1. /\ proc' \in ProcType /\ proc'[p].at = "free"
        /\ \A q \in Proc : q # p => proc'[q] = proc[q]
    <3>1. CASE p = tx.new
      <4>1. proc' = [proc EXCEPT ![p].at = "free"]
        BY <1>1, <3>1 DEF Exits
      <4> QED BY <4>1, PlaceMoves DEF Alive
    <3>2. CASE p # tx.new
      <4>1. proc' = [proc EXCEPT ![p] = [at |-> "free", bin |-> "old",
                                        boot |-> FALSE]]
        BY <1>1, <3>2 DEF Exits, Free
      <4>2. "free" \in {"free"} \cup Alive /\ "old" \in {"old", "new"}
            /\ FALSE \in BOOLEAN
        OBVIOUS
      <4>3. /\ proc' \in ProcType
            /\ proc'[p] = [at |-> "free", bin |-> "old", boot |-> FALSE]
            /\ \A q \in Proc : q # p => proc'[q] = proc[q]
        BY <4>1, <4>2, ProcMoves
      <4> QED BY <4>3
    <3> QED BY <3>1, <3>2
  <2>2. rpc' \in Maybe /\ (rpc = None => rpc' = None)
    BY <1>1 DEF Exits, Maybe, Ranges
  <2>3. Ranges'
    BY <1>1, <2>1, <2>2 DEF Exits, Ranges
  <2>4. PhaseSound'
    BY <1>1, <2>1, <2>2 DEF Exits, PhaseSound, Fits
  <2>5. AdmissionSound'
    BY <1>1, <2>1, <2>2 DEF Exits, AdmissionSound
  <2>6. BudgetSound'
    BY <1>1, <2>1, <2>2, BudgetKept DEF Exits
  <2>7. ProcSound'
    BY <1>1, <2>1, <2>2 DEF Exits, ProcSound, ServingSound, EarlySound,
       NoneSound, PreparedSound, LaterSound, OldSound, MemorySound, Own,
       Early
  <2> QED BY <2>3, <2>4, <2>5, <2>6, <2>7
<1>2. CASE RuntimeChild(p)
  <2>1. /\ proc' \in ProcType /\ proc'[p].at = "loading"
        /\ \A q \in Proc : q # p => proc'[q] = proc[q]
    <3>1. proc' = [proc EXCEPT ![p].at = "loading"]
      BY <1>2 DEF RuntimeChild
    <3> QED BY <3>1, PlaceMoves DEF Alive
  <2>2. /\ tx' \in TxType /\ tx'.state = tx.state
        /\ tx'.old = tx.old /\ tx'.new = p
    <3>1. tx' = [tx EXCEPT !.new = p]
      BY <1>2 DEF RuntimeChild
    <3>2. tx.state \in States /\ p \in Maybe
      BY DEF Ranges, TxType, Maybe
    <3> QED BY <3>1, <3>2, NewMoves
  <2>3. /\ tx.state \in {"starting", "rolling_back"} /\ tx.new = None
        /\ proc[p].at = "spawned"
        /\ helper.at \notin {"spawn", "rbStopping", "save"}
    BY <1>2 DEF RuntimeChild, Publishable, HelperLocks, PhaseSound, Fits,
       ProcSound, MemorySound
  <2>4. None \notin Proc
    BY ProcAssumption
  <2>5. Ranges'
    BY <1>2, <2>1, <2>2, <2>3, <2>4 DEF RuntimeChild, Ranges
  <2>6. PhaseSound'
    BY <1>2, <2>1, <2>2, <2>3, <2>4 DEF RuntimeChild, PhaseSound, Fits
  <2>7. AdmissionSound'
    BY <1>2, <2>1, <2>2, <2>3, <2>4, AdmissionKept DEF RuntimeChild
  <2>8. BudgetSound'
    BY <1>2, <2>1, <2>2, <2>3, <2>4, BudgetKept DEF RuntimeChild
  <2>9. ProcSound'
    BY <1>2, <2>1, <2>2, <2>3, <2>4 DEF RuntimeChild, ProcSound,
       ServingSound, EarlySound, NoneSound, PreparedSound, LaterSound,
       OldSound, MemorySound, Own, Early
  <2> QED BY <2>5, <2>6, <2>7, <2>8, <2>9
<1>3. CASE Serve(p)
  <2>1. /\ proc' \in ProcType /\ proc'[p].at = "serving"
        /\ proc'[p].boot = proc[p].boot
        /\ \A q \in Proc : q # p => proc'[q] = proc[q]
    <3>1. proc' = [proc EXCEPT ![p].at = "serving"]
      BY <1>3 DEF Serve
    <3> QED BY <3>1, PlaceMoves DEF Alive
  <2>2. Ranges'
    BY <1>3, <2>1 DEF Serve, Ranges
  <2>3. PhaseSound'
    BY <1>3, <2>1 DEF Serve, PhaseSound, Fits
  <2>4. AdmissionSound'
    BY <1>3, <2>1, AdmissionKept DEF Serve
  <2>5. BudgetSound'
    BY <1>3, <2>1, BudgetKept DEF Serve
  <2>6. ProcSound'
    BY <1>3, <2>1 DEF Serve, ProcSound, ServingSound, EarlySound, NoneSound,
       PreparedSound, LaterSound, OldSound, MemorySound, Own, Early
  <2> QED BY <2>2, <2>3, <2>4, <2>5, <2>6
<1>4. CASE Boot(p)
  <2>1. /\ proc' \in ProcType /\ proc[p].at = "free"
        /\ p # tx.old /\ p # tx.new
        /\ proc'[p].at = "loading" /\ proc'[p].boot
        /\ \A q \in Proc : q # p => proc'[q] = proc[q]
    <3>1. PICK binary \in {"old", "new"} : Launch(p, binary, TRUE)
      BY <1>4 DEF Boot
    <3> QED BY <3>1, BootMoves
  <2>2. Ranges'
    BY <1>4, <2>1 DEF Boot, Ranges
  <2>3. PhaseSound'
    BY <1>4, <2>1 DEF Boot, PhaseSound, Fits
  <2>4. AdmissionSound'
    BY <1>4, <2>1, AdmissionKept DEF Boot
  <2>5. BudgetSound'
    BY <1>4, <2>1, BudgetKept DEF Boot
  <2>6. ProcSound'
    BY <1>4, <2>1 DEF Boot, ProcSound, ServingSound, EarlySound, NoneSound,
       PreparedSound, LaterSound, OldSound, MemorySound, Own, Early
  <2> QED BY <2>2, <2>3, <2>4, <2>5, <2>6
<1> QED BY <1>1, <1>2, <1>3, <1>4

(* The manager begins an update, recovers, gives up or forgets.             *)
LEMMA ManagerStep ==
    ASSUME IInv,
           Update \/ Dispatch \/ GiveUp \/ Forget \/ Retry
    PROVE  IInv'
<1> USE DEF IInv
<1>1. CASE Update
  <2>1. /\ helper' \in HelperType /\ helper'.at = "hold"
        /\ ~helper'.counted
    <3>1. helper' = [Idle EXCEPT !.at = "hold"]
      BY <1>1 DEF Update
    <3> QED BY <3>1, IdleIs DEF HelperType, Places
  <2>2. Ranges'
    BY <1>1, <2>1 DEF Update, Ranges
  <2>3. PhaseSound'
    BY <1>1, <2>1 DEF Update, PhaseSound, Fits
  <2>4. AdmissionSound'
    BY <1>1, <2>1, AdmissionKept DEF Update
  <2>5. BudgetSound'
    BY <1>1, <2>1, BudgetKept DEF Update
  <2>6. ProcSound'
    BY <1>1, <2>1, ProcKept DEF Update
  <2> QED BY <2>2, <2>3, <2>4, <2>5, <2>6
<1>2. CASE Dispatch
  <2>1. Spent \in 0 .. RecoveryAttempts /\ (~FreshKey => Spent # 0)
    <3>1. recovery.attempts \in 0 .. RecoveryAttempts
      BY DEF Ranges, RecoveryType
    <3>2. ~FreshKey => recovery.attempts # RecoveryAttempts
      BY <1>2 DEF Dispatch, Exhausted
    <3> QED BY <3>1, <3>2, BoundAssumption DEF Spent
  <2>2. FinalizationKey \in Seen
        /\ (FinalizationKey # <<>> => tx.state \notin {"none", "prepared"})
    <3>1. CASE FinalizationKey = <<>>
      BY <3>1 DEF Seen
    <3>2. CASE FinalizationKey # <<>>
      <4>1. /\ tx.state \in {"starting", "healthy", "rolling_back",
                            "rolled_back"}
            /\ tx.new \in Serving /\ FinalizationKey = <<tx.state, tx.new>>
        BY <3>2 DEF FinalizationKey
      <4>2. tx.new \in Proc
        BY <4>1 DEF Serving
      <4> QED BY <4>1, <4>2 DEF Seen, Keys
    <3> QED BY <3>1, <3>2
  <2>3. /\ recovery' \in RecoveryType
        /\ recovery'.attempts = Spent
    <3> DEFINE seen  == IF FreshKey THEN FinalizationKey ELSE recovery.seen
               knows == recovery.knows \/ (Available /\ lease = "held")
    <3>1. recovery' = [status |-> "open", attempts |-> Spent, seen |-> seen,
                       knows |-> knows]
      BY <1>2 DEF Dispatch
    <3>2. seen \in Seen /\ knows \in BOOLEAN
      BY <2>2 DEF Ranges, RecoveryType
    <3> HIDE DEF seen, knows
    <3> QED BY <2>1, <3>1, <3>2 DEF RecoveryType
  <2>4. /\ helper' \in HelperType /\ helper'.at = "read"
        /\ helper'.counted = ~FreshKey
        /\ helper'.mode = "finalize" => FinalizationKey # <<>>
    <3> DEFINE mode == IF FinalizationKey = <<>> THEN "recover" ELSE "finalize"
    <3>1. helper' = [Idle EXCEPT !.at = "read", !.counted = ~FreshKey,
                                 !.mode = mode]
      BY <1>2 DEF Dispatch
    <3>2. mode \in Modes /\ (~FreshKey) \in BOOLEAN /\ "read" \in Places
      BY DEF Modes, Places
    <3>3. helper' \in HelperType /\ helper'.at = "read"
          /\ helper'.counted = ~FreshKey /\ helper'.mode = mode
      <4> HIDE DEF mode
      <4> QED BY <3>1, <3>2, IdleIs DEF HelperType
    <3> QED BY <3>3
  <2>5. Ranges'
    BY <1>2, <2>1, <2>2, <2>3, <2>4 DEF Dispatch, Ranges
  <2>6. PhaseSound'
    BY <1>2, <2>1, <2>2, <2>3, <2>4 DEF Dispatch, PhaseSound, Fits
  <2>7. AdmissionSound'
    BY <1>2, <2>1, <2>2, <2>3, <2>4, AdmissionKept DEF Dispatch
  <2>8. BudgetSound'
    BY <1>2, <2>1, <2>2, <2>3, <2>4 DEF Dispatch, BudgetSound
  <2>9. ProcSound'
    BY <1>2, <2>1, <2>2, <2>3, <2>4, ProcKept DEF Dispatch
  <2> QED BY <2>5, <2>6, <2>7, <2>8, <2>9
<1>3. CASE GiveUp
  <2>1. recovery' \in RecoveryType
    <3>1. 0 \in 0 .. RecoveryAttempts /\ <<>> \in Seen
      BY BoundAssumption DEF Seen
    <3>2. recovery' = [recovery EXCEPT !.status = "stopped"]
      BY <1>3 DEF GiveUp
    <3> QED BY <3>1, <3>2 DEF Ranges, RecoveryType, NoRecovery
  <2>2. ~helper.counted
    BY <1>3 DEF GiveUp, Due, BudgetSound
  <2>3. Ranges'
    BY <1>3, <2>1, <2>2 DEF GiveUp, Ranges
  <2>4. PhaseSound'
    BY <1>3, <2>1, <2>2 DEF GiveUp, PhaseSound, Fits
  <2>5. AdmissionSound'
    BY <1>3, <2>1, <2>2, AdmissionKept DEF GiveUp
  <2>6. BudgetSound'
    BY <1>3, <2>1, <2>2, BudgetKept DEF GiveUp
  <2>7. ProcSound'
    BY <1>3, <2>1, <2>2, ProcKept DEF GiveUp
  <2> QED BY <2>3, <2>4, <2>5, <2>6, <2>7
<1>4. CASE Forget
  <2>1. recovery' \in RecoveryType
    <3>1. 0 \in 0 .. RecoveryAttempts /\ <<>> \in Seen
      BY BoundAssumption DEF Seen
    <3>2. recovery' = NoRecovery
      BY <1>4 DEF Forget
    <3> QED BY <3>1, <3>2 DEF Ranges, RecoveryType, NoRecovery
  <2>2. ~helper.counted
    BY <1>4 DEF Forget, Due, BudgetSound
  <2>3. Ranges'
    BY <1>4, <2>1, <2>2 DEF Forget, Ranges
  <2>4. PhaseSound'
    BY <1>4, <2>1, <2>2 DEF Forget, PhaseSound, Fits
  <2>5. AdmissionSound'
    BY <1>4, <2>1, <2>2, AdmissionKept DEF Forget
  <2>6. BudgetSound'
    BY <1>4, <2>1, <2>2, BudgetKept DEF Forget
  <2>7. ProcSound'
    BY <1>4, <2>1, <2>2, ProcKept DEF Forget
  <2> QED BY <2>3, <2>4, <2>5, <2>6, <2>7
<1>5. CASE Retry
  <2>1. recovery' \in RecoveryType
    <3>1. 0 \in 0 .. RecoveryAttempts /\ <<>> \in Seen
      BY BoundAssumption DEF Seen
    <3>2. recovery' = [NoRecovery EXCEPT !.status = "open"]
      BY <1>5 DEF Retry
    <3> QED BY <3>1, <3>2 DEF Ranges, RecoveryType, NoRecovery
  <2>2. ~helper.counted
    BY <1>5 DEF Retry, Due, BudgetSound
  <2>3. Ranges'
    BY <1>5, <2>1, <2>2 DEF Retry, Ranges
  <2>4. PhaseSound'
    BY <1>5, <2>1, <2>2 DEF Retry, PhaseSound, Fits
  <2>5. AdmissionSound'
    BY <1>5, <2>1, <2>2, AdmissionKept DEF Retry
  <2>6. BudgetSound'
    BY <1>5, <2>1, <2>2, BudgetKept DEF Retry
  <2>7. ProcSound'
    BY <1>5, <2>1, <2>2, ProcKept DEF Retry
  <2> QED BY <2>3, <2>4, <2>5, <2>6, <2>7
<1> QED BY <1>1, <1>2, <1>3, <1>4, <1>5

-----------------------------------------------------------------------------
(* The helper.  It exits and leaves everything but the lease as it is.      *)
LEMMA EndKept ==
    ASSUME IInv, NEW class, End(class),
           UNCHANGED <<proc, tx, sess, rpc, worked>>,
           lease' \in Leases, lease' = "held" => lease = "held"
    PROVE  IInv'
<1> USE DEF IInv
<1>1. /\ helper' \in HelperType /\ helper'.at = "idle"
      /\ ~helper'.counted /\ recovery' \in RecoveryType
  BY EndMoves
<1>2. Ranges'
  BY <1>1 DEF Ranges
<1>3. PhaseSound'
  BY <1>1 DEF PhaseSound, Fits
<1>4. AdmissionSound'
  BY <1>1, AdmissionKept
<1>5. BudgetSound'
  BY <1>1, BudgetKept
<1>6. ProcSound'
  BY <1>1, ProcKept
<1> QED BY <1>2, <1>3, <1>4, <1>5, <1>6

(* It goes on, where the transaction allows it to be.                       *)
LEMMA GotoKept ==
    ASSUME IInv, NEW at \in Places, Goto(at),
           UNCHANGED <<proc, tx, lease, sess, rpc, worked>>,
           at \notin {"idle", "save", "stop", "stopping", "spawn",
                      "rbStopping"},
           Fits(at, helper.mode, tx.state)
    PROVE  IInv'
<1> USE DEF IInv
<1>1. /\ helper' \in HelperType /\ helper'.at = at
      /\ helper'.mode = helper.mode /\ helper'.counted = helper.counted
      /\ recovery' = recovery
  BY GotoMoves
<1>2. Ranges'
  BY <1>1 DEF Ranges
<1>3. PhaseSound'
  BY <1>1 DEF PhaseSound
<1>4. AdmissionSound'
  BY <1>1, AdmissionKept
<1>5. BudgetSound'
  BY <1>1, BudgetKept
<1>6. ProcSound'
  BY <1>1, ProcKept
<1> QED BY <1>2, <1>3, <1>4, <1>5, <1>6

(* It goes on and writes how far the transaction has come.                  *)
LEMMA StateKept ==
    ASSUME IInv, NEW at \in Places, Goto(at),
           NEW state \in {"rolling_back", "healthy", "rolled_back"},
           tx' = [tx EXCEPT !.state = state], ~Early,
           UNCHANGED <<proc, lease, sess, rpc, worked>>,
           at \notin {"idle", "save", "stop", "stopping", "spawn",
                      "rbStopping"},
           Fits(at, helper.mode, state)
    PROVE  IInv'
<1> USE DEF IInv
<1>1. /\ helper' \in HelperType /\ helper'.at = at
      /\ helper'.mode = helper.mode /\ helper'.counted = helper.counted
      /\ recovery' = recovery
  BY GotoMoves
<1>2. /\ tx' \in TxType /\ tx'.state = state
      /\ tx'.old = tx.old /\ tx'.new = tx.new
  BY StateMoves DEF States
<1>3. Ranges'
  BY <1>1, <1>2 DEF Ranges
<1>4. PhaseSound'
  BY <1>1, <1>2 DEF PhaseSound
<1>5. AdmissionSound'
  BY <1>1, <1>2, AdmissionKept
<1>6. BudgetSound'
  BY <1>1, BudgetKept
<1>7. ProcSound'
  BY <1>1, <1>2, LaterKept
<1> QED BY <1>3, <1>4, <1>5, <1>6, <1>7

(* It rolls back with no child on record, and none there to be recorded.    *)
LEMMA ForgetChild ==
    ASSUME IInv, NEW at \in {"rollback", "rbSpawn"}, Goto(at),
           \/ tx' = [tx EXCEPT !.state = "rolling_back", !.new = None]
           \/ tx.state = "rolling_back" /\ tx' = [tx EXCEPT !.new = None],
           tx.state # "none", proc[tx.old].at = "free",
           \A p \in Proc : Own(p) => proc[p].at = "spawned",
           UNCHANGED <<proc, lease, sess, rpc, worked>>
    PROVE  IInv'
<1> USE DEF IInv
<1>1. /\ helper' \in HelperType /\ helper'.at = at
      /\ helper'.mode = helper.mode /\ helper'.counted = helper.counted
      /\ recovery' = recovery
  BY GotoMoves DEF Places
<1>2. /\ tx' \in TxType /\ tx'.state = "rolling_back"
      /\ tx'.old = tx.old /\ tx'.new = None
  <2>1. None \in Maybe /\ "rolling_back" \in States
    BY DEF Maybe, States
  <2> QED BY <2>1, NewMoves
<1>3. Ranges'
  BY <1>1, <1>2 DEF Ranges
<1>4. PhaseSound'
  BY <1>1, <1>2 DEF PhaseSound, Fits
<1>5. AdmissionSound'
  BY <1>1, <1>2, AdmissionKept
<1>6. BudgetSound'
  BY <1>1, BudgetKept
<1>7. ProcSound'
  BY <1>1, <1>2, ForgetKept
<1> QED BY <1>3, <1>4, <1>5, <1>6, <1>7
-----------------------------------------------------------------------------
(* From where the transaction stands to the old runtime's last request.     *)
LEMMA BeginStep ==
    ASSUME IInv, Read \/ StartLocked \/ Hold \/ HoldFails \/ Check
    PROVE  IInv'
<1> USE DEF IInv
<1>0. lease \in Leases /\ "none" \in Leases
  BY DEF Ranges, Leases
<1>1. CASE Read
  <2>1. CASE helper.mode = "finalize"
    <3>1. tx.state \in {"starting", "healthy", "rolling_back", "rolled_back"}
      BY <1>1, <2>1 DEF Read, PhaseSound, Fits, Ranges, TxType, States
    <3>2. CASE tx.state \in {"starting", "healthy"}
      <4>1. Goto("finish") /\ "finish" \in Places
        BY <1>1, <2>1, <3>2 DEF Read, Places
      <4>2. Fits("finish", helper.mode, tx.state)
        BY <3>2 DEF Fits
      <4> QED BY <1>1, <4>1, <4>2, GotoKept DEF Read
    <3>3. CASE tx.state \notin {"starting", "healthy"}
      <4>1. Goto("rbFinish") /\ "rbFinish" \in Places
        BY <1>1, <2>1, <3>3 DEF Read, Places
      <4>2. Fits("rbFinish", helper.mode, tx.state)
        BY <3>1, <3>3 DEF Fits
      <4> QED BY <1>1, <4>1, <4>2, GotoKept DEF Read
    <3> QED BY <3>2, <3>3
  <2>2. CASE helper.mode # "finalize"
    <3>1. CASE tx.state = "prepared"
      <4>1. Goto("hold") /\ "hold" \in Places
        BY <1>1, <2>2, <3>1 DEF Read, Resumes, Places
      <4>2. Fits("hold", helper.mode, tx.state)
        BY <3>1 DEF Fits
      <4> QED BY <1>1, <4>1, <4>2, GotoKept DEF Read
    <3>2. CASE tx.state = "starting"
      <4>1. Goto("wait") /\ "wait" \in Places
        BY <1>1, <2>2, <3>2 DEF Read, Resumes, Places
      <4>2. Fits("wait", helper.mode, tx.state)
        BY <3>2 DEF Fits
      <4> QED BY <1>1, <4>1, <4>2, GotoKept DEF Read
    <3>3. CASE tx.state = "rolling_back"
      <4>1. Goto("rollback") /\ "rollback" \in Places
        BY <1>1, <2>2, <3>3 DEF Read, Resumes, Places
      <4>2. Fits("rollback", helper.mode, tx.state)
        BY <3>3 DEF Fits
      <4> QED BY <1>1, <4>1, <4>2, GotoKept DEF Read
    <3>4. CASE tx.state \notin {"prepared", "starting", "rolling_back"}
      <4>1. End("operator")
        BY <1>1, <2>2, <3>4 DEF Read, Resumes
      <4> QED BY <1>0, <1>1, <4>1, EndKept DEF Read
    <3> QED BY <3>1, <3>2, <3>3, <3>4
  <2> QED BY <2>1, <2>2
<1>2. CASE StartLocked
  <2>1. PICK class \in {"waiting", "transient"} : End(class)
    BY <1>2 DEF StartLocked
  <2> QED BY <1>0, <1>2, <2>1, EndKept DEF StartLocked
<1>3. CASE Hold
  <2>1. /\ helper' \in HelperType /\ helper'.at = "check"
        /\ helper'.mode = helper.mode /\ helper'.counted = helper.counted
        /\ recovery' = recovery
    BY <1>3, GotoMoves DEF Hold, Places
  <2>2. tx.state \in {"none", "prepared"} /\ rpc' = None
    BY <1>3 DEF Hold, PhaseSound, Fits
  <2>3. Ranges'
    BY <1>3, <2>1 DEF Hold, Ranges, Leases
  <2>4. PhaseSound'
    BY <1>3, <2>1, <2>2 DEF Hold, PhaseSound, Fits
  <2>5. AdmissionSound'
    BY <1>3, <2>1, <2>2 DEF Hold, AdmissionSound
  <2>6. BudgetSound'
    BY <2>1, BudgetKept
  <2>7. ProcSound'
    BY <1>3, <2>1, ProcKept DEF Hold
  <2> QED BY <2>3, <2>4, <2>5, <2>6, <2>7
<1>4. CASE HoldFails
  <2>1. CASE OldGone /\ lease = "held"
    <3>1. /\ Goto("rollback")
          /\ tx' = [tx EXCEPT !.state = "rolling_back", !.new = None]
      BY <1>4, <2>1 DEF HoldFails
    <3>2. /\ tx.state = "prepared" /\ proc[tx.old].at = "free"
          /\ \A p \in Proc : ~Own(p)
      BY <2>1 DEF OldGone, ProcSound, PreparedSound, Own
    <3> QED BY <1>4, <3>1, <3>2, ForgetChild DEF HoldFails
  <2>2. CASE ~(OldGone /\ lease = "held")
    <3>1. \/ End("transient") /\ UNCHANGED tx
          \/ End("operator") /\ UNCHANGED tx
      BY <1>4, <2>2 DEF HoldFails
    <3> QED BY <1>0, <1>4, <3>1, EndKept DEF HoldFails
  <2> QED BY <2>1, <2>2
<1>5. CASE Check
  <2> DEFINE swept == /\ Available /\ ~sess.busy
                      /\ ~(tx.state = "prepared" /\ tx.old \notin Serving)
  <2>1. CASE ~swept
    <3>1. /\ \E class \in {"transient", "waiting", "operator"} : End(class)
          /\ lease' = lease \/ lease' = "none"
      BY <1>5, <2>1 DEF Check
    <3> QED BY <1>0, <1>5, <3>1, EndKept DEF Check
  <2>2. CASE swept
    <3>1. PICK p \in Serving :
             helper' = [helper EXCEPT !.at = "save", !.old = p,
                                      !.base = Sessions]
      BY <1>5, <2>2 DEF Check
    <3>2. UNCHANGED <<lease, recovery>>
      BY <1>5, <2>2 DEF Check
    <3>3. p \in Proc /\ proc[p].at = "serving"
      BY <3>1 DEF Serving
    <3>4. Sessions \in 0 .. MaxRuns
      BY BoundAssumption DEF Sessions, Ranges, SessType
    <3>5. /\ helper' \in HelperType /\ helper'.at = "save" /\ helper'.old = p
          /\ helper'.mode = helper.mode /\ helper'.counted = helper.counted
      BY <3>1, <3>3, <3>4 DEF Ranges, HelperType, Places, Maybe
    <3>6. Ranges'
      BY <1>5, <3>2, <3>5 DEF Check, Ranges
    <3>7. PhaseSound'
      BY <1>5, <3>5 DEF Check, PhaseSound, Fits
    <3>8. AdmissionSound'
      BY <1>5, <2>2, <3>2, <3>5 DEF Check, AdmissionSound
    <3>9. BudgetSound'
      BY <3>2, <3>5, BudgetKept
    <3>10. tx.state = "prepared" => p = tx.old
      <4>1. tx.state = "prepared" => tx.old \in Proc
                                     /\ proc[tx.old].at = "serving"
        BY <2>2 DEF Serving
      <4> QED BY <3>3, <4>1 DEF ProcSound, ServingSound
    <3>11. tx.state = "none" => \A q \in Proc : Own(q) => q = p
      BY <3>3 DEF ProcSound, NoneSound, ServingSound
    <3>12. MemorySound'
      BY <1>5, <3>3, <3>5, <3>10, <3>11 DEF Check, MemorySound, Own
    <3>13. ProcSound'
      BY <1>5, <3>12 DEF Check, ProcSound, ServingSound, EarlySound,
         NoneSound, PreparedSound, LaterSound, OldSound, Own, Early
    <3> QED BY <3>6, <3>7, <3>8, <3>9, <3>13
  <2> QED BY <2>1, <2>2
<1> QED BY <1>1, <1>2, <1>3, <1>4, <1>5

(* The baseline is saved and the old runtime stopped.                       *)
LEMMA StopStep ==
    ASSUME IInv, SaveBase \/ StopOld \/ OldStopped \/ StopTimesOut
    PROVE  IInv'
<1> USE DEF IInv
<1>0. lease \in Leases
  BY DEF Ranges
<1>1. CASE SaveBase
  <2>1. helper.at = "save" /\ tx.state \in {"none", "prepared"}
        /\ helper.old \in Proc
    BY <1>1 DEF SaveBase, PhaseSound, Fits, ProcSound, MemorySound
  <2>2. /\ tx' \in TxType /\ tx'.state = "prepared"
        /\ tx'.old = helper.old /\ tx'.new = tx.new
    <3>1. helper.base \in 0 .. MaxRuns /\ helper.old \in Maybe
          /\ "prepared" \in States
      BY DEF Ranges, HelperType, States
    <3>2. tx' = [tx EXCEPT !.state = "prepared", !.old = helper.old,
                           !.base = helper.base]
      BY <1>1 DEF SaveBase
    <3> QED BY <3>1, <3>2 DEF Ranges, TxType
  <2>3. /\ helper' \in HelperType /\ helper'.at \in {"hold", "stop"}
        /\ helper'.mode = helper.mode /\ helper'.counted = helper.counted
    <3> DEFINE at == IF tx.state = "none" THEN "hold" ELSE "stop"
    <3>1. helper' = [helper EXCEPT !.at = at, !.old = None, !.base = 0]
      BY <1>1 DEF SaveBase
    <3>2. at \in Places /\ None \in Maybe /\ 0 \in 0 .. MaxRuns
      BY BoundAssumption DEF Places, Maybe
    <3>3. /\ helper' \in HelperType /\ helper'.at = at
          /\ helper'.mode = helper.mode /\ helper'.counted = helper.counted
      <4> HIDE DEF at
      <4> QED BY <3>1, <3>2 DEF Ranges, HelperType
    <3> QED BY <3>3
  <2>4. Ranges'
    BY <1>1, <2>2, <2>3 DEF SaveBase, Ranges
  <2>5. PhaseSound'
    BY <2>2, <2>3 DEF PhaseSound, Fits
  <2>6. AdmissionSound'
    BY <1>1, <2>1, <2>2, <2>3 DEF SaveBase, AdmissionSound
  <2>7. BudgetSound'
    BY <1>1, <2>3, BudgetKept DEF SaveBase
  <2>8. ProcSound'
    BY <1>1, <2>1, <2>2, <2>3 DEF SaveBase, ProcSound, ServingSound,
       EarlySound, NoneSound, PreparedSound, LaterSound, OldSound,
       MemorySound, Own, Early
  <2> QED BY <2>4, <2>5, <2>6, <2>7, <2>8
<1>2. CASE StopOld
  <2>1. CASE lease = "held"
    <3>1. Terminate(tx.old) /\ Goto("stopping")
      BY <1>2, <2>1 DEF StopOld
    <3>2. tx.state = "prepared" /\ tx.old \in Proc /\ rpc = None
      BY <1>2, <2>1 DEF StopOld, PhaseSound, Fits, ProcSound, OldSound,
         AdmissionSound
    <3>3. /\ proc' \in ProcType /\ rpc' = None
          /\ proc'[tx.old].at = IF proc[tx.old].at = "free" THEN "free"
                                ELSE "ending"
          /\ proc'[tx.old].boot = proc[tx.old].boot
          /\ \A q \in Proc : q # tx.old => proc'[q] = proc[q]
      BY <3>1, <3>2, TerminateMoves
    <3>4. /\ helper' \in HelperType /\ helper'.at = "stopping"
          /\ helper'.mode = helper.mode /\ helper'.counted = helper.counted
          /\ recovery' = recovery
      BY <3>1, GotoMoves DEF Places
    <3>5. Ranges'
      BY <1>2, <3>3, <3>4 DEF StopOld, Ranges, Maybe
    <3>6. PhaseSound'
      BY <1>2, <3>2, <3>4 DEF StopOld, PhaseSound, Fits
    <3>7. AdmissionSound'
      BY <1>2, <2>1, <3>2, <3>3, <3>4 DEF StopOld, AdmissionSound
    <3>8. BudgetSound'
      BY <3>4, BudgetKept
    <3>9. ProcSound'
      BY <1>2, <3>2, <3>3, <3>4 DEF StopOld, ProcSound, ServingSound,
         EarlySound, NoneSound, PreparedSound, LaterSound, OldSound,
         MemorySound, Own, Early
    <3> QED BY <3>5, <3>6, <3>7, <3>8, <3>9
  <2>2. CASE lease # "held"
    <3>1. End("operator") /\ UNCHANGED <<proc, rpc>>
      BY <1>2, <2>2 DEF StopOld
    <3> QED BY <1>0, <1>2, <3>1, EndKept DEF StopOld
  <2> QED BY <2>1, <2>2
<1>3. CASE OldStopped
  <2>1. helper.at = "stopping" /\ tx.state = "prepared"
        /\ proc[tx.old].at = "free"
    BY <1>3 DEF OldStopped, PhaseSound, Fits
  <2>2. /\ helper' \in HelperType /\ helper'.at = "spawn"
        /\ helper'.mode = helper.mode /\ helper'.counted = helper.counted
        /\ recovery' = recovery
    BY <1>3, GotoMoves DEF OldStopped, Places
  <2>3. /\ tx' \in TxType /\ tx'.state = "starting"
        /\ tx'.old = tx.old /\ tx'.new = tx.new
    BY <1>3, StateMoves DEF OldStopped, States
  <2>4. Ranges'
    BY <1>3, <2>2, <2>3 DEF OldStopped, Ranges
  <2>5. PhaseSound'
    BY <2>2, <2>3 DEF PhaseSound, Fits
  <2>6. AdmissionSound'
    BY <1>3, <2>1, <2>2, <2>3 DEF OldStopped, AdmissionSound
  <2>7. BudgetSound'
    BY <2>2, BudgetKept
  <2>8. ProcSound'
    BY <1>3, <2>1, <2>2, <2>3 DEF OldStopped, ProcSound, ServingSound,
       EarlySound, NoneSound, PreparedSound, LaterSound, OldSound,
       MemorySound, Own, Early
  <2> QED BY <2>4, <2>5, <2>6, <2>7, <2>8
<1>4. CASE StopTimesOut
  BY <1>0, <1>4, EndKept DEF StopTimesOut
<1> QED BY <1>1, <1>2, <1>3, <1>4

(* A child is launched, of the new binary or of the old.                    *)
LEMMA SpawnStep ==
    ASSUME IInv, SpawnNew \/ SpawnOld
    PROVE  IInv'
<1> USE DEF IInv
<1> DEFINE at == IF helper.at = "spawn" THEN "wait" ELSE "rbUnlock"
<1>1. PICK p \in Proc, bin \in {"old", "new"} : Launch(p, bin, FALSE)
  BY DEF SpawnNew, SpawnOld
<1>2. /\ proc' \in ProcType /\ proc[p].at = "free"
      /\ p # tx.old /\ p # tx.new
      /\ proc'[p].at = "spawned" /\ ~proc'[p].boot
      /\ \A q \in Proc : q # p => proc'[q] = proc[q]
  BY <1>1, LaunchMoves
<1>3. /\ UNCHANGED <<tx, lease, sess, rpc, worked>>
      /\ \/ helper.at = "spawn" /\ Goto("wait")
         \/ helper.at = "rbSpawn" /\ Goto("rbUnlock")
  BY DEF SpawnNew, SpawnOld
<1>4. /\ helper' \in HelperType /\ helper'.at = at
      /\ helper'.mode = helper.mode /\ helper'.counted = helper.counted
      /\ recovery' = recovery
  BY <1>3, GotoMoves DEF Places
<1>5. tx.state \in {"starting", "rolling_back"}
      /\ (at = "wait" => tx.state = "starting")
      /\ (at = "rbUnlock" => tx.state = "rolling_back")
  BY <1>3 DEF PhaseSound, Fits
<1>6. Ranges'
  BY <1>2, <1>3, <1>4 DEF Ranges
<1>7. PhaseSound'
  BY <1>3, <1>4, <1>5 DEF PhaseSound, Fits
<1>8. AdmissionSound'
  BY <1>3, <1>4, AdmissionKept
<1>9. BudgetSound'
  BY <1>4, BudgetKept
<1>10. ProcSound'
  BY <1>2, <1>3, <1>4, <1>5 DEF ProcSound, ServingSound, EarlySound,
     NoneSound, PreparedSound, LaterSound, OldSound, MemorySound, Own, Early
<1> QED BY <1>6, <1>7, <1>8, <1>9, <1>10

(* The candidate is waited for and acknowledged, or given up.               *)
LEMMA ForwardStep ==
    ASSUME IInv, SpawnFails \/ Answers \/ WaitTimesOut \/ FinishRuntime
                 \/ FinishFails
    PROVE  IInv'
<1> USE DEF IInv
<1>0. lease \in Leases
  BY DEF Ranges
<1>1. CASE SpawnFails
  <2>1. tx.state = "starting"
    BY <1>1 DEF SpawnFails, PhaseSound, Fits
  <2>2. proc[tx.old].at = "free"
        /\ \A p \in Proc : Own(p) => proc[p].at = "spawned"
    BY <1>1, <2>1, ProcAssumption DEF SpawnFails, ProcSound, LaterSound,
       MemorySound, Early
  <2> QED BY <1>1, <2>1, <2>2, ForgetChild DEF SpawnFails
<1>2. CASE Answers
  <2>1. Fits("finish", helper.mode, tx.state)
    BY <1>2 DEF Answers, PhaseSound, Fits
  <2> QED BY <1>2, <2>1, GotoKept DEF Answers, Places
<1>3. CASE WaitTimesOut
  <2>1. ~Early
    BY <1>3 DEF WaitTimesOut, PhaseSound, Fits, Early
  <2>2. Fits("rollback", helper.mode, "rolling_back")
    BY DEF Fits
  <2>3. "rollback" \in Places
    BY DEF Places
  <2> QED BY <1>3, <2>1, <2>2, <2>3, StateKept DEF WaitTimesOut
<1>4. CASE FinishRuntime
  <2>1. ~Early
    BY <1>4 DEF FinishRuntime, PhaseSound, Fits, Early
  <2>2. Fits("release", helper.mode, "healthy")
    BY DEF Fits
  <2>3. "release" \in Places
    BY DEF Places
  <2> QED BY <1>4, <2>1, <2>2, <2>3, StateKept DEF FinishRuntime
<1>5. CASE FinishFails
  <2>1. CASE helper.mode = "finalize"
    <3>1. PICK class \in {"operator", "transient"} : End(class)
      BY <1>5, <2>1 DEF FinishFails
    <3> QED BY <1>0, <1>5, <2>1, <3>1, EndKept DEF FinishFails
  <2>2. CASE helper.mode # "finalize"
    <3>1. ~Early
      BY <1>5 DEF FinishFails, PhaseSound, Fits, Early
    <3>2. Fits("rollback", helper.mode, "rolling_back")
      BY DEF Fits
    <3>3. /\ tx' = [tx EXCEPT !.state = "rolling_back"]
          /\ Goto("rollback") /\ "rollback" \in Places
      BY <1>5, <2>2 DEF FinishFails, Places
    <3> QED BY <1>5, <3>1, <3>2, <3>3, StateKept DEF FinishFails
  <2> QED BY <2>1, <2>2
<1> QED BY <1>1, <1>2, <1>3, <1>4, <1>5

(* prepareRuntimeRollback: the candidate is stopped, or none is there.      *)
LEMMA RollbackHolds ==
    ASSUME IInv, Rollback
    PROVE  IInv'
<1> USE DEF IInv
<1>0. lease \in Leases
  BY DEF Ranges
<1>1. helper.at = "rollback" /\ tx.state = "rolling_back"
      /\ UNCHANGED <<lease, sess, worked>>
  BY DEF Rollback, PhaseSound, Fits
<1> DEFINE foreign == lease # "held" \/ Foreign
           back    == \E p \in Serving : proc[p].bin = "old"
           late    == ~Available /\ Restoring /\ proc[tx.new].at # "free"
<1>2. CASE foreign
  <2>1. End("operator") /\ UNCHANGED <<proc, tx, rpc>>
    BY <1>2 DEF Rollback, Foreign, Available
  <2> QED BY <1>0, <1>1, <2>1, EndKept
<1>3. CASE ~foreign /\ back
  <2>1. Goto("rbFinish") /\ UNCHANGED <<proc, tx, rpc>>
    BY <1>3 DEF Rollback, Available
  <2>2. Fits("rbFinish", helper.mode, tx.state) /\ "rbFinish" \in Places
    BY <1>1 DEF Fits, Places
  <2> QED BY <1>1, <2>1, <2>2, GotoKept
<1>4. CASE ~foreign /\ ~back /\ late
  <2>1. Goto("rbWait") /\ UNCHANGED <<proc, tx, rpc>>
    BY <1>4 DEF Rollback
  <2>2. Fits("rbWait", helper.mode, tx.state) /\ "rbWait" \in Places
    BY <1>1 DEF Fits, Places
  <2> QED BY <1>1, <2>1, <2>2, GotoKept
<1>5. CASE ~foreign /\ ~back /\ ~late
  <2>0. IF tx.new # None /\ ~Restoring
        THEN Terminate(tx.new) /\ Goto("rbStopping") /\ UNCHANGED tx
        ELSE /\ tx' = [tx EXCEPT !.new = None]
             /\ Goto("rbSpawn")
             /\ UNCHANGED <<proc, rpc>>
    BY <1>5 DEF Rollback
  <2>1. CASE tx.new # None /\ ~Restoring
    <3>1. Terminate(tx.new) /\ Goto("rbStopping") /\ UNCHANGED tx
      BY <2>0, <2>1
    <3>2. tx.new \in Proc /\ rpc = None
      BY <1>5, <2>1 DEF Ranges, TxType, Maybe, AdmissionSound
    <3>3. /\ proc' \in ProcType /\ rpc' = None
          /\ proc'[tx.new].at = IF proc[tx.new].at = "free" THEN "free"
                                ELSE "ending"
          /\ proc'[tx.new].boot = proc[tx.new].boot
          /\ \A q \in Proc : q # tx.new => proc'[q] = proc[q]
      BY <3>1, <3>2, TerminateMoves
    <3>4. /\ helper' \in HelperType /\ helper'.at = "rbStopping"
          /\ helper'.mode = helper.mode /\ helper'.counted = helper.counted
          /\ recovery' = recovery
      BY <3>1, GotoMoves DEF Places
    <3>5. Ranges'
      BY <1>1, <3>1, <3>3, <3>4 DEF Ranges, Maybe
    <3>6. PhaseSound'
      BY <1>1, <3>1, <3>4 DEF PhaseSound, Fits
    <3>7. AdmissionSound'
      BY <1>1, <3>1, <3>2, <3>3, <3>4 DEF AdmissionSound
    <3>8. BudgetSound'
      BY <3>4, BudgetKept
    <3>9. ProcSound'
      BY <1>1, <3>1, <3>2, <3>3, <3>4 DEF ProcSound, ServingSound,
         EarlySound, NoneSound, PreparedSound, LaterSound, OldSound,
         MemorySound, Own, Early
    <3> QED BY <3>5, <3>6, <3>7, <3>8, <3>9
  <2>2. CASE ~(tx.new # None /\ ~Restoring)
    <3>1. /\ tx' = [tx EXCEPT !.new = None]
          /\ Goto("rbSpawn") /\ UNCHANGED <<proc, rpc>>
      BY <2>0, <2>2
    <3>2. proc[tx.old].at = "free"
          /\ \A p \in Proc : Own(p) => p = tx.new \/ proc[p].at = "spawned"
      BY <1>1 DEF ProcSound, LaterSound, Early
    <3>3. \A p \in Proc : Own(p) => proc[p].at = "spawned"
      <4>1. CASE tx.new = None
        BY <3>2, <4>1, ProcAssumption
      <4>2. CASE tx.new # None
        <5>1. Restoring /\ proc[tx.new].bin = "old"
          BY <2>2, <4>2 DEF Restoring
        <5>2. ~Available
          <6> SUFFICES ASSUME NEW p \in Proc, proc[p].at = "serving"
                       PROVE  FALSE
            BY DEF Available, Serving
          <6>1. proc[p].bin \in {"old", "new"}
            BY DEF Ranges, ProcType
          <6>2. p \in Serving /\ proc[p].bin = "new"
            BY <1>5, <6>1 DEF Serving
          <6>3. p = tx.new
            BY <1>5, <6>2 DEF Foreign
          <6> QED BY <5>1, <6>2, <6>3
        <5>3. proc[tx.new].at = "free"
          BY <1>5, <5>1, <5>2
        <5> QED BY <3>2, <5>3 DEF Own
      <4> QED BY <4>1, <4>2
    <3> QED BY <1>1, <3>1, <3>2, <3>3, ForgetChild
  <2> QED BY <2>1, <2>2
<1> QED BY <1>2, <1>3, <1>4, <1>5

(* The rest of the way back, the release and the death of the helper.       *)
LEMMA BackStep ==
    ASSUME IInv, CandidateStopped \/ SpawnOldFails \/ Unlock \/ OldAnswers
                 \/ RollbackTimesOut \/ FinishRollback \/ Release \/ HelperDies
    PROVE  IInv'
<1> USE DEF IInv
<1>0. lease \in Leases /\ "none" \in Leases
  BY DEF Ranges, Leases
<1>1. CASE CandidateStopped
  <2>1. tx.state = "rolling_back"
    BY <1>1 DEF CandidateStopped, PhaseSound, Fits
  <2>2. proc[tx.old].at = "free"
        /\ \A p \in Proc : Own(p) => proc[p].at = "spawned"
    BY <1>1, <2>1 DEF CandidateStopped, ProcSound, LaterSound, Early, Own
  <2> QED BY <1>1, <2>1, <2>2, ForgetChild DEF CandidateStopped
<1>2. CASE SpawnOldFails
  <2>1. PICK class \in {"operator", "transient"} : End(class)
    BY <1>2 DEF SpawnOldFails
  <2> QED BY <1>0, <1>2, <2>1, EndKept DEF SpawnOldFails
<1>3. CASE Unlock
  <2>1. Fits("rbWait", helper.mode, tx.state) /\ "rbWait" \in Places
    BY <1>3 DEF Unlock, PhaseSound, Fits, Places
  <2> QED BY <1>3, <2>1, GotoKept DEF Unlock
<1>4. CASE OldAnswers
  <2>1. Fits("rbFinish", helper.mode, tx.state) /\ "rbFinish" \in Places
    BY <1>4 DEF OldAnswers, PhaseSound, Fits, Places
  <2> QED BY <1>4, <2>1, GotoKept DEF OldAnswers
<1>5. CASE RollbackTimesOut
  BY <1>0, <1>5, EndKept DEF RollbackTimesOut
<1>6. CASE FinishRollback
  <2>1. CASE OldProven
    <3>1. ~Early
      BY <1>6 DEF FinishRollback, PhaseSound, Fits, Early
    <3>2. Fits("release", helper.mode, "rolled_back")
      BY DEF Fits
    <3>3. /\ tx' = [tx EXCEPT !.state = "rolled_back"]
          /\ Goto("release") /\ "release" \in Places
      BY <1>6, <2>1 DEF FinishRollback, Places
    <3> QED BY <1>6, <3>1, <3>2, <3>3, StateKept DEF FinishRollback
  <2>2. CASE ~OldProven
    <3>1. UNCHANGED tx /\ \E class \in {"operator", "transient"} : End(class)
      BY <1>6, <2>2 DEF FinishRollback
    <3> QED BY <1>0, <1>6, <3>1, EndKept DEF FinishRollback
  <2> QED BY <2>1, <2>2
<1>7. CASE Release
  <2>1. /\ lease' = lease \/ lease' = "none"
        /\ \E class \in {"completed", "transient"} : End(class)
    BY <1>7 DEF Release
  <2> QED BY <1>0, <1>7, <2>1, EndKept DEF Release
<1>8. CASE HelperDies
  <2>1. recovery' \in RecoveryType
    BY <1>8, BookedIs DEF HelperDies, Ranges
  <2>2. /\ helper' \in HelperType /\ helper'.at = "idle"
        /\ ~helper'.counted
    BY <1>8, IdleIs DEF HelperDies
  <2>3. Ranges'
    BY <1>8, <2>1, <2>2 DEF HelperDies, Ranges
  <2>4. PhaseSound'
    BY <1>8, <2>2 DEF HelperDies, PhaseSound, Fits
  <2>5. AdmissionSound'
    BY <1>8, <2>2, AdmissionKept DEF HelperDies
  <2>6. BudgetSound'
    BY <2>2, BudgetKept
  <2>7. ProcSound'
    BY <1>8, <2>2, ProcKept DEF HelperDies
  <2> QED BY <2>3, <2>4, <2>5, <2>6, <2>7
<1> QED BY <1>1, <1>2, <1>3, <1>4, <1>5, <1>6, <1>7, <1>8

(* Nothing else changes the state.                                          *)
LEMMA StepHolds == IInv /\ [Next]_vars => IInv'
<1> SUFFICES ASSUME IInv, [Next]_vars PROVE IInv'
    OBVIOUS
<1>0. First \in Proc
  BY ProcAssumption
<1>1. CASE ClientNext \/ LeaseExpires
  BY <1>0, <1>1, ClientStep DEF ClientNext
<1>2. CASE ProcessNext \/ \E p \in Proc : Exits(p) \/ Boot(p)
  BY <1>2, ProcessStep DEF ProcessNext
<1>3. CASE ManagerNext \/ Update \/ Retry
  BY <1>3, ManagerStep DEF ManagerNext
<1>4. CASE HelperNext \/ HelperDies
  BY <1>4, BeginStep, StopStep, SpawnStep, ForwardStep, RollbackHolds,
     BackStep DEF HelperNext
<1>5. CASE UNCHANGED vars
  <2>1. UNCHANGED <<proc, tx, lease, sess, rpc, worked, helper, recovery>>
    BY <1>5 DEF vars
  <2>2. Ranges' /\ PhaseSound' /\ AdmissionSound' /\ BudgetSound'
    BY <2>1 DEF IInv, Ranges, PhaseSound, AdmissionSound, BudgetSound
  <2>3. ProcSound'
    BY <2>1, ProcKept DEF IInv
  <2> QED BY <2>2, <2>3 DEF IInv
<1> QED BY <1>1, <1>2, <1>3, <1>4, <1>5 DEF Next

(* The invariant holds in every state.                                      *)
LEMMA Invariant == Spec => []IInv
  BY InitHolds, StepHolds, PTL DEF Spec
-----------------------------------------------------------------------------
(* Every variable keeps to its range, the attempts to their budget, for any *)
(* budget and any number of processes (recovery.go:12-31, 113-221).         *)
THEOREM RuntimeTypeCorrect == Spec => []TypeOK
<1>1. IInv => TypeOK
  BY DEF IInv, Ranges, TypeOK, ProcType, TxType, States, Maybe, Leases,
     SessType, HelperType, Places, Modes, RecoveryType, Seen
<1> QED BY <1>1, Invariant, PTL

(* Of the runtimes of a transaction one runs at a time, for any number of   *)
(* launches and deaths (runtime_linux.go:39-68, 341-404).                   *)
THEOREM RuntimesExclude == Spec => []OneRuntime
<1>1. IInv => OneRuntime
  <2> SUFFICES ASSUME IInv, NEW p \in Proc, NEW q \in Proc,
                      OfTransaction(p), OfTransaction(q)
               PROVE  p = q
    BY DEF OneRuntime
  <2>1. /\ proc[p].at \notin {"free", "spawned"}
        /\ proc[q].at \notin {"free", "spawned"}
        /\ p = tx.old \/ Own(p)
        /\ q = tx.old \/ Own(q)
    BY DEF OfTransaction, Running, Own
  <2>2. CASE tx.state = "none"
    BY <2>1, <2>2, ProcAssumption DEF IInv, ProcSound, NoneSound
  <2>3. CASE tx.state = "prepared"
    BY <2>1, <2>3 DEF IInv, ProcSound, PreparedSound
  <2>4. CASE ~Early
    BY <2>1, <2>4 DEF IInv, ProcSound, LaterSound
  <2> QED BY <2>2, <2>3, <2>4 DEF Early
<1> QED BY <1>1, Invariant, PTL

(* No request in progress is cut by the replacement, whenever the lease     *)
(* runs out (runtime_linux.go:262-267, maintenance_linux.go:106-113).       *)
THEOREM RuntimeCutsNothing == Spec => NoRequestCut
<1>1. IInv /\ [Next]_vars
      => [\A p \in Proc :
            proc[p].at # "ending" /\ proc'[p].at = "ending"
            => rpc # p /\ lease = "held"]_vars
  <2> SUFFICES ASSUME IInv, Next, NEW p \in Proc,
                      proc[p].at # "ending", proc'[p].at = "ending"
               PROVE  lease = "held"
    BY ProcAssumption DEF IInv, AdmissionSound
  <2>1. CASE StopOld
    BY <2>1 DEF StopOld
  <2>2. CASE Rollback
    BY <2>2 DEF Rollback
  <2>3. ~StopOld /\ ~Rollback => proc'[p].at # "ending"
    <3> SUFFICES ASSUME ~StopOld, ~Rollback
                 PROVE  proc'[p].at # "ending"
      OBVIOUS
    <3>0. Ranges
      BY DEF IInv
    <3>1. CASE UNCHANGED proc
      BY <3>1
    <3>2. ASSUME NEW q \in Proc, Exits(q) PROVE proc'[p].at # "ending"
      <4>1. proc' = [proc EXCEPT ![q] =
                       IF q = tx.new THEN [@ EXCEPT !.at = "free"] ELSE Free]
        BY <3>2 DEF Exits
      <4> QED BY <3>0, <4>1 DEF Ranges, ProcType, Free
    <3>3. ASSUME NEW q \in Proc, RuntimeChild(q) \/ Serve(q)
          PROVE  proc'[p].at # "ending"
      BY <3>0, <3>3 DEF RuntimeChild, Serve, Ranges, ProcType
    <3>4. ASSUME NEW q \in Proc, Boot(q) PROVE proc'[p].at # "ending"
      <4>1. PICK binary \in {"old", "new"} : Launch(q, binary, TRUE)
        BY <3>4 DEF Boot
      <4> QED BY <3>0, <4>1, BootMoves
    <3>5. CASE SpawnNew \/ SpawnOld
      <4>1. PICK q \in Proc, bin \in {"old", "new"} : Launch(q, bin, FALSE)
        BY <3>5 DEF SpawnNew, SpawnOld
      <4> QED BY <3>0, <4>1, LaunchMoves
    <3>6. \/ \E q \in Proc : \/ Exits(q) \/ RuntimeChild(q) \/ Serve(q)
                             \/ Boot(q)
          \/ SpawnNew \/ SpawnOld \/ UNCHANGED proc
      <4>1. CASE ClientNext \/ LeaseExpires
        BY <4>1 DEF ClientNext, BeginRequest, EndRequest, TurnEnds,
           SessionFails, LeaseExpires
      <4>2. CASE ManagerNext \/ Update \/ Retry \/ HelperDies
        BY <4>2 DEF ManagerNext, Dispatch, GiveUp, Forget, Update, Retry,
           HelperDies
      <4>3. CASE HelperNext
        BY <4>3 DEF HelperNext, Read, StartLocked, Hold, HoldFails, Check,
           SaveBase, OldStopped, StopTimesOut, SpawnFails, Answers,
           WaitTimesOut, FinishRuntime, FinishFails, CandidateStopped,
           SpawnOldFails, Unlock, OldAnswers, RollbackTimesOut,
           FinishRollback, Release
      <4> QED BY <4>1, <4>2, <4>3 DEF Next, ProcessNext
    <3> QED BY <3>1, <3>2, <3>3, <3>4, <3>5, <3>6
  <2> QED BY <2>1, <2>2, <2>3
<1> QED BY <1>1, Invariant, PTL DEF Spec, NoRequestCut

(* No turn runs when the old runtime is stopped, also between the sweep and *)
(* the stop (docs/updates.md:137, runtime_linux.go:219-267).                *)
THEOREM RuntimeLetsWorkWin == Spec => ActiveWorkWins
<1>1. IInv /\ [Next]_vars
      => [helper.at = "stop" /\ helper'.at = "stopping" => ~sess.busy]_vars
  <2> SUFFICES ASSUME IInv, Next, helper.at = "stop",
                      helper'.at = "stopping"
               PROVE  lease = "held"
    BY DEF IInv, AdmissionSound
  <2>1. CASE StopOld
    <3> SUFFICES ASSUME End("operator") PROVE FALSE
      BY <2>1 DEF StopOld
    <3> QED BY IdleIs DEF End
  <2>2. CASE helper' = helper
    BY <2>2
  <2>3. CASE helper' = Idle
    BY <2>3, IdleIs
  <2>4. \/ StopOld \/ helper' = helper \/ helper' = Idle
    <3>1. CASE ClientNext \/ LeaseExpires
      BY <3>1 DEF ClientNext, BeginRequest, EndRequest, TurnEnds,
         SessionFails, LeaseExpires
    <3>2. CASE ProcessNext \/ \E p \in Proc : Exits(p) \/ Boot(p)
      BY <3>2 DEF ProcessNext, RuntimeChild, Serve, Exits, Boot
    <3>3. CASE ManagerNext \/ Update \/ Retry \/ HelperDies
      BY <3>3 DEF ManagerNext, Dispatch, Due, GiveUp, Forget, Update, Retry,
         HelperDies
    <3>4. CASE HelperNext
      BY <3>4 DEF HelperNext, Read, StartLocked, Hold, HoldFails, Check,
         SaveBase, OldStopped, StopTimesOut, SpawnNew, SpawnFails, Answers,
         WaitTimesOut, FinishRuntime, FinishFails, Rollback,
         CandidateStopped, SpawnOld, SpawnOldFails, Unlock, OldAnswers,
         RollbackTimesOut, FinishRollback, Release
    <3> QED BY <3>1, <3>2, <3>3, <3>4 DEF Next
  <2> QED BY <2>1, <2>2, <2>3, <2>4
<1> QED BY <1>1, Invariant, PTL DEF Spec, ActiveWorkWins

(* A healthy replacement was fenced from its baseline on, for any number of *)
(* deaths and ends of a lease (runtime_linux.go:425-439).                   *)
THEOREM RuntimeFenced == Spec => HealthyMeansFenced
<1>1. IInv /\ [Next]_vars
      => [tx.state # "healthy" /\ tx'.state = "healthy" => ~worked]_vars
  <2> SUFFICES ASSUME IInv, Next, tx.state # "healthy",
                      tx'.state = "healthy"
               PROVE  ~worked
    OBVIOUS
  <2>0. Ranges
    BY DEF IInv
  <2>1. CASE FinishRuntime
    <3>1. tx.state = "starting" /\ lease = "held"
      BY <2>1 DEF FinishRuntime, NewProven, Proven, IInv, PhaseSound, Fits
    <3> QED BY <3>1 DEF IInv, AdmissionSound
  <2>2. ~FinishRuntime => tx'.state # "healthy"
    <3> SUFFICES ASSUME ~FinishRuntime PROVE tx'.state # "healthy"
      OBVIOUS
    <3>1. CASE ClientNext \/ LeaseExpires
      BY <3>1 DEF ClientNext, BeginRequest, EndRequest, TurnEnds,
         SessionFails, LeaseExpires
    <3>2. CASE ProcessNext \/ \E p \in Proc : Exits(p) \/ Boot(p)
      BY <2>0, <3>2 DEF ProcessNext, RuntimeChild, Serve, Exits, Boot,
         Ranges, TxType
    <3>3. CASE ManagerNext \/ Update \/ Retry \/ HelperDies
      BY <3>3 DEF ManagerNext, Dispatch, GiveUp, Forget, Update, Retry,
         HelperDies
    <3>4. CASE HoldFails \/ SaveBase \/ OldStopped \/ SpawnFails
               \/ WaitTimesOut \/ FinishFails \/ Rollback
               \/ CandidateStopped \/ FinishRollback
      BY <2>0, <3>4 DEF HoldFails, SaveBase, OldStopped, SpawnFails,
         WaitTimesOut, FinishFails, Rollback, CandidateStopped,
         FinishRollback, Ranges, TxType
    <3>5. CASE Read \/ StartLocked \/ Hold \/ Check \/ StopOld
               \/ StopTimesOut \/ SpawnNew \/ Answers \/ SpawnOld
               \/ SpawnOldFails \/ Unlock \/ OldAnswers
               \/ RollbackTimesOut \/ Release
      BY <3>5 DEF Read, StartLocked, Hold, Check, StopOld, StopTimesOut,
         SpawnNew, Answers, SpawnOld, SpawnOldFails, Unlock, OldAnswers,
         RollbackTimesOut, Release
    <3> QED BY <3>1, <3>2, <3>3, <3>4, <3>5 DEF Next, HelperNext
  <2> QED BY <2>1, <2>2
<1> QED BY <1>1, Invariant, PTL DEF Spec, HealthyMeansFenced
=============================================================================
