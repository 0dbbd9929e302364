-------------------------- MODULE AgentUpdateProofs --------------------------
(* Theorems of AgentUpdate, for any number of deaths of the daemon and of   *)
(* runs of the session.                                                     *)
EXTENDS AgentUpdate, TLAPS

(* What holds of the intent on disk: it covers every stop of an update, and *)
(* nobody withdraws it before an agent is up.                               *)
IntentSound ==
    /\ taken => tx.on
    /\ sup.at = "ready" => ~taken
    /\ hub.at \in {"probed", "ask"} => ~taken
    /\ hub.at \in {"ask", "stop"} \cup Back => tx.on

(* The two copies of the manifest differ only between two writes, with no   *)
(* supervisor to read them.                                                 *)
CopiesSound ==
    /\ sup.at # "none" => file = row /\ sup.ver = file
    /\ hub.at \in {"file", "row", "launch"} => sup.at = "none"
    /\ hub.at \in {"launch", "wait"} => file = row
    /\ hub.at = "row" => file = hub.to
    /\ file # row => tx.on

(* The user's work is with a run that this update did not launch.           *)
WorkSound ==
    /\ hub.at = "stop" => hub.to = "old"
    /\ hub.at = "stop" \/ (hub.at \in Back /\ hub.to = "new")
       => sup.work # "user"

(* The inductive invariant.                                                 *)
IInv == TypeOK /\ IntentSound /\ CopiesSound /\ WorkSound

(* The state the daemon and the session start in.                           *)
LEMMA InitHolds == Init => IInv
<1> SUFFICES ASSUME Init PROVE IInv
    OBVIOUS
<1> USE DEF Init, NoTx, Idle
<1>1. TypeOK
  <2>1. 1 \in 0 .. Runs /\ 0 \in 0 .. Deaths
    BY BoundAssumption
  <2>2. sup \in [at : {"none", "booting", "starting", "ready", "ending"},
                ver : Version, work : Work, run : 0 .. Runs]
    BY <2>1 DEF Version, Work
  <2> QED BY <2>1, <2>2 DEF TypeOK, Version, Back
<1>2. IntentSound
  BY DEF IntentSound, Back
<1>3. CopiesSound
  BY DEF CopiesSound
<1>4. WorkSound
  BY DEF WorkSound, Back
<1> QED BY <1>1, <1>2, <1>3, <1>4 DEF IInv
-----------------------------------------------------------------------------
(* The supervisor starts, works and ends.                                   *)
LEMMA SupervisorStep ==
    IInv /\ (Listens \/ Initialises \/ Ends \/ Works) => IInv'
<1> SUFFICES ASSUME IInv, Listens \/ Initialises \/ Ends \/ Works
             PROVE  IInv'
    OBVIOUS
<1> USE BoundAssumption DEF IInv, TypeOK, IntentSound, CopiesSound, WorkSound,
        Version, Work, Back
<1>1. CASE Listens
  <2>1. TypeOK'
    BY <1>1 DEF Listens
  <2>2. IntentSound'
    BY <1>1 DEF Listens
  <2>3. CopiesSound'
    BY <1>1 DEF Listens
  <2>4. WorkSound'
    BY <1>1 DEF Listens
  <2> QED BY <2>1, <2>2, <2>3, <2>4
<1>2. CASE Initialises
  <2>1. TypeOK'
    BY <1>2 DEF Initialises
  <2>2. IntentSound'
    BY <1>2 DEF Initialises
  <2>3. CopiesSound'
    BY <1>2 DEF Initialises
  <2>4. WorkSound'
    BY <1>2 DEF Initialises
  <2> QED BY <2>1, <2>2, <2>3, <2>4
<1>3. CASE Ends
  <2>1. TypeOK'
    BY <1>3 DEF Ends, Gone
  <2>2. IntentSound'
    BY <1>3 DEF Ends, Gone
  <2>3. CopiesSound'
    BY <1>3 DEF Ends, Gone
  <2>4. WorkSound'
    BY <1>3 DEF Ends, Gone
  <2> QED BY <2>1, <2>2, <2>3, <2>4
<1>4. CASE Works
  <2>1. TypeOK'
    BY <1>4 DEF Works
  <2>2. IntentSound'
    BY <1>4 DEF Works
  <2>3. CopiesSound'
    BY <1>4 DEF Works
  <2>4. WorkSound'
    BY <1>4 DEF Works
  <2> QED BY <2>1, <2>2, <2>3, <2>4
<1> QED BY <1>1, <1>2, <1>3, <1>4

(* The user, while no update is under way.                                  *)
LEMMA UserStep ==
    IInv /\ (Send \/ Stop \/ Resume) => IInv'
<1> SUFFICES ASSUME IInv, Send \/ Stop \/ Resume
             PROVE  IInv'
    OBVIOUS
<1> USE BoundAssumption DEF IInv, TypeOK, IntentSound, CopiesSound, WorkSound,
        Version, Work, Back
<1>1. CASE Send
  <2>1. TypeOK'
    BY <1>1 DEF Send
  <2>2. IntentSound'
    BY <1>1 DEF Send
  <2>3. CopiesSound'
    BY <1>1 DEF Send
  <2>4. WorkSound'
    BY <1>1 DEF Send
  <2> QED BY <2>1, <2>2, <2>3, <2>4
<1>2. CASE Stop
  <2>1. TypeOK'
    BY <1>2 DEF Stop, Answers
  <2>2. IntentSound'
    BY <1>2 DEF Stop, Answers
  <2>3. CopiesSound'
    BY <1>2 DEF Stop, Answers
  <2>4. WorkSound'
    BY <1>2 DEF Stop, Answers
  <2> QED BY <2>1, <2>2, <2>3, <2>4
<1>3. CASE Resume
  <2>1. TypeOK'
    <3>1. sup.run + 1 \in 0 .. Runs
      BY <1>3 DEF Resume, MayLaunch
    <3>2. sup' = [at |-> "booting", ver |-> row, work |-> "none",
                  run |-> sup.run + 1]
      BY <1>3 DEF Resume, Launch, Gone
    <3> QED BY <1>3, <3>1, <3>2 DEF Resume
  <2>2. IntentSound'
    BY <1>3 DEF Resume, MayLaunch, Launch, Gone
  <2>3. CopiesSound'
    BY <1>3 DEF Resume, MayLaunch, Launch, Gone
  <2>4. WorkSound'
    BY <1>3 DEF Resume, MayLaunch, Launch, Gone
  <2> QED BY <2>1, <2>2, <2>3, <2>4
<1> QED BY <1>1, <1>2, <1>3

(* From the probe to the answer of the stop.                                *)
LEMMA AskStep ==
    IInv /\ (Probe \/ Intend \/ Refused
             \/ StopsForUpdate \/ NotDelivered) => IInv'
<1> SUFFICES ASSUME IInv, Probe \/ Intend \/ Refused
                     \/ StopsForUpdate \/ NotDelivered
             PROVE  IInv'
    OBVIOUS
<1> USE BoundAssumption DEF IInv, TypeOK, IntentSound, CopiesSound, WorkSound,
        Version, Work, Back
<1>1. CASE Probe
  <2>1. TypeOK'
    BY <1>1 DEF Probe
  <2>2. IntentSound'
    BY <1>1 DEF Probe
  <2>3. CopiesSound'
    BY <1>1 DEF Probe
  <2>4. WorkSound'
    BY <1>1 DEF Probe
  <2> QED BY <2>1, <2>2, <2>3, <2>4
<1>2. CASE Intend
  <2>1. TypeOK'
    BY <1>2 DEF Intend, Goto
  <2>2. IntentSound'
    BY <1>2 DEF Intend, Goto
  <2>3. CopiesSound'
    BY <1>2 DEF Intend, Goto
  <2>4. WorkSound'
    BY <1>2 DEF Intend, Goto
  <2> QED BY <2>1, <2>2, <2>3, <2>4
<1>3. CASE Refused
  <2>1. TypeOK'
    BY <1>3 DEF Refused, Answers, Ready, NoTx, Idle
  <2>2. IntentSound'
    BY <1>3 DEF Refused, Answers, Ready, NoTx, Idle
  <2>3. CopiesSound'
    BY <1>3 DEF Refused, Answers, Ready, NoTx, Idle
  <2>4. WorkSound'
    BY <1>3 DEF Refused, Answers, Ready, NoTx, Idle
  <2> QED BY <2>1, <2>2, <2>3, <2>4
<1>4. CASE StopsForUpdate
  <2>1. TypeOK'
    BY <1>4 DEF StopsForUpdate, Ready, Goto, AfterSilence, Idle
  <2>2. IntentSound'
    BY <1>4 DEF StopsForUpdate, Ready, Goto, AfterSilence, Idle
  <2>3. CopiesSound'
    BY <1>4 DEF StopsForUpdate, Ready, Goto, AfterSilence, Idle
  <2>4. WorkSound'
    BY <1>4 DEF StopsForUpdate, Ready, Goto, AfterSilence, Idle
  <2> QED BY <2>1, <2>2, <2>3, <2>4
<1>5. CASE NotDelivered
  <2>1. TypeOK'
    BY <1>5 DEF NotDelivered, AfterSilence, Idle
  <2>2. IntentSound'
    BY <1>5 DEF NotDelivered, AfterSilence, Idle
  <2>3. CopiesSound'
    BY <1>5 DEF NotDelivered, AfterSilence, Idle
  <2>4. WorkSound'
    BY <1>5 DEF NotDelivered, AfterSilence, Idle
  <2> QED BY <2>1, <2>2, <2>3, <2>4
<1> QED BY <1>1, <1>2, <1>3, <1>4, <1>5

(* Forward to the new manifest, or back to the old.                         *)
LEMMA WayStep ==
    IInv /\ (Released \/ ReleaseTimesOut \/ SaveFile \/ SaveRow \/
             LaunchSession \/ LaunchFails \/ Launched \/ WaitFails \/
             StopForRollback) => IInv'
<1> SUFFICES ASSUME IInv, Released \/ ReleaseTimesOut \/ SaveFile \/ SaveRow \/
                     LaunchSession \/ LaunchFails \/ Launched \/ WaitFails \/
                     StopForRollback
             PROVE  IInv'
    OBVIOUS
<1> USE BoundAssumption DEF IInv, TypeOK, IntentSound, CopiesSound, WorkSound,
        Version, Work, Back
<1>1. CASE Released
  <2>1. TypeOK'
    BY <1>1 DEF Released, Goto
  <2>2. IntentSound'
    BY <1>1 DEF Released, Goto
  <2>3. CopiesSound'
    BY <1>1 DEF Released, Goto
  <2>4. WorkSound'
    BY <1>1 DEF Released, Goto
  <2> QED BY <2>1, <2>2, <2>3, <2>4
<1>2. CASE ReleaseTimesOut
  <2>1. TypeOK'
    BY <1>2 DEF ReleaseTimesOut, Fails, Idle
  <2>2. IntentSound'
    BY <1>2 DEF ReleaseTimesOut, Fails, Idle
  <2>3. CopiesSound'
    BY <1>2 DEF ReleaseTimesOut, Fails, Idle
  <2>4. WorkSound'
    BY <1>2 DEF ReleaseTimesOut, Fails, Idle
  <2> QED BY <2>1, <2>2, <2>3, <2>4
<1>3. CASE SaveFile
  <2>1. TypeOK'
    BY <1>3 DEF SaveFile, Goto
  <2>2. IntentSound'
    BY <1>3 DEF SaveFile, Goto
  <2>3. CopiesSound'
    BY <1>3 DEF SaveFile, Goto
  <2>4. WorkSound'
    BY <1>3 DEF SaveFile, Goto
  <2> QED BY <2>1, <2>2, <2>3, <2>4
<1>4. CASE SaveRow
  <2>1. TypeOK'
    BY <1>4 DEF SaveRow, Goto, SavedRow
  <2>2. IntentSound'
    BY <1>4 DEF SaveRow, Goto, SavedRow
  <2>3. CopiesSound'
    BY <1>4 DEF SaveRow, Goto, SavedRow
  <2>4. WorkSound'
    BY <1>4 DEF SaveRow, Goto, SavedRow
  <2> QED BY <2>1, <2>2, <2>3, <2>4
<1>5. CASE LaunchSession
  <2>1. TypeOK'
    <3>1. sup.run + 1 \in 0 .. Runs
      BY <1>5 DEF LaunchSession, MayLaunch
    <3>2. sup' = [at |-> "booting", ver |-> file, work |-> "none",
                  run |-> sup.run + 1]
      BY <1>5 DEF LaunchSession, Launch, Gone
    <3> QED BY <1>5, <3>1, <3>2 DEF LaunchSession, Goto
  <2>2. IntentSound'
    BY <1>5 DEF LaunchSession, MayLaunch, Launch, Gone, Goto
  <2>3. CopiesSound'
    BY <1>5 DEF LaunchSession, MayLaunch, Launch, Gone, Goto
  <2>4. WorkSound'
    BY <1>5 DEF LaunchSession, MayLaunch, Launch, Gone, Goto
  <2> QED BY <2>1, <2>2, <2>3, <2>4
<1>6. CASE LaunchFails
  <2>1. TypeOK'
    BY <1>6 DEF LaunchFails, Fails, Idle
  <2>2. IntentSound'
    BY <1>6 DEF LaunchFails, Fails, Idle
  <2>3. CopiesSound'
    BY <1>6 DEF LaunchFails, Fails, Idle
  <2>4. WorkSound'
    BY <1>6 DEF LaunchFails, Fails, Idle
  <2> QED BY <2>1, <2>2, <2>3, <2>4
<1>7. CASE Launched
  <2>1. TypeOK'
    BY <1>7 DEF Launched, Initialized, NoTx, Idle
  <2>2. IntentSound'
    BY <1>7 DEF Launched, Initialized, NoTx, Idle
  <2>3. CopiesSound'
    BY <1>7 DEF Launched, Initialized, NoTx, Idle
  <2>4. WorkSound'
    BY <1>7 DEF Launched, Initialized, NoTx, Idle
  <2> QED BY <2>1, <2>2, <2>3, <2>4
<1>8. CASE WaitFails
  <2>1. TypeOK'
    BY <1>8 DEF WaitFails, Fails, Idle
  <2>2. IntentSound'
    BY <1>8 DEF WaitFails, Fails, Idle
  <2>3. CopiesSound'
    BY <1>8 DEF WaitFails, Fails, Idle
  <2>4. WorkSound'
    BY <1>8 DEF WaitFails, Fails, Idle
  <2> QED BY <2>1, <2>2, <2>3, <2>4
<1>9. CASE StopForRollback
  <2>1. TypeOK'
    BY <1>9 DEF StopForRollback, Answers, Goto
  <2>2. IntentSound'
    BY <1>9 DEF StopForRollback, Answers, Goto
  <2>3. CopiesSound'
    BY <1>9 DEF StopForRollback, Answers, Goto
  <2>4. WorkSound'
    BY <1>9 DEF StopForRollback, Answers, Goto
  <2> QED BY <2>1, <2>2, <2>3, <2>4
<1> QED BY <1>1, <1>2, <1>3, <1>4, <1>5, <1>6, <1>7, <1>8, <1>9

(* Recovery, and the death of the daemon.                                   *)
LEMMA RecoveryStep ==
    IInv /\ (Recover \/ DayPasses \/ Dies) => IInv'
<1> SUFFICES ASSUME IInv, Recover \/ DayPasses \/ Dies
             PROVE  IInv'
    OBVIOUS
<1> USE BoundAssumption DEF IInv, TypeOK, IntentSound, CopiesSound, WorkSound,
        Version, Work, Back
<1>1. CASE Recover
  <2>1. TypeOK'
    <3>1. CASE sup.at = "ready"
      <4>1. tx' = NoTx /\ hub' = hub
        BY <1>1, <3>1 DEF Recover
      <4>2. tx' \in [on : BOOLEAN, tried : BOOLEAN]
        BY <4>1 DEF NoTx
      <4> QED BY <1>1, <4>1, <4>2 DEF Recover
    <3>2. CASE sup.at # "ready"
      <4>1. /\ tx' = [tx EXCEPT !.tried = TRUE]
            /\ hub' = [at |-> "release", to |-> "old"]
        BY <1>1, <3>2 DEF Recover
      <4>2. tx' \in [on : BOOLEAN, tried : BOOLEAN]
        BY <4>1
      <4>3. hub' \in [at : {"idle", "probed", "ask", "stop"} \cup Back,
                      to : Version]
        BY <4>1
      <4> QED BY <1>1, <4>2, <4>3 DEF Recover
    <3> QED BY <3>1, <3>2
  <2>2. IntentSound'
    BY <1>1 DEF Recover, NoTx
  <2>3. CopiesSound'
    BY <1>1 DEF Recover, NoTx
  <2>4. WorkSound'
    BY <1>1 DEF Recover, NoTx
  <2> QED BY <2>1, <2>2, <2>3, <2>4
<1>2. CASE DayPasses
  <2>1. TypeOK'
    BY <1>2 DEF DayPasses
  <2>2. IntentSound'
    BY <1>2 DEF DayPasses
  <2>3. CopiesSound'
    BY <1>2 DEF DayPasses
  <2>4. WorkSound'
    BY <1>2 DEF DayPasses
  <2> QED BY <2>1, <2>2, <2>3, <2>4
<1>3. CASE Dies
  <2>1. TypeOK'
    BY <1>3 DEF Dies, Idle
  <2>2. IntentSound'
    BY <1>3 DEF Dies, Idle
  <2>3. CopiesSound'
    BY <1>3 DEF Dies, Idle
  <2>4. WorkSound'
    BY <1>3 DEF Dies, Idle
  <2> QED BY <2>1, <2>2, <2>3, <2>4
<1> QED BY <1>1, <1>2, <1>3

(* Nothing else changes the state.                                          *)
LEMMA StepHolds == IInv /\ [Next]_vars => IInv'
<1> SUFFICES ASSUME IInv, [Next]_vars PROVE IInv'
    OBVIOUS
<1>1. CASE Next
  BY <1>1, SupervisorStep, UserStep, AskStep, WayStep, RecoveryStep
     DEF Next, DaemonNext
<1>2. CASE UNCHANGED vars
  BY <1>2 DEF vars, IInv, TypeOK, IntentSound, CopiesSound, WorkSound
<1> QED BY <1>1, <1>2

(* The invariant holds in every state.                                      *)
LEMMA Invariant == Spec => []IInv
  BY InitHolds, StepHolds, PTL DEF Spec
-----------------------------------------------------------------------------
(* Every variable keeps to its range: one supervisor, one place of the      *)
(* daemon under its lock, for any bounds (update.go:17-36).                 *)
THEOREM AgentTypeCorrect == Spec => []TypeOK
<1>1. IInv => TypeOK
  BY DEF IInv
<1> QED BY <1>1, Invariant, PTL

(* A session that an update stopped is covered by the intent on disk until  *)
(* an agent is up or the user stops it, however often the daemon dies and   *)
(* whichever answer is lost (update.go:126-140, 228-265).                   *)
THEOREM AgentIsNotForgotten == Spec => []NotForgotten
<1>1. IInv => NotForgotten
  BY DEF IInv, IntentSound, NotForgotten
<1> QED BY <1>1, Invariant, PTL

(* With no update under way the file, the row and the agent that runs are   *)
(* of one version, for any number of deaths (update.go:42-52, 163-180).     *)
THEOREM AgentCopiesAgree == Spec => []Agrees
<1>1. IInv => Agrees
  BY DEF IInv, CopiesSound, Agrees
<1> QED BY <1>1, Invariant, PTL

(* Neither the update nor its rollback ends a run that works for the user,  *)
(* for any number of runs and deaths (update.go:129-140, 181-187).          *)
THEOREM AgentSparesWork == Spec => SparesWork
<1> DEFINE Spares == sup.at \notin {"none", "ending"} /\ sup'.at = "ending"
                     /\ hub.at # "idle"
                     => \/ sup.work = "none"
                        \/ hub.to = "old" /\ sup.work = "own"
<1>1. IInv /\ [Next]_vars => [Spares]_vars
  <2> SUFFICES ASSUME IInv, Next, sup.at \notin {"none", "ending"},
                      sup'.at = "ending", hub.at # "idle"
               PROVE  \/ sup.work = "none"
                      \/ hub.to = "old" /\ sup.work = "own"
    OBVIOUS
  <2>1. sup.work \in Work
    BY DEF IInv, TypeOK
  <2>2. CASE StopsForUpdate
    BY <2>2 DEF StopsForUpdate, Ready
  <2>3. CASE StopForRollback
    BY <2>1, <2>3 DEF StopForRollback, IInv, WorkSound, Work
  <2>4. ~StopsForUpdate /\ ~StopForRollback => sup'.at # "ending"
    <3> SUFFICES ASSUME ~StopsForUpdate, ~StopForRollback
                 PROVE  sup'.at # "ending"
      OBVIOUS
    <3> USE DEF IInv, TypeOK
    <3>1. CASE Listens \/ Initialises \/ Ends \/ Works
      BY <3>1 DEF Listens, Initialises, Ends, Works, Gone
    <3>2. CASE Send \/ Stop \/ Resume
      BY <3>2 DEF Send, Stop, Resume
    <3>3. CASE Probe \/ Intend \/ Refused \/ NotDelivered
      BY <3>3 DEF Probe, Intend, Refused, NotDelivered
    <3>4. CASE Released \/ ReleaseTimesOut \/ SaveFile \/ SaveRow
      BY <3>4 DEF Released, ReleaseTimesOut, SaveFile, SaveRow
    <3>5. CASE LaunchSession \/ LaunchFails \/ Launched \/ WaitFails
      BY <3>5 DEF LaunchSession, Launch, Gone, LaunchFails, Launched,
         WaitFails
    <3>6. CASE Recover \/ DayPasses \/ Dies
      BY <3>6 DEF Recover, DayPasses, Dies
    <3> QED BY <3>1, <3>2, <3>3, <3>4, <3>5, <3>6 DEF Next, DaemonNext
  <2> QED BY <2>2, <2>3, <2>4
<1> QED BY <1>1, Invariant, PTL DEF Spec, SparesWork
=============================================================================
