------------------------ MODULE SupervisorTurnProofs ------------------------
(* Theorems about what Supervisor's handlers leave behind: the state the    *)
(* session shows, the message that waits, the requests and their answers.   *)
(* SupervisorProofs follows one command through the records; this module    *)
(* follows the session.  WInv says, at every step of every handler, which   *)
(* of these is unfinished and which step finishes it, so that between two   *)
(* handlers nothing is.                                                     *)
EXTENDS SupervisorProofs

(* What a process that is not serving holds, and where its steps are.       *)
PhaseSound ==
    /\ phase = "down" => pc = "free"
    /\ phase = "boot" => pc \in {"starting", "orphan", "spawn"}
    /\ phase = "up" => pc \notin {"starting", "orphan", "spawn"}
    /\ phase # "up" =>
           /\ pending = {} /\ asked = {} /\ ~turn /\ ~stopping
           /\ setting = None /\ snap.queued = None /\ hello = "unsent"

(* The live state and the log's projection agree but while a run begins.    *)
AgreeSound ==
    /\ disk.run <= runs
    /\ pc = "starting" => /\ snap.state = "starting" /\ snap.run = runs
                          /\ snap.mode = disk.mode /\ disk.run < runs
    /\ phase # "down" /\ pc # "starting" =>
           /\ disk.state = snap.state /\ disk.run = snap.run
           /\ disk.mode = snap.mode /\ disk.queued = snap.queued
           /\ disk.pending = pending

(* What left the slot is said by the next step.                             *)
OwedSound == owed = {} \/ pc \in {"orphan", "said"}

(* Before initialize is answered there is no turn and no request.           *)
HelloSound ==
    hello # "answered" =>
        /\ snap.state \notin Running /\ ~turn /\ pending = {} /\ asked = {}
        /\ pc \in Steps => job.cmd.op = "stop"

(* A message on its way meets neither a turn nor a setting.                 *)
Sending == pc \in {"intent", "input", "working", "wire"} /\ job.cmd.op = "send"
TurnSound ==
    /\ turn => snap.state # "idle"
    /\ Sending => ~turn /\ setting = None
    /\ pc = "wire" /\ job.cmd.op = "send" => snap.state \in InTurn
    /\ pc = "setting" => job.cmd.op = "setting"

(* What is pending is asked, and what is being answered is not pending.     *)
AskSound ==
    /\ pending \subseteq asked
    /\ pc \in {"intent", "resolve", "working", "wire"}
       /\ job.cmd.op = "reply" => job.cmd.arg \in asked
    /\ pc \in {"working", "wire"} /\ job.cmd.op = "reply" =>
           job.cmd.arg \notin pending
    /\ pc \in Steps /\ job.cmd.op # "reply" => job.cmd.arg = None

(* The handler whose end delivers what waits.                               *)
Handing ==
    \/ pc \in {"approve", "demote"} /\ after = "deliver"
    \/ pc \in Steps /\ job.from = "auto" /\ after = "deliver"
    \/ pc = "deliver"
    \/ pc \in {"intent", "input"} /\ job.from = "queue"
       /\ job.id = snap.queued

(* Where a message waits: for a turn, for that handler, or for a drop.      *)
WaitSound ==
    /\ pc \in Steps \ {"intent"} /\ job.cmd.op = "stop" => stopping
    /\ snap.queued # None =>
           /\ setting = None
           /\ stopping => pc = "drop" /\ job.cmd.op = "stop"
           /\ snap.state = "idle" => Handing
           /\ snap.state \notin InTurn \cup {"starting", "idle"} =>
                  agent # "on"

(* Full mode: the handler that still answers, or nothing left to answer.    *)
Answering ==
    \/ pc \in {"approve", "demote"}
    \/ pc \in Steps /\ job.from = "auto"
FullSound ==
    /\ pending # {} /\ agent = "on" /\ ~stopping => snap.state \in Running
    /\ ~Answering /\ agent = "on" /\ ~stopping /\ snap.state \in Running
       /\ snap.mode = "full" => pending \cap Automatic \subseteq auto

(* The invariant: each part is kept by every step, from the parts before it.*)
WInv ==
    /\ PhaseSound /\ AgreeSound /\ OwedSound /\ HelloSound /\ TurnSound
    /\ AskSound /\ WaitSound /\ FullSound

(* A process that is down or boots holds nothing.                           *)
LEMMA PhaseStep ==
    ASSUME TypeOK, JobSound, PhaseSound, [Next]_vars
    PROVE  PhaseSound'
<1> USE SupervisorAssumption
    DEF TypeOK, JobSound, PhaseSound, Steps,
        Executed, durable, live, handler, agentv, outcomes
<1>1. CASE SpawnFails \/ Crash \/ Exit \/ InitializeFails
  BY <1>1
  DEF SpawnFails, GoDown, ReplayState, NoSnapshot, Crash, Exit,
      InitializeFails
<1>2. CASE Launch \/ BeginRun \/ ReportOrphan \/ Spawn
  BY <1>2
  DEF Launch, BeginRun, AfterStarting, LogState, ReplayState, ReportOrphan,
      Spawn, Snapshot
<1>3. ASSUME NEW c \in Clients, NEW cmd \in Submitted,
             Retry(c, cmd) \/ SendNow(c, cmd) \/ Enqueue(c, cmd)
             \/ Unqueue(c, cmd)
      PROVE  PhaseSound'
  BY <1>3
  DEF Retry, Served, SendNow, Fresh, AtRest, MayBegin, Begin, Enqueue,
      MayWait, LogQueued, Unqueue
<1>4. ASSUME NEW c \in Clients, NEW cmd \in Submitted,
             Execute(c, cmd) \/ SetPermission(c, cmd) \/ Configure(c, cmd)
             \/ ShowCatalog(c, cmd)
      PROVE  PhaseSound'
  BY <1>4
  DEF Execute, Fresh, Served, MayRun, Begin, SetPermission, LogMode,
      Configure, MayConfigure, ShowCatalog
<1>5. CASE WriteIntent \/ RecordInput \/ Resolve \/ ClearPending \/ DropQueued
           \/ SayDropped
  BY <1>5
  DEF WriteIntent, AfterIntent, RecordInput, ReplayInput, Resolve,
      AfterResolve, ClearPending, CancelOne, DropQueued, AfterDrop, LogQueued,
      SayDropped
<1>6. CASE SetWorking \/ SetStopping \/ WriteWire \/ WireFails \/ WriteReceipt
           \/ WriteSetting
  BY <1>6
  DEF SetWorking, LogState, ReplayState, SetStopping, WriteWire, WireFails,
      Killed, Return, WriteReceipt, WriteSetting
<1>7. CASE ApprovePending \/ Demote \/ DeliverQueued \/ ReapClear \/ ReapEnd
  BY <1>7
  DEF ApprovePending, Approvable, Begin, Demote, LogMode, DeliverQueued,
      MayDeliver, MayBegin, ReapClear, CancelOne, ReapEnd, LogState,
      ReplayState
<1>8. CASE Say \/ InitializeAnswered \/ InitializeRefused \/ Result
           \/ SettingAnswered
  BY <1>8
  DEF Say, Line, Served, InitializeAnswered, LogState, ReplayState,
      InitializeRefused, Killed, Result, SettingAnswered
<1>9. ASSUME NEW r \in Requests, Ask(r) \/ Cancel(r)
      PROVE  PhaseSound'
  BY <1>9 DEF Ask, Line, Served, Cancel
<1>10. CASE Kill \/ Quit \/ Overflow \/ Canceled \/ Reap \/ WriteInitialize
  BY <1>10
  DEF Kill, Killed, Quit, Overflow, Served, Canceled, Reap, WriteInitialize
<1>11. CASE UNCHANGED vars
  BY <1>11 DEF vars
<1> QED
  BY <1>1, <1>2, <1>3, <1>4, <1>5, <1>6, <1>7, <1>8, <1>9, <1>10, <1>11
  DEF Next, Boot, Submit, Locked, Speak

(* event and ReplayFrom reduce every step the same way.                     *)
LEMMA AgreeStep ==
    ASSUME TypeOK, JobSound, PhaseSound, AgreeSound, [Next]_vars
    PROVE  AgreeSound'
<1> USE SupervisorAssumption
    DEF TypeOK, PhaseSound, durable, live, handler, agentv, outcomes
<1>1. ASSUME UNCHANGED <<disk, snap, pending, runs>>,
             phase' = "down" \/ (phase # "down" /\ pc # "starting"),
             pc' # "starting"
      PROVE  AgreeSound'
  BY <1>1 DEF AgreeSound
<1>2. ASSUME NEW state, LogState(state), UNCHANGED <<pending, runs>>,
             phase = "up", pc' # "starting"
      PROVE  AgreeSound'
  BY <1>2 DEF LogState, ReplayState, AgreeSound, Snapshot, Projected
<1>3. ASSUME NEW c, LogQueued(c), UNCHANGED <<pending, runs>>,
             phase = "up", pc' # "starting"
      PROVE  AgreeSound'
  BY <1>3 DEF LogQueued, AgreeSound, Snapshot, Projected
<1>4. ASSUME NEW mode, LogMode(mode), UNCHANGED <<pending, runs>>,
             phase = "up", pc' # "starting"
      PROVE  AgreeSound'
  BY <1>4 DEF LogMode, AgreeSound, Snapshot, Projected
<1>5. ASSUME UNCHANGED <<snap, runs>>, phase = "up", pc' # "starting",
             disk' = [disk EXCEPT !.pending = pending']
      PROVE  AgreeSound'
  BY <1>5 DEF AgreeSound, Snapshot, Projected
<1>6. ASSUME NEW state, UNCHANGED runs, phase = "up", pc' # "starting",
             snap' = [snap EXCEPT !.state = state],
             disk' = [disk EXCEPT !.pending = pending', !.state = state]
      PROVE  AgreeSound'
  BY <1>6 DEF AgreeSound, Snapshot, Projected
<1>7. pc \notin {"free", "starting", "orphan", "spawn"} => phase = "up"
  OBVIOUS
<1>8. phase = "up" => disk.pending = pending
  BY DEF AgreeSound
<1>9. CASE Crash \/ Exit \/ InitializeFails
  BY <1>9 DEF Crash, Exit, InitializeFails, GoDown, AgreeSound
<1>10. CASE SpawnFails
  BY <1>10 DEF SpawnFails, ReplayState, GoDown, AgreeSound, Projected
<1>11. CASE Launch
  BY <1>11 DEF Launch, AgreeSound, Projected
<1>12. CASE BeginRun
  BY <1>12
  DEF BeginRun, AfterStarting, LogState, ReplayState, AgreeSound, Projected,
      Snapshot
<1>13. CASE ReportOrphan \/ Spawn \/ UNCHANGED vars
  BY <1>13 DEF ReportOrphan, Spawn, vars, AgreeSound
<1>14. ASSUME NEW c \in Clients, NEW cmd \in Submitted,
              Retry(c, cmd) \/ SendNow(c, cmd) \/ Execute(c, cmd)
              \/ Configure(c, cmd) \/ ShowCatalog(c, cmd)
       PROVE  AgreeSound'
  BY <1>1, <1>14
  DEF Retry, SendNow, Execute, Configure, ShowCatalog, Fresh, Served, Begin
<1>15. ASSUME NEW c \in Clients, NEW cmd \in Submitted, Enqueue(c, cmd)
       PROVE  AgreeSound'
  BY <1>3, <1>15 DEF Enqueue, Fresh, Served
<1>16. ASSUME NEW c \in Clients, NEW cmd \in Submitted, Unqueue(c, cmd)
       PROVE  AgreeSound'
  BY <1>3, <1>16 DEF Unqueue, Fresh, Served
<1>17. ASSUME NEW c \in Clients, NEW cmd \in Submitted, SetPermission(c, cmd)
       PROVE  AgreeSound'
  BY <1>4, <1>17 DEF SetPermission, Fresh, Served
<1>18. CASE WriteIntent
  <2>1. pc' \in {"input", "resolve", "clear", "drop"}
    BY <1>18 DEF WriteIntent, AfterIntent, JobSound, Steps, Executed
  <2> QED
    BY <1>1, <1>7, <1>18, <2>1 DEF WriteIntent
<1>19. CASE SayDropped
  <2>1. pc' \in {"working", "stopping", "free"}
    BY <1>19 DEF SayDropped, AfterDrop, JobSound, Steps
  <2> QED
    BY <1>1, <1>7, <1>19, <2>1 DEF SayDropped
<1>20. CASE \/ WriteWire \/ WireFails \/ WriteReceipt \/ WriteSetting
            \/ ApprovePending \/ DeliverQueued
  BY <1>1, <1>7, <1>20
  DEF WriteWire, WireFails, Return, WriteReceipt, WriteSetting,
      ApprovePending, Begin, DeliverQueued
<1>21. CASE RecordInput
  BY <1>7, <1>21
  DEF RecordInput, ReplayInput, AgreeSound, Snapshot, Projected
<1>22. CASE Resolve
  BY <1>5, <1>7, <1>8, <1>22 DEF Resolve, AfterResolve
<1>23. CASE ClearPending \/ ReapClear
  <2>1. phase = "up" /\ UNCHANGED <<snap, runs>> /\ pc' # "starting"
    BY <1>7, <1>23 DEF ClearPending, ReapClear
  <2>2. CASE UNCHANGED <<disk, pending>>
    BY <1>1, <1>7, <1>23, <2>1, <2>2 DEF ClearPending, ReapClear
  <2>3. CASE CancelOne
    BY <1>5, <1>8, <2>1, <2>3 DEF CancelOne
  <2> QED
    BY <1>23, <2>2, <2>3 DEF ClearPending, ReapClear
<1>24. CASE DropQueued
  <2>1. phase = "up" /\ UNCHANGED <<pending, runs>> /\ pc' # "starting"
    BY <1>7, <1>24 DEF DropQueued, AfterDrop, JobSound, Steps
  <2>2. CASE UNCHANGED <<disk, snap>>
    BY <1>1, <1>24, <2>1, <2>2 DEF DropQueued
  <2> QED
    BY <1>3, <1>24, <2>1, <2>2 DEF DropQueued
<1>25. CASE SetWorking \/ SetStopping \/ ReapEnd
  BY <1>2, <1>7, <1>25 DEF SetWorking, SetStopping, ReapEnd
<1>26. CASE Demote
  BY <1>4, <1>7, <1>26 DEF Demote
<1>27. CASE Say \/ SettingAnswered
  BY <1>1, <1>27 DEF Say, SettingAnswered, Line, Served
<1>28. CASE InitializeAnswered \/ InitializeRefused
  BY <1>2, <1>28 DEF InitializeAnswered, InitializeRefused, Line, Served
<1>29. CASE Result
  <2>1. disk' = [disk EXCEPT !.pending = pending', !.state = "idle"]
    BY <1>8, <1>29 DEF Result, Line, Served
  <2> QED
    BY <1>6, <1>29, <2>1 DEF Result, Line, Served
<1>30. ASSUME NEW r \in Requests, Ask(r) \/ Cancel(r) PROVE AgreeSound'
  <2>1. PICK state :
            /\ snap' = [snap EXCEPT !.state = state]
            /\ disk' = [disk EXCEPT !.pending = pending', !.state = state]
    BY <1>8, <1>30 DEF Ask, Cancel, Line, Served
  <2> QED
    BY <1>6, <1>30, <2>1 DEF Ask, Cancel, Line, Served
<1>31. CASE \/ Kill \/ Quit \/ Overflow \/ Canceled \/ Reap
            \/ WriteInitialize
  BY <1>31
  DEF Kill, Quit, Overflow, Canceled, Reap, WriteInitialize, Served,
      AgreeSound
<1> QED
  BY <1>9, <1>10, <1>11, <1>12, <1>13, <1>14, <1>15, <1>16, <1>17, <1>18,
     <1>19, <1>20, <1>21, <1>22, <1>23, <1>24, <1>25, <1>26, <1>27, <1>28,
     <1>29, <1>30, <1>31
  DEF Next, Boot, Submit, Locked, Speak

(* A drop and its report are two steps of one handler.                      *)
LEMMA OwedStep ==
    ASSUME TypeOK, JobSound, PhaseSound, OwedSound, [Next]_vars
    PROVE  OwedSound'
<1> USE SupervisorAssumption
    DEF TypeOK, PhaseSound, OwedSound, durable,
        live, handler, agentv, outcomes
<1>1. CASE SpawnFails \/ Crash \/ Exit \/ InitializeFails
  BY <1>1
  DEF SpawnFails, GoDown, ReplayState, NoSnapshot, Crash, Exit,
      InitializeFails
<1>2. CASE Launch \/ BeginRun \/ ReportOrphan \/ Spawn
  BY <1>2
  DEF Launch, BeginRun, AfterStarting, LogState, ReplayState, ReportOrphan,
      Spawn
<1>3. ASSUME NEW c \in Clients, NEW cmd \in Submitted,
             Retry(c, cmd) \/ SendNow(c, cmd) \/ Enqueue(c, cmd)
             \/ Unqueue(c, cmd)
      PROVE  OwedSound'
  BY <1>3
  DEF Retry, Served, SendNow, Fresh, AtRest, MayBegin, Begin, Enqueue,
      MayWait, LogQueued, Unqueue
<1>4. ASSUME NEW c \in Clients, NEW cmd \in Submitted,
             Execute(c, cmd) \/ SetPermission(c, cmd) \/ Configure(c, cmd)
             \/ ShowCatalog(c, cmd)
      PROVE  OwedSound'
  BY <1>4
  DEF Execute, Fresh, Served, MayRun, Begin, SetPermission, LogMode,
      Configure, MayConfigure, ShowCatalog
<1>5. CASE WriteIntent \/ RecordInput \/ Resolve \/ ClearPending \/ DropQueued
           \/ SayDropped
  BY <1>5
  DEF WriteIntent, AfterIntent, RecordInput, ReplayInput, Resolve,
      AfterResolve, ClearPending, CancelOne, DropQueued, AfterDrop, LogQueued,
      SayDropped
<1>6. CASE SetWorking \/ SetStopping \/ WriteWire \/ WireFails \/ WriteReceipt
           \/ WriteSetting
  BY <1>6
  DEF SetWorking, LogState, ReplayState, SetStopping, WriteWire, WireFails,
      Killed, Return, WriteReceipt, WriteSetting
<1>7. CASE ApprovePending \/ Demote \/ DeliverQueued \/ ReapClear \/ ReapEnd
  BY <1>7
  DEF ApprovePending, Approvable, Begin, Demote, LogMode, DeliverQueued,
      MayDeliver, MayBegin, ReapClear, CancelOne, ReapEnd, LogState,
      ReplayState
<1>8. CASE Say \/ InitializeAnswered \/ InitializeRefused \/ Result
           \/ SettingAnswered
  BY <1>8
  DEF Say, Line, Served, InitializeAnswered, LogState, ReplayState,
      InitializeRefused, Killed, Result, SettingAnswered
<1>9. ASSUME NEW r \in Requests, Ask(r) \/ Cancel(r)
      PROVE  OwedSound'
  BY <1>9 DEF Ask, Line, Served, Cancel
<1>10. CASE Kill \/ Quit \/ Overflow \/ Canceled \/ Reap \/ WriteInitialize
  BY <1>10
  DEF Kill, Killed, Quit, Overflow, Served, Canceled, Reap, WriteInitialize
<1>11. CASE UNCHANGED vars
  BY <1>11 DEF vars
<1> QED
  BY <1>1, <1>2, <1>3, <1>4, <1>5, <1>6, <1>7, <1>8, <1>9, <1>10, <1>11
  DEF Next, Boot, Submit, Locked, Speak

(* Nothing but a stop runs before initialize is answered.                   *)
LEMMA HelloStep ==
    ASSUME TypeOK, JobSound, PhaseSound, HelloSound, [Next]_vars
    PROVE  HelloSound'
<1> USE SupervisorAssumption
    DEF TypeOK, JobSound, PhaseSound, HelloSound,
        Steps, Running, InTurn, Snapshot, durable, live, handler, agentv,
        outcomes
<1>1. CASE SpawnFails \/ Crash \/ Exit \/ InitializeFails
  BY <1>1
  DEF SpawnFails, GoDown, ReplayState, NoSnapshot, Crash, Exit,
      InitializeFails
<1>2. CASE Launch \/ BeginRun \/ ReportOrphan \/ Spawn
  BY <1>2
  DEF Launch, BeginRun, AfterStarting, LogState, ReplayState, ReportOrphan,
      Spawn
<1>3. ASSUME NEW c \in Clients, NEW cmd \in Submitted,
             Retry(c, cmd) \/ SendNow(c, cmd) \/ Enqueue(c, cmd)
             \/ Unqueue(c, cmd)
      PROVE  HelloSound'
  BY <1>3
  DEF Retry, Served, SendNow, Fresh, AtRest, MayBegin, Begin, Enqueue,
      MayWait, LogQueued, Unqueue
<1>4. ASSUME NEW c \in Clients, NEW cmd \in Submitted,
             Execute(c, cmd) \/ SetPermission(c, cmd) \/ Configure(c, cmd)
             \/ ShowCatalog(c, cmd)
      PROVE  HelloSound'
  BY <1>4
  DEF Execute, Fresh, Served, MayRun, Begin, SetPermission, LogMode,
      Configure, MayConfigure, ShowCatalog
<1>5. CASE WriteIntent \/ RecordInput \/ Resolve \/ ClearPending \/ DropQueued
           \/ SayDropped
  BY <1>5
  DEF WriteIntent, AfterIntent, RecordInput, ReplayInput, Resolve,
      AfterResolve, ClearPending, CancelOne, DropQueued, AfterDrop, LogQueued,
      SayDropped
<1>6. CASE SetWorking \/ SetStopping \/ WriteWire \/ WireFails \/ WriteReceipt
           \/ WriteSetting
  BY <1>6
  DEF SetWorking, LogState, ReplayState, SetStopping, WriteWire, WireFails,
      Killed, Return, WriteReceipt, WriteSetting
<1>7. CASE ApprovePending \/ Demote
  BY <1>7 DEF ApprovePending, Approvable, Begin, Demote, LogMode, Automatic
<1>8. CASE DeliverQueued
  BY <1>8 DEF DeliverQueued, MayDeliver, MayBegin, Endings
<1>9. CASE ReapClear \/ ReapEnd
  BY <1>9 DEF ReapClear, CancelOne, ReapEnd, LogState, ReplayState, Endings
<1>10. CASE Say \/ InitializeAnswered \/ InitializeRefused \/ Result
           \/ SettingAnswered
  BY <1>10
  DEF Say, Line, Served, InitializeAnswered, LogState, ReplayState,
      InitializeRefused, Killed, Result, SettingAnswered
<1>11. ASSUME NEW r \in Requests, Ask(r) \/ Cancel(r)
      PROVE  HelloSound'
  BY <1>11 DEF Ask, Line, Served, Cancel
<1>12. CASE Kill \/ Quit \/ Overflow \/ Canceled \/ Reap \/ WriteInitialize
  BY <1>12
  DEF Kill, Killed, Quit, Overflow, Served, Canceled, Reap, WriteInitialize
<1>13. CASE UNCHANGED vars
  BY <1>13 DEF vars
<1> QED
  BY <1>1, <1>2, <1>3, <1>4, <1>5, <1>6, <1>7, <1>8, <1>9, <1>10, <1>11,
     <1>12, <1>13
  DEF Next, Boot, Submit, Locked, Speak

(* A message meets neither a turn nor an unconfirmed setting.               *)
LEMMA TurnStep ==
    ASSUME TypeOK, JobSound, PhaseSound, HelloSound, TurnSound, [Next]_vars
    PROVE  TurnSound'
<1> USE SupervisorAssumption
    DEF TypeOK, JobSound, PhaseSound, HelloSound,
        TurnSound, Sending, Steps, Executed, Running, InTurn, Snapshot,
        durable, live, handler, agentv, outcomes
<1>1. CASE SpawnFails \/ Crash \/ Exit \/ InitializeFails
  BY <1>1
  DEF SpawnFails, GoDown, ReplayState, NoSnapshot, Crash, Exit,
      InitializeFails
<1>2. CASE Launch \/ BeginRun \/ ReportOrphan \/ Spawn
  BY <1>2
  DEF Launch, BeginRun, AfterStarting, LogState, ReplayState, ReportOrphan,
      Spawn
<1>3. ASSUME NEW c \in Clients, NEW cmd \in Submitted,
             Retry(c, cmd) \/ SendNow(c, cmd) \/ Enqueue(c, cmd)
             \/ Unqueue(c, cmd)
      PROVE  TurnSound'
  BY <1>3
  DEF Retry, Served, SendNow, Fresh, AtRest, MayBegin, Begin, Enqueue,
      MayWait, LogQueued, Unqueue
<1>4. ASSUME NEW c \in Clients, NEW cmd \in Submitted,
             Execute(c, cmd) \/ SetPermission(c, cmd) \/ Configure(c, cmd)
             \/ ShowCatalog(c, cmd)
      PROVE  TurnSound'
  BY <1>4
  DEF Execute, Fresh, Served, MayRun, Begin, SetPermission, LogMode,
      Configure, MayConfigure, ShowCatalog, Submitted, PlainOps
<1>5. CASE WriteIntent \/ RecordInput \/ Resolve \/ ClearPending \/ DropQueued
           \/ SayDropped
  BY <1>5
  DEF WriteIntent, AfterIntent, RecordInput, ReplayInput, Resolve,
      AfterResolve, ClearPending, CancelOne, DropQueued, AfterDrop, LogQueued,
      SayDropped
<1>6. CASE SetWorking \/ SetStopping \/ WriteWire \/ WireFails \/ WriteReceipt
           \/ WriteSetting
  BY <1>6
  DEF SetWorking, LogState, ReplayState, SetStopping, WriteWire, WireFails,
      Killed, Return, WriteReceipt, WriteSetting
<1>7. CASE ApprovePending \/ Demote
  BY <1>7 DEF ApprovePending, Approvable, Begin, Demote, LogMode
<1>8. CASE DeliverQueued
  BY <1>8 DEF DeliverQueued, MayDeliver, MayBegin, Endings
<1>9. CASE ReapClear \/ ReapEnd
  <2>1. CASE ReapClear
    BY <1>9, <2>1 DEF ReapClear, CancelOne
  <2>2. CASE ReapEnd
    <3>1. PICK state \in {"stopped", "failed", "interrupted"} :
            snap' = [snap EXCEPT !.state = state]
      BY <2>2 DEF ReapEnd, LogState, Endings
    <3>2. snap'.state = state /\ snap'.queued = snap.queued
      BY <3>1
    <3> QED
      BY <2>2, <3>2 DEF ReapEnd
  <2> QED
    BY <1>9, <2>1, <2>2
<1>10. CASE Say \/ InitializeAnswered \/ InitializeRefused \/ Result
           \/ SettingAnswered
  BY <1>10
  DEF Say, Line, Served, InitializeAnswered, LogState, ReplayState,
      InitializeRefused, Killed, Result, SettingAnswered
<1>11. ASSUME NEW r \in Requests, Ask(r) \/ Cancel(r)
      PROVE  TurnSound'
  BY <1>11 DEF Ask, Line, Served, Cancel
<1>12. CASE Kill \/ Quit \/ Overflow \/ Canceled \/ Reap \/ WriteInitialize
  BY <1>12
  DEF Kill, Killed, Quit, Overflow, Served, Canceled, Reap, WriteInitialize
<1>13. CASE UNCHANGED vars
  BY <1>13 DEF vars
<1> QED
  BY <1>1, <1>2, <1>3, <1>4, <1>5, <1>6, <1>7, <1>8, <1>9, <1>10, <1>11,
     <1>12, <1>13
  DEF Next, Boot, Submit, Locked, Speak

(* A request that is pending, or being answered, is one the agent waits on. *)
LEMMA AskStep ==
    ASSUME TypeOK, JobSound, PhaseSound, AskSound, [Next]_vars
    PROVE  AskSound'
<1> USE SupervisorAssumption
    DEF TypeOK, JobSound, PhaseSound, AskSound,
        Steps, Executed, durable, live, handler, agentv, outcomes
<1>1. CASE SpawnFails \/ Crash \/ Exit \/ InitializeFails
  BY <1>1
  DEF SpawnFails, GoDown, ReplayState, NoSnapshot, Crash, Exit,
      InitializeFails
<1>2. CASE Launch \/ BeginRun \/ ReportOrphan \/ Spawn
  BY <1>2
  DEF Launch, BeginRun, AfterStarting, LogState, ReplayState, ReportOrphan,
      Spawn
<1>3. ASSUME NEW c \in Clients, NEW cmd \in Submitted,
             Retry(c, cmd) \/ Enqueue(c, cmd) \/ Unqueue(c, cmd)
      PROVE  AskSound'
  BY <1>3
  DEF Retry, Served, Enqueue, Fresh, MayBegin, MayWait, LogQueued, Unqueue
<1>4. ASSUME NEW c \in Clients, NEW cmd \in Submitted,
             SendNow(c, cmd) \/ Execute(c, cmd)
      PROVE  AskSound'
  <2>1. /\ UNCHANGED <<pending, asked>> /\ pc' = "intent"
        /\ job'.cmd.op = "reply" => job'.cmd = cmd /\ cmd.arg \in pending
        /\ job'.cmd.op # "reply" => job'.cmd.arg = cmd.arg
        /\ cmd.op # "reply" => cmd.op # "permission"
    BY <1>4, SubmittedType
    DEF SendNow, Execute, MayRun, Begin, Command
  <2>2. cmd.op \notin {"reply", "permission"} => cmd.arg = None
    BY DEF Submitted, PlainOps
  <2> QED
    BY <1>4, <2>1, <2>2, SubmittedType
    DEF SendNow, Execute, MayRun, Begin, Command
<1>5. ASSUME NEW c \in Clients, NEW cmd \in Submitted,
             SetPermission(c, cmd) \/ Configure(c, cmd) \/ ShowCatalog(c, cmd)
      PROVE  AskSound'
  BY <1>5
  DEF SetPermission, Fresh, Served, LogMode, Configure, MayConfigure,
      ShowCatalog
<1>6. CASE WriteIntent \/ RecordInput \/ Resolve \/ ClearPending
  BY <1>6
  DEF WriteIntent, AfterIntent, RecordInput, ReplayInput, Resolve,
      AfterResolve, ClearPending, CancelOne
<1>7. CASE DropQueued \/ SayDropped
  BY <1>7 DEF DropQueued, AfterDrop, LogQueued, SayDropped
<1>8. CASE SetWorking \/ SetStopping \/ WriteWire \/ WireFails \/ WriteReceipt
           \/ WriteSetting
  BY <1>8
  DEF SetWorking, LogState, ReplayState, SetStopping, WriteWire, WireFails,
      Killed, Return, WriteReceipt, WriteSetting
<1>9. CASE ApprovePending \/ Demote
  BY <1>9 DEF ApprovePending, Approvable, Begin, Demote, LogMode
<1>10. CASE DeliverQueued
  BY <1>10 DEF DeliverQueued, MayDeliver, MayBegin
<1>11. CASE ReapClear \/ ReapEnd
  BY <1>11 DEF ReapClear, CancelOne, ReapEnd, LogState, ReplayState
<1>12. CASE Say \/ InitializeAnswered \/ InitializeRefused \/ Result
           \/ SettingAnswered
  BY <1>12
  DEF Say, Line, Served, InitializeAnswered, LogState, ReplayState,
      InitializeRefused, Killed, Result, SettingAnswered
<1>13. ASSUME NEW r \in Requests, Ask(r) \/ Cancel(r)
      PROVE  AskSound'
  BY <1>13 DEF Ask, Line, Served, Cancel
<1>14. CASE Kill \/ Quit \/ Overflow \/ Canceled \/ Reap \/ WriteInitialize
  BY <1>14
  DEF Kill, Killed, Quit, Overflow, Served, Canceled, Reap, WriteInitialize
<1>15. CASE UNCHANGED vars
  BY <1>15 DEF vars
<1> QED
  BY <1>1, <1>2, <1>3, <1>4, <1>5, <1>6, <1>7, <1>8, <1>9, <1>10, <1>11,
     <1>12, <1>13, <1>14, <1>15
  DEF Next, Boot, Submit, Locked, Speak

(* Whatever waits has a handler or a turn to come.                          *)
LEMMA WaitStep ==
    ASSUME TypeOK, JobSound, PhaseSound, WaitSound, [Next]_vars
    PROVE  WaitSound'
<1> USE SupervisorAssumption
    DEF TypeOK, JobSound, PhaseSound, WaitSound,
        Handing, Steps, Executed, InTurn, Snapshot, durable, live, handler,
        agentv, outcomes
<1>1. CASE SpawnFails \/ Crash \/ Exit \/ InitializeFails
  BY <1>1
  DEF SpawnFails, GoDown, ReplayState, NoSnapshot, Crash, Exit,
      InitializeFails
<1>2. CASE Launch \/ BeginRun \/ ReportOrphan \/ Spawn
  BY <1>2
  DEF Launch, BeginRun, AfterStarting, LogState, ReplayState, ReportOrphan,
      Spawn
<1>3. ASSUME NEW c \in Clients, NEW cmd \in Submitted,
             Retry(c, cmd) \/ SendNow(c, cmd) \/ Enqueue(c, cmd)
             \/ Unqueue(c, cmd)
      PROVE  WaitSound'
  BY <1>3
  DEF Retry, Served, SendNow, Fresh, AtRest, MayBegin, Begin, Enqueue,
      MayWait, LogQueued, Unqueue
<1>4. ASSUME NEW c \in Clients, NEW cmd \in Submitted,
             Execute(c, cmd)
      PROVE  WaitSound'
  BY <1>4 DEF Execute, Fresh, Served, MayRun, Begin
<1>5. ASSUME NEW c \in Clients, NEW cmd \in Submitted,
             SetPermission(c, cmd) \/ Configure(c, cmd) \/ ShowCatalog(c, cmd)
      PROVE  WaitSound'
  BY <1>5
  DEF SetPermission, Fresh, Served, LogMode, Configure, MayConfigure,
      ShowCatalog
<1>6. CASE WriteIntent
  <2>1. /\ UNCHANGED <<snap, setting, agent, job, after>> /\ pc = "intent"
        /\ pc' = AfterIntent[job.cmd.op]
    BY <1>6 DEF WriteIntent
  <2>2. stopping' <=> stopping \/ job.cmd.op = "stop"
    BY <1>6 DEF WriteIntent
  <2>3. /\ job.cmd.op = "send" => pc' = "input"
        /\ job.cmd.op = "stop" => pc' = "drop"
        /\ pc' \in {"input", "resolve", "clear", "drop"}
    BY <2>1 DEF AfterIntent
  <2> QED
    BY <2>1, <2>2, <2>3
<1>7. CASE RecordInput \/ Resolve \/ ClearPending
  BY <1>7
  DEF RecordInput, ReplayInput, Resolve, AfterResolve, ClearPending, CancelOne
<1>8. CASE DropQueued \/ SayDropped
  BY <1>8 DEF DropQueued, AfterDrop, LogQueued, SayDropped
<1>9. CASE SetWorking \/ SetStopping \/ WriteWire \/ WireFails \/ WriteReceipt
           \/ WriteSetting
  BY <1>9
  DEF SetWorking, LogState, ReplayState, SetStopping, WriteWire, WireFails,
      Killed, Return, WriteReceipt, WriteSetting
<1>10. CASE ApprovePending \/ Demote
  BY <1>10 DEF ApprovePending, Approvable, Begin, Demote, LogMode
<1>11. CASE DeliverQueued
  BY <1>11 DEF DeliverQueued, MayDeliver, MayBegin, Endings
<1>12. CASE ReapClear \/ ReapEnd
  <2>1. CASE ReapClear
    BY <1>12, <2>1 DEF ReapClear, CancelOne
  <2>2. CASE ReapEnd
    <3>1. PICK state \in {"stopped", "failed", "interrupted"} :
            snap' = [snap EXCEPT !.state = state]
      BY <2>2 DEF ReapEnd, LogState, Endings
    <3>2. snap'.state = state /\ snap'.queued = snap.queued
      BY <3>1
    <3> QED
      BY <2>2, <3>2 DEF ReapEnd
  <2> QED
    BY <1>12, <2>1, <2>2
<1>13. CASE Say \/ InitializeAnswered \/ InitializeRefused \/ Result
           \/ SettingAnswered
  BY <1>13
  DEF Say, Line, Served, InitializeAnswered, LogState, ReplayState,
      InitializeRefused, Killed, Result, SettingAnswered
<1>14. ASSUME NEW r \in Requests, Ask(r) \/ Cancel(r)
      PROVE  WaitSound'
  BY <1>14 DEF Ask, Line, Served, Cancel
<1>15. CASE Kill \/ Quit \/ Overflow \/ Canceled \/ Reap \/ WriteInitialize
  BY <1>15
  DEF Kill, Killed, Quit, Overflow, Served, Canceled, Reap, WriteInitialize
<1>16. CASE UNCHANGED vars
  BY <1>16 DEF vars
<1> QED
  BY <1>1, <1>2, <1>3, <1>4, <1>5, <1>6, <1>7, <1>8, <1>9, <1>10, <1>11,
     <1>12, <1>13, <1>14, <1>15, <1>16
  DEF Next, Boot, Submit, Locked, Speak

(* approvePending runs after whatever could give it something to answer.    *)
LEMMA FullStep ==
    ASSUME TypeOK, JobSound, PhaseSound, HelloSound, WaitSound, FullSound,
           [Next]_vars
    PROVE  FullSound'
<1> USE SupervisorAssumption
    DEF TypeOK, JobSound, PhaseSound, HelloSound,
        FullSound, Answering, Steps, Executed, Running, InTurn, Automatic,
        Snapshot, durable, live, handler, agentv, outcomes
<1>1. CASE SpawnFails \/ Crash \/ Exit \/ InitializeFails
  BY <1>1
  DEF SpawnFails, GoDown, ReplayState, NoSnapshot, Crash, Exit,
      InitializeFails
<1>2. CASE Launch \/ BeginRun \/ ReportOrphan \/ Spawn
  BY <1>2
  DEF Launch, BeginRun, AfterStarting, LogState, ReplayState, ReportOrphan,
      Spawn
<1>3. ASSUME NEW c \in Clients, NEW cmd \in Submitted,
             Retry(c, cmd) \/ SendNow(c, cmd) \/ Enqueue(c, cmd)
             \/ Unqueue(c, cmd)
      PROVE  FullSound'
  BY <1>3
  DEF Retry, Served, SendNow, Fresh, AtRest, MayBegin, Begin, Enqueue,
      MayWait, LogQueued, Unqueue
<1>4. ASSUME NEW c \in Clients, NEW cmd \in Submitted,
             Execute(c, cmd) \/ SetPermission(c, cmd) \/ Configure(c, cmd)
             \/ ShowCatalog(c, cmd)
      PROVE  FullSound'
  BY <1>4
  DEF Execute, Fresh, Served, MayRun, Begin, SetPermission, LogMode,
      Configure, MayConfigure, ShowCatalog
<1>5. CASE WriteIntent \/ RecordInput \/ Resolve \/ ClearPending
  BY <1>5
  DEF WriteIntent, AfterIntent, RecordInput, ReplayInput, Resolve,
      AfterResolve, ClearPending, CancelOne
<1>6. CASE DropQueued \/ SayDropped
  BY <1>6 DEF DropQueued, AfterDrop, LogQueued, SayDropped
<1>7. CASE SetWorking
  BY <1>7 DEF SetWorking, LogState, ReplayState
<1>8. CASE SetStopping
  BY <1>8 DEF SetStopping, LogState, ReplayState, WaitSound
<1>9. CASE WriteWire \/ WireFails \/ WriteReceipt \/ WriteSetting
  BY <1>9 DEF WriteWire, WireFails, Killed, Return, WriteReceipt, WriteSetting
<1>10. CASE ApprovePending \/ Demote
  BY <1>10 DEF ApprovePending, Approvable, Begin, Demote, LogMode
<1>11. CASE DeliverQueued
  BY <1>11 DEF DeliverQueued, MayDeliver, MayBegin, Endings
<1>12. CASE ReapClear \/ ReapEnd
  BY <1>12 DEF ReapClear, CancelOne, ReapEnd, LogState, ReplayState, Endings
<1>13. CASE Say \/ InitializeAnswered \/ InitializeRefused \/ Result
           \/ SettingAnswered
  BY <1>13
  DEF Say, Line, Served, InitializeAnswered, LogState, ReplayState,
      InitializeRefused, Killed, Result, SettingAnswered
<1>14. ASSUME NEW r \in Requests, Ask(r) \/ Cancel(r)
      PROVE  FullSound'
  BY <1>14 DEF Ask, Line, Served, Cancel
<1>15. CASE Kill \/ Quit \/ Overflow \/ Canceled \/ Reap \/ WriteInitialize
  BY <1>15
  DEF Kill, Killed, Quit, Overflow, Served, Canceled, Reap, WriteInitialize
<1>16. CASE UNCHANGED vars
  BY <1>16 DEF vars
<1> QED
  BY <1>1, <1>2, <1>3, <1>4, <1>5, <1>6, <1>7, <1>8, <1>9, <1>10, <1>11,
     <1>12, <1>13, <1>14, <1>15, <1>16
  DEF Next, Boot, Submit, Locked, Speak

(* A supervisor that has not started holds nothing.                         *)
LEMMA Quietly == Init => WInv
  BY SupervisorAssumption
  DEF Init, WInv, PhaseSound, AgreeSound, OwedSound, HelloSound, TurnSound,
      Sending, AskSound, WaitSound, FullSound, Answering, Steps, Running,
      InTurn, NoSnapshot

(* Every step keeps every part.                                             *)
LEMMA WStep == IInv /\ WInv /\ [Next]_vars => WInv'
<1> SUFFICES ASSUME IInv, WInv, [Next]_vars PROVE WInv'
  OBVIOUS
<1>1. TypeOK /\ JobSound
  BY DEF IInv
<1>2. PhaseSound' /\ AgreeSound' /\ OwedSound' /\ HelloSound'
  BY <1>1, PhaseStep, AgreeStep, OwedStep, HelloStep DEF WInv
<1>3. TurnSound' /\ AskSound' /\ WaitSound' /\ FullSound'
  BY <1>1, TurnStep, AskStep, WaitStep, FullStep DEF WInv
<1> QED
  BY <1>2, <1>3 DEF WInv

(* So they hold in every state of every behaviour.                          *)
LEMMA WInvariant == Spec => [](IInv /\ WInv)
  BY Initially, Quietly, Inductive, WStep, PTL DEF Spec

(* What the process holds between two handlers is what LoadReplay would     *)
(* project from the log: a restart at that moment loses no decision.        *)
THEOREM SessionAgreesWithLog == Spec => []LiveAgreesWithReplay
<1>1. IInv /\ WInv => LiveAgreesWithReplay
  <2> SUFFICES ASSUME IInv, WInv, Served PROVE View = disk
    BY DEF LiveAgreesWithReplay
  <2>1. disk \in Projected
    BY DEF IInv, TypeOK
  <2>2. /\ disk.state = snap.state /\ disk.run = snap.run
        /\ disk.mode = snap.mode /\ disk.queued = snap.queued
        /\ disk.pending = pending
    BY DEF WInv, AgreeSound, Served
  <2> QED
    BY <2>1, <2>2 DEF View, Projected
<1> QED
  BY WInvariant, <1>1, PTL

(* Outside a handler a queued message has a turn to wait for: no path       *)
(* through finishing, interrupting or approving ends without deliverQueued. *)
THEOREM WaitingHasATurn == Spec => []WaitingIsNotForgotten
<1>1. IInv /\ WInv => WaitingIsNotForgotten
  <2>1. Served => ~Handing
    BY DEF Served, Handing, Steps
  <2> QED
    BY <2>1 DEF WInv, WaitSound, WaitingIsNotForgotten
<1> QED
  BY WInvariant, <1>1, PTL

(* No drop of a queued message goes unreported by the handler, or the       *)
(* recovery, that dropped it.                                               *)
THEOREM DropsReported == Spec => []DropsAreSaid
<1>1. IInv /\ WInv => DropsAreSaid
  BY DEF WInv, OwedSound, DropsAreSaid, Served
<1> QED
  BY WInvariant, <1>1, PTL

(* A session that stops or changes a setting keeps its slot empty: the stop *)
(* drops what waits, and a setting needs an idle session, where nothing     *)
(* waits and no turn begins before the setting is answered.                 *)
THEOREM SlotStaysFree == Spec => []SlotIsFree
<1>1. IInv /\ WInv => SlotIsFree
  BY DEF WInv, WaitSound, SlotIsFree, Served
<1> QED
  BY WInvariant, <1>1, PTL

(* Outside a handler full mode has answered every request it may.           *)
THEOREM FullModeIsComplete == Spec => []FullModeAnswers
<1>1. IInv /\ WInv => FullModeAnswers
  <2>1. Served => ~Answering
    BY DEF Served, Answering, Steps
  <2> QED
    BY <2>1 DEF WInv, FullSound, FullModeAnswers, Served
<1> QED
  BY WInvariant, <1>1, PTL

(* Only two steps write to the agent.                                       *)
LEMMA Counting ==
    ASSUME [Next]_vars, ~WriteWire, ~WriteSetting
    PROVE  UNCHANGED written
<1> USE DEF outcomes
<1>1. CASE SpawnFails \/ Crash \/ Exit \/ InitializeFails
  BY <1>1 DEF SpawnFails, GoDown, Crash, Exit, InitializeFails
<1>2. CASE Launch \/ BeginRun \/ ReportOrphan \/ Spawn
  BY <1>2 DEF Launch, BeginRun, ReportOrphan, Spawn
<1>3. ASSUME NEW c \in Clients, NEW cmd \in Submitted,
             Retry(c, cmd) \/ SendNow(c, cmd) \/ Enqueue(c, cmd)
             \/ Unqueue(c, cmd)
      PROVE  UNCHANGED written
  BY <1>3 DEF Retry, SendNow, Enqueue, Unqueue
<1>4. ASSUME NEW c \in Clients, NEW cmd \in Submitted,
             Execute(c, cmd) \/ SetPermission(c, cmd) \/ Configure(c, cmd)
             \/ ShowCatalog(c, cmd)
      PROVE  UNCHANGED written
  BY <1>4 DEF Execute, SetPermission, Configure, ShowCatalog
<1>5. CASE WriteIntent \/ RecordInput \/ Resolve \/ ClearPending \/ DropQueued
           \/ SayDropped
  BY <1>5
  DEF WriteIntent, RecordInput, Resolve, ClearPending, DropQueued, SayDropped
<1>6. CASE SetWorking \/ SetStopping \/ WireFails \/ WriteReceipt
  BY <1>6 DEF SetWorking, SetStopping, WireFails, WriteReceipt
<1>7. CASE ApprovePending \/ Demote \/ DeliverQueued \/ ReapClear \/ ReapEnd
  BY <1>7 DEF ApprovePending, Demote, DeliverQueued, ReapClear, ReapEnd
<1>8. CASE Say \/ InitializeAnswered \/ InitializeRefused \/ Result
           \/ SettingAnswered
  BY <1>8
  DEF Say, Line, InitializeAnswered, InitializeRefused, Result,
      SettingAnswered
<1>9. ASSUME NEW r \in Requests, Ask(r) \/ Cancel(r)
      PROVE  UNCHANGED written
  BY <1>9 DEF Ask, Line, Cancel
<1>10. CASE Kill \/ Quit \/ Overflow \/ Canceled \/ Reap \/ WriteInitialize
  BY <1>10 DEF Kill, Quit, Overflow, Canceled, Reap, WriteInitialize
<1>11. CASE UNCHANGED vars
  BY <1>11 DEF vars, durable
<1> QED
  BY <1>1, <1>2, <1>3, <1>4, <1>5, <1>6, <1>7, <1>8, <1>9, <1>10, <1>11
  DEF Next, Boot, Submit, Locked, Speak

(* A message reaches the agent when the one before it has had its answer    *)
(* and no setting is unconfirmed, whoever sent it and however long it       *)
(* waited.                                                                  *)
THEOREM OneTurnAtATime == Spec => OneMessagePerTurn
<1> DEFINE Step == \A c \in Clients :
                      written'[c] # written[c] /\ job.cmd.op = "send" =>
                          ~turn /\ setting = None
<1>1. IInv /\ WInv /\ [Next]_vars => [Step]_vars
  <2> SUFFICES ASSUME IInv, WInv, [Next]_vars, NEW c \in Clients,
                      written'[c] # written[c], job.cmd.op = "send"
               PROVE  ~turn /\ setting = None
    OBVIOUS
  <2>1. WriteWire \/ WriteSetting
    BY Counting
  <2>2. ~WriteSetting
    BY DEF WInv, TurnSound, WriteSetting
  <2> QED
    BY <2>1, <2>2 DEF WriteWire, WInv, TurnSound, Sending
<1> QED
  BY WInvariant, <1>1, PTL DEF Spec, OneMessagePerTurn

(* An answer is written while the agent still waits for it, be it a         *)
(* client's or approvePending's.                                            *)
THEOREM RepliesMeetRequests == Spec => RepliesAreAwaited
<1>1. IInv /\ WInv /\ [Next]_vars =>
          [pc = "wire" /\ pc' = "receipt" /\ job.cmd.op = "reply" =>
               job.cmd.arg \in asked]_vars
  BY DEF WInv, AskSound
<1> QED
  BY WInvariant, <1>1, PTL DEF Spec, RepliesAreAwaited
=============================================================================
