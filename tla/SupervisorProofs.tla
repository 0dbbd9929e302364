-------------------------- MODULE SupervisorProofs --------------------------
(* Theorems about Supervisor, for every set of clients, requests and       *)
(* operations and every number of runs.  The invariant relates the three   *)
(* records of one command - the log's, the process's and the agent's - at  *)
(* every step of the handler that carries it out.                          *)
EXTENDS Supervisor, TLAPS

(* executeLocked's steps, and those of them at which the log already holds *)
(* the intent while the agent has seen nothing.                            *)
Steps == {"intent", "input", "resolve", "clear", "drop", "said", "working",
          "stopping", "wire", "receipt"}
Executed == {"send", "reply", "interrupt", "stop"}

(* A handler runs in a process.                                            *)
DownSound == phase = "down" => pc = "free"

(* Which operation is at which step.  The message deliverQueued could not  *)
(* execute passes "drop" and "said" without an intent.                     *)
JobSound ==
    pc \in Steps =>
        /\ job.from = "auto" => job.cmd.op = "reply"
        /\ job.from # "auto" => job.id \in Clients
        /\ job.cmd.op \in Executed
        /\ job.from = "queue" => job.cmd.op = "send"
        /\ job.cmd.op = "reply" => job.cmd.arg \in Requests
        /\ pc \in {"drop", "said"} =>
               \/ job.cmd.op \in {"interrupt", "stop"}
               \/ job.cmd.op = "send" /\ job.from = "queue"
        /\ pc = "stopping" => job.cmd.op = "stop"
        /\ pc \in {"working", "wire"} => job.cmd.op # "stop"
        /\ pc \in {"input", "resolve", "clear"} =>
               pc = AfterIntent[job.cmd.op]

(* A handler between intent and receipt.                                   *)
Carrying(c) ==
    /\ pc \in Steps \ {"intent"} /\ job.from # "auto" /\ job.id = c
    /\ ~(pc \in {"drop", "said"} /\ job.cmd.op = "send")

(* The command under way is on record, and reaches the agent at "wire".    *)
CarriedSound ==
    /\ \A c \in Clients : Carrying(c) =>
           /\ book[c] = [cmd |-> job.cmd, status |-> "delivery_unknown"]
           /\ written[c] =
                  IF pc = "receipt" /\ job.cmd.op # "stop" THEN 1 ELSE 0
    /\ pc = "intent" /\ job.from # "auto" => book[job.id].status = "none"

(* The setting under way likewise.                                         *)
SettingSound ==
    /\ pc = "setting" => setting # None /\ job.id = setting
    /\ setting # None =>
           /\ book[setting].status = "delivery_unknown"
           /\ book[setting].cmd.op = "setting"
           /\ written[setting] = IF pc = "setting" THEN 0 ELSE 1
           /\ pc \in Steps /\ job.from # "auto" => job.id # setting

(* The waiting message is in no log, and only its own delivery takes its   *)
(* receipt away.                                                           *)
SlotSound ==
    \A c \in Clients : snap.queued = c =>
        \/ /\ book[c].status = "none" /\ receipts[c].status = "queued"
           /\ pc \in Steps \cup {"setting"} /\ job.from # "auto" => job.id # c
        \/ /\ book[c].status = "none"
           /\ pc \in {"intent", "drop"} /\ job.id = c /\ job.from = "queue"
        \/ pc = "input" /\ job.id = c /\ job.from = "queue"

(* Memory, log and agent agree about every command.                        *)
LogSound ==
    \A c \in Clients :
        /\ book[c].status # "queued"
        /\ book[c].status = "none" => written[c] = 0
        /\ written[c] \in {0, 1}

MemorySound ==
    \A c \in Clients :
        /\ phase # "down" /\ book[c].status # "none" => receipts[c] = book[c]
        /\ receipts[c].status \notin {"none", "queued"}
           /\ receipts[c].cmd.op # "unqueue" => receipts[c] = book[c]

DeliverySound ==
    /\ CarriedSound /\ SettingSound /\ SlotSound /\ LogSound /\ MemorySound
    /\ PromiseKept /\ AcceptedWasWritten

IInv == TypeOK /\ DownSound /\ JobSound /\ DeliverySound

-----------------------------------------------------------------------------
(* Types of the commands the model builds.                                 *)
LEMMA SubmittedType ==
    ASSUME NEW cmd \in Submitted
    PROVE  /\ cmd \in Command
           /\ cmd.op = "permission" => cmd.arg \in Modes
  BY SupervisorAssumption DEF Submitted, Command, AllOps, PlainOps

LEMMA StopType ==
    ASSUME NEW cmd \in Command
    PROVE  [cmd EXCEPT !.op = "stop"] \in Command
  BY DEF Command, AllOps, PlainOps

LEMMA ReplyType ==
    ASSUME NEW r \in Requests, NEW n \in 0..MaxRuns
    PROVE  [op |-> "reply", arg |-> r, run |-> n] \in Command
  BY DEF Command, AllOps, PlainOps

LEMMA SendType ==
    ASSUME NEW n \in 0..MaxRuns
    PROVE  [op |-> "send", arg |-> None, run |-> n] \in Command
  BY DEF Command, AllOps, PlainOps

LEMMA BlankType ==
    /\ NoCommand \in Command /\ NoReceipt \in Receipt
    /\ NoReceipts \in [Clients -> Receipt] /\ NoSnapshot \in Snapshot
    /\ NoJob.id = None /\ NoJob.cmd \in Command /\ NoJob.from = "client"
    /\ NoJob \in [id : Clients \cup {None}, cmd : Command,
                  from : {"client", "auto", "queue"}]
  BY SupervisorAssumption
  DEF NoCommand, NoReceipt, NoReceipts, NoSnapshot, NoJob, Command, Receipt,
      AllOps, PlainOps, Statuses, Snapshot, States, Modes

(* The snapshot and its projection through the events that change them.    *)
LEMMA LogStateType ==
    ASSUME disk \in Projected, snap \in Snapshot, NEW state \in States,
           LogState(state)
    PROVE  disk' \in Projected /\ snap' \in Snapshot
<1>1. snap' \in Snapshot
  BY DEF LogState, Snapshot
<1>2. disk' \in Projected
  BY DEF LogState, Snapshot, Projected, ReplayState
<1> QED
  BY <1>1, <1>2

LEMMA LogQueuedType ==
    ASSUME disk \in Projected, snap \in Snapshot,
           NEW c \in Clients \cup {None}, LogQueued(c)
    PROVE  disk' \in Projected /\ snap' \in Snapshot
  BY DEF LogQueued, Snapshot, Projected

LEMMA LogModeType ==
    ASSUME disk \in Projected, snap \in Snapshot, NEW mode \in Modes,
           LogMode(mode)
    PROVE  disk' \in Projected /\ snap' \in Snapshot
  BY DEF LogMode, Snapshot, Projected

LEMMA SnapshotStateType ==
    ASSUME NEW s \in Snapshot
    PROVE  /\ s.state \in States /\ s.queued \in Clients \cup {None}
           /\ s.run \in 0..MaxRuns
           /\ \A state \in States : [s EXCEPT !.state = state] \in Snapshot
  BY DEF Snapshot

LEMMA ProjectedType ==
    ASSUME NEW d \in Projected, NEW p \in SUBSET Requests, NEW state \in States
    PROVE  [d EXCEPT !.pending = p, !.state = state] \in Projected
  BY DEF Projected

LEMMA RememberType ==
    ASSUME book \in [Clients -> Receipt], receipts \in [Clients -> Receipt],
           NEW c, NEW cmd \in Command, NEW status \in Statuses,
           Remember(c, cmd, status)
    PROVE  book' \in [Clients -> Receipt] /\ receipts' \in [Clients -> Receipt]
  BY DEF Remember, Receipt

LEMMA TypeStep ==
    ASSUME TypeOK, JobSound, [Next]_vars
    PROVE  TypeOK'
<1> USE SupervisorAssumption DEF TypeOK
<1>1. CASE UNCHANGED vars
  BY <1>1 DEF vars, durable, live, handler, agentv, outcomes
<1>2. CASE Launch
  BY <1>2
  DEF Launch, Restored, Projected, Snapshot, States, durable, live, handler, agentv, outcomes
<1>3. CASE BeginRun
  BY <1>3, LogStateType
  DEF BeginRun, States, AfterStarting, durable, live, handler, agentv, outcomes
<1>4. CASE ReportOrphan
  BY <1>4
  DEF ReportOrphan, durable, live, handler, agentv, outcomes
<1>5. CASE Spawn
  BY <1>5
  DEF Spawn, durable, live, handler, agentv, outcomes
<1>6. CASE SpawnFails
  <2>1. disk' \in Projected
    BY <1>6 DEF SpawnFails, ReplayState, Projected, Snapshot, States
  <2> QED
    BY <1>6, <2>1, BlankType DEF SpawnFails, GoDown
<1>7. CASE Crash
  BY <1>7, BlankType
  DEF Crash, GoDown, durable, live, handler, agentv, outcomes
<1>8. CASE Exit
  BY <1>8, BlankType
  DEF Exit, GoDown, durable, live, handler, agentv, outcomes
<1>9. CASE WriteInitialize
  BY <1>9
  DEF WriteInitialize, durable, live, handler, agentv, outcomes
<1>10. CASE InitializeFails
  BY <1>10, BlankType
  DEF InitializeFails, GoDown, durable, live, handler, agentv, outcomes
<1>11. CASE WriteIntent
  <2>1. stopping' \in BOOLEAN
    BY <1>11, Zenon DEF WriteIntent
  <2>2. book' \in [Clients -> Receipt] /\ receipts' \in [Clients -> Receipt]
    BY <1>11, RememberType DEF WriteIntent, Statuses
  <2>3. auto' \subseteq Requests
    BY <1>11 DEF WriteIntent, JobSound, Steps, Executed
  <2>4. pc' \in {"input", "resolve", "clear", "drop"}
    BY <1>11 DEF WriteIntent, JobSound, Steps, Executed, AfterIntent
  <2> QED
    BY <1>11, <2>1, <2>2, <2>3, <2>4 DEF WriteIntent, agentv, outcomes
<1>12. CASE RecordInput
  BY <1>12
  DEF RecordInput, ReplayInput, Snapshot, Projected, durable, live, handler, agentv, outcomes
<1>13. CASE Resolve
  BY <1>13
  DEF Resolve, AfterResolve, Projected, durable, live, handler, agentv, outcomes
<1>14. CASE ClearPending
  BY <1>14
  DEF ClearPending, CancelOne, Projected, durable, live, handler, agentv, outcomes
<1>15. CASE DropQueued
  BY <1>15, LogQueuedType, SnapshotStateType
  DEF DropQueued, AfterDrop, JobSound, Steps, Executed, durable, live, handler, agentv, outcomes
<1>16. CASE SayDropped
  BY <1>16
  DEF SayDropped, AfterDrop, JobSound, Steps, Executed, durable, live, handler, agentv, outcomes
<1>17. CASE SetWorking
  BY <1>17, LogStateType
  DEF SetWorking, States, durable, live, handler, agentv, outcomes
<1>18. CASE SetStopping
  BY <1>18, LogStateType
  DEF SetStopping, States, durable, live, handler, agentv, outcomes
<1>19. CASE WriteWire
  <2>1. turn' \in BOOLEAN
    BY <1>19, Zenon DEF WriteWire
  <2>2. written' \in [Clients -> Nat]
    BY <1>19 DEF WriteWire, JobSound, Steps
  <2>3. asked' \subseteq Requests /\ pc' = "receipt"
    BY <1>19 DEF WriteWire
  <2> QED
    BY <1>19, <2>1, <2>2, <2>3 DEF WriteWire, durable, live
<1>20. CASE WireFails
  <2>1. told' \in [Clients -> Receipt]
    BY <1>20 DEF WireFails, JobSound, Steps
  <2>2. agent' \in {"off", "on", "killed", "quit", "reaped"}
    BY <1>20 DEF WireFails, Killed
  <2>3. pc' \in {"free", "deliver"}
    BY <1>20 DEF WireFails, Return
  <2>4. UNCHANGED <<durable, phase, runs, live, killing, job, after, orphan,
                    hello, turn, asked, written, owed, silent>>
    BY <1>20 DEF WireFails
  <2> QED
    BY <2>1, <2>2, <2>3, <2>4 DEF durable, live
<1>21. CASE WriteReceipt
  <2>1. killing' \in BOOLEAN
    BY <1>21, Zenon DEF WriteReceipt
  <2>2. book' \in [Clients -> Receipt] /\ receipts' \in [Clients -> Receipt]
    BY <1>21, RememberType DEF WriteReceipt, Statuses
  <2>3. told' \in [Clients -> Receipt]
    BY <1>21, <2>2 DEF WriteReceipt, JobSound, Steps
  <2>4. pc' \in {"approve", "free"}
    BY <1>21 DEF WriteReceipt
  <2> QED
    BY <1>21, <2>1, <2>2, <2>3, <2>4 DEF WriteReceipt, agentv
<1>22. CASE WriteSetting
  BY <1>22, RememberType
  DEF WriteSetting, Statuses, durable, live, handler, agentv, outcomes
<1>23. CASE ApprovePending
  BY <1>23, ReplyType
  DEF ApprovePending, Begin, Approvable, Automatic, Snapshot, durable, live, handler, agentv, outcomes
<1>24. CASE Demote
  BY <1>24, LogModeType
  DEF Demote, Modes, durable, live, handler, agentv, outcomes
<1>25. CASE DeliverQueued
  BY <1>25, BlankType, SendType
  DEF DeliverQueued, MayDeliver, MayBegin, Snapshot, durable, live, handler, agentv, outcomes
<1>26. CASE ReapClear
  BY <1>26
  DEF ReapClear, CancelOne, Projected, durable, live, handler, agentv, outcomes
<1>27. CASE ReapEnd
  BY <1>27, LogStateType
  DEF ReapEnd, States, Endings, durable, live, handler, agentv, outcomes
<1>28. CASE Kill
  <2>1. killing' \in BOOLEAN
    BY <1>28, Zenon DEF Kill
  <2>2. agent' \in {"off", "on", "killed", "quit", "reaped"}
    BY <1>28 DEF Kill, Killed
  <2>3. UNCHANGED <<durable, phase, runs, live, handler, hello, turn, asked,
                    outcomes>>
    BY <1>28 DEF Kill
  <2> QED
    BY <2>1, <2>2, <2>3 DEF durable, live, handler, outcomes
<1>29. CASE Say
  BY <1>29
  DEF Say, Line, durable, live, handler, agentv, outcomes
<1>30. CASE InitializeAnswered
  BY <1>30, LogStateType
  DEF InitializeAnswered, States, Line, durable, live, handler, agentv, outcomes
<1>31. CASE InitializeRefused
  BY <1>31, LogStateType
  DEF InitializeRefused, States, Killed, Line, durable, live, handler, agentv, outcomes
<1>32. CASE Result
  <2>1. disk' \in Projected
    BY <1>32 DEF Result, States, Projected
  <2>2. snap' \in Snapshot
    BY <1>32, SnapshotStateType DEF Result, States
  <2>3. pending' \subseteq Requests /\ asked' \subseteq Requests /\ turn' \in BOOLEAN
    BY <1>32 DEF Result
  <2>4. pc' = "approve" /\ after' = "deliver"
    BY <1>32 DEF Result, Line
  <2>5. UNCHANGED <<book, phase, runs, receipts, auto, stopping, setting,
                    killing, job, orphan, agent, hello, outcomes>>
    BY <1>32 DEF Result, Line, outcomes
  <2> QED
    BY <2>1, <2>2, <2>3, <2>4, <2>5 DEF outcomes
<1>33. CASE SettingAnswered
  BY <1>33, RememberType
  DEF SettingAnswered, Statuses, Line, Receipt, durable, live, handler, agentv, outcomes
<1>34. CASE Quit
  BY <1>34
  DEF Quit, durable, live, handler, agentv, outcomes
<1>35. CASE Overflow
  BY <1>35
  DEF Overflow, durable, live, handler, agentv, outcomes
<1>36. CASE Canceled
  BY <1>36
  DEF Canceled, durable, live, handler, agentv, outcomes
<1>37. CASE Reap
  BY <1>37
  DEF Reap, durable, live, handler, agentv, outcomes
<1>38. ASSUME NEW c \in Clients, NEW cmd \in Submitted, Retry(c, cmd)
      PROVE  TypeOK'
  BY <1>38
  DEF Retry, durable, live, handler, agentv, outcomes
<1>39. ASSUME NEW c \in Clients, NEW cmd \in Submitted, SendNow(c, cmd)
      PROVE  TypeOK'
  BY <1>39, SubmittedType
  DEF SendNow, Begin, durable, live, handler, agentv, outcomes
<1>40. ASSUME NEW c \in Clients, NEW cmd \in Submitted, Enqueue(c, cmd)
      PROVE  TypeOK'
  BY <1>40, LogQueuedType, SnapshotStateType, SubmittedType
  DEF Enqueue, Statuses, Receipt, durable, live, handler, agentv, outcomes
<1>41. ASSUME NEW c \in Clients, NEW cmd \in Submitted, Unqueue(c, cmd)
      PROVE  TypeOK'
  BY <1>41, LogQueuedType, SnapshotStateType, SubmittedType
  DEF Unqueue, Statuses, Receipt, durable, live, handler, agentv, outcomes
<1>42. ASSUME NEW c \in Clients, NEW cmd \in Submitted, Execute(c, cmd)
      PROVE  TypeOK'
  BY <1>42, SubmittedType, StopType
  DEF Execute, Begin, MayRun, durable, live, handler, agentv, outcomes
<1>43. ASSUME NEW c \in Clients, NEW cmd \in Submitted, SetPermission(c, cmd)
      PROVE  TypeOK'
  BY <1>43, LogModeType, RememberType, SubmittedType
  DEF SetPermission, Modes, Statuses, durable, live, handler, agentv, outcomes
<1>44. ASSUME NEW c \in Clients, NEW cmd \in Submitted, Configure(c, cmd)
      PROVE  TypeOK'
  BY <1>44, RememberType, SubmittedType
  DEF Configure, Statuses, durable, live, handler, agentv, outcomes
<1>45. ASSUME NEW c \in Clients, NEW cmd \in Submitted, ShowCatalog(c, cmd)
      PROVE  TypeOK'
  BY <1>45, RememberType, SubmittedType
  DEF ShowCatalog, Statuses, durable, live, handler, agentv, outcomes
<1>46. ASSUME NEW r \in Requests, Ask(r)
      PROVE  TypeOK'
  <2>1. disk' \in Projected
    BY <1>46 DEF Ask, States, Projected
  <2>2. snap' \in Snapshot
    BY <1>46, SnapshotStateType DEF Ask, States
  <2> QED
    BY <1>46, <2>1, <2>2 DEF Ask, Line
<1>47. ASSUME NEW r \in Requests, Cancel(r)
      PROVE  TypeOK'
  <2>1. disk' \in Projected
    BY <1>47, SnapshotStateType DEF Cancel, States, Projected
  <2>2. snap' \in Snapshot
    BY <1>47, SnapshotStateType DEF Cancel, States
  <2> QED
    BY <1>47, <2>1, <2>2 DEF Cancel, Line
<1> QED
  BY <1>1, <1>2, <1>3, <1>4, <1>5, <1>6, <1>7, <1>8, <1>9, <1>10, <1>11,
     <1>12, <1>13, <1>14, <1>15, <1>16, <1>17, <1>18, <1>19, <1>20, <1>21, <1>22,
     <1>23, <1>24, <1>25, <1>26, <1>27, <1>28, <1>29, <1>30, <1>31, <1>32, <1>33,
     <1>34, <1>35, <1>36, <1>37, <1>38, <1>39, <1>40, <1>41, <1>42, <1>43, <1>44,
     <1>45, <1>46, <1>47
  DEF Next, Boot, Submit, Locked, Speak

LEMMA JobStep ==
    ASSUME TypeOK, DownSound, JobSound, [Next]_vars
    PROVE  DownSound' /\ JobSound'
<1> USE SupervisorAssumption DEF TypeOK, DownSound, JobSound, Steps, Executed
<1>1. CASE UNCHANGED vars
  BY <1>1 DEF vars, durable, live, handler, agentv, outcomes
<1>2. CASE Launch
  BY <1>2
  DEF Launch, Restored, durable, live, handler, agentv, outcomes
<1>3. CASE BeginRun
  BY <1>3
  DEF BeginRun, AfterStarting, durable, live, handler, agentv, outcomes
<1>4. CASE ReportOrphan
  BY <1>4
  DEF ReportOrphan, durable, live, handler, agentv, outcomes
<1>5. CASE Spawn
  BY <1>5
  DEF Spawn, durable, live, handler, agentv, outcomes
<1>6. CASE SpawnFails
  BY <1>6
  DEF SpawnFails, GoDown, NoJob, durable, live, handler, agentv, outcomes
<1>7. CASE Crash
  BY <1>7
  DEF Crash, GoDown, NoJob, durable, live, handler, agentv, outcomes
<1>8. CASE Exit
  BY <1>8
  DEF Exit, GoDown, NoJob, durable, live, handler, agentv, outcomes
<1>9. CASE WriteInitialize
  BY <1>9
  DEF WriteInitialize, durable, live, handler, agentv, outcomes
<1>10. CASE InitializeFails
  BY <1>10
  DEF InitializeFails, GoDown, NoJob, durable, live, handler, agentv, outcomes
<1>11. CASE WriteIntent
  BY <1>11
  DEF WriteIntent, AfterIntent, durable, live, handler, agentv, outcomes
<1>12. CASE RecordInput
  BY <1>12
  DEF RecordInput, AfterIntent, durable, live, handler, agentv, outcomes
<1>13. CASE Resolve
  BY <1>13
  DEF Resolve, AfterResolve, AfterIntent, durable, live, handler, agentv, outcomes
<1>14. CASE ClearPending
  BY <1>14
  DEF ClearPending, AfterIntent, durable, live, handler, agentv, outcomes
<1>15. CASE DropQueued
  BY <1>15
  DEF DropQueued, AfterDrop, durable, live, handler, agentv, outcomes
<1>16. CASE SayDropped
  BY <1>16
  DEF SayDropped, AfterDrop, durable, live, handler, agentv, outcomes
<1>17. CASE SetWorking
  BY <1>17
  DEF SetWorking, durable, live, handler, agentv, outcomes
<1>18. CASE SetStopping
  BY <1>18
  DEF SetStopping, durable, live, handler, agentv, outcomes
<1>19. CASE WriteWire
  BY <1>19
  DEF WriteWire, durable, live, handler, agentv, outcomes
<1>20. CASE WireFails
  BY <1>20
  DEF WireFails, Return, durable, live, handler, agentv, outcomes
<1>21. CASE WriteReceipt
  BY <1>21
  DEF WriteReceipt, durable, live, handler, agentv, outcomes
<1>22. CASE WriteSetting
  BY <1>22
  DEF WriteSetting, durable, live, handler, agentv, outcomes
<1>23. CASE ApprovePending
  BY <1>23
  DEF ApprovePending, Begin, Approvable, Automatic, durable, live, handler, agentv, outcomes
<1>24. CASE Demote
  BY <1>24
  DEF Demote, durable, live, handler, agentv, outcomes
<1>25. CASE DeliverQueued
  BY <1>25, SnapshotStateType
  DEF DeliverQueued, MayDeliver, MayBegin, durable, live, handler, agentv, outcomes
<1>26. CASE ReapClear
  BY <1>26
  DEF ReapClear, durable, live, handler, agentv, outcomes
<1>27. CASE ReapEnd
  BY <1>27
  DEF ReapEnd, durable, live, handler, agentv, outcomes
<1>28. CASE Kill
  BY <1>28
  DEF Kill, durable, live, handler, agentv, outcomes
<1>29. CASE Say
  BY <1>29
  DEF Say, Line, Served, durable, live, handler, agentv, outcomes
<1>30. CASE InitializeAnswered
  BY <1>30
  DEF InitializeAnswered, Line, Served, durable, live, handler, agentv, outcomes
<1>31. CASE InitializeRefused
  BY <1>31
  DEF InitializeRefused, Line, Served, durable, live, handler, agentv, outcomes
<1>32. CASE Result
  BY <1>32
  DEF Result, Line, Served, durable, live, handler, agentv, outcomes
<1>33. CASE SettingAnswered
  BY <1>33
  DEF SettingAnswered, Line, Served, durable, live, handler, agentv, outcomes
<1>34. CASE Quit
  BY <1>34
  DEF Quit, durable, live, handler, agentv, outcomes
<1>35. CASE Overflow
  BY <1>35
  DEF Overflow, Served, durable, live, handler, agentv, outcomes
<1>36. CASE Canceled
  BY <1>36
  DEF Canceled, durable, live, handler, agentv, outcomes
<1>37. CASE Reap
  BY <1>37
  DEF Reap, Served, durable, live, handler, agentv, outcomes
<1>38. ASSUME NEW c \in Clients, NEW cmd \in Submitted, Retry(c, cmd)
      PROVE  DownSound' /\ JobSound'
  BY <1>38
  DEF Retry, Fresh, Served, durable, live, handler, agentv, outcomes
<1>39. ASSUME NEW c \in Clients, NEW cmd \in Submitted, SendNow(c, cmd)
      PROVE  DownSound' /\ JobSound'
  BY <1>39, SubmittedType
  DEF SendNow, Begin, Fresh, Served, durable, live, handler, agentv, outcomes
<1>40. ASSUME NEW c \in Clients, NEW cmd \in Submitted, Enqueue(c, cmd)
      PROVE  DownSound' /\ JobSound'
  BY <1>40
  DEF Enqueue, Fresh, Served, durable, live, handler, agentv, outcomes
<1>41. ASSUME NEW c \in Clients, NEW cmd \in Submitted, Unqueue(c, cmd)
      PROVE  DownSound' /\ JobSound'
  BY <1>41
  DEF Unqueue, Fresh, Served, durable, live, handler, agentv, outcomes
<1>42. ASSUME NEW c \in Clients, NEW cmd \in Submitted, Execute(c, cmd)
      PROVE  DownSound' /\ JobSound'
  BY <1>42, SubmittedType
  DEF Execute, Begin, MayRun, Fresh, Served, durable, live, handler, agentv, outcomes
<1>43. ASSUME NEW c \in Clients, NEW cmd \in Submitted, SetPermission(c, cmd)
      PROVE  DownSound' /\ JobSound'
  BY <1>43
  DEF SetPermission, Fresh, Served, durable, live, handler, agentv, outcomes
<1>44. ASSUME NEW c \in Clients, NEW cmd \in Submitted, Configure(c, cmd)
      PROVE  DownSound' /\ JobSound'
  BY <1>44
  DEF Configure, Fresh, Served, durable, live, handler, agentv, outcomes
<1>45. ASSUME NEW c \in Clients, NEW cmd \in Submitted, ShowCatalog(c, cmd)
      PROVE  DownSound' /\ JobSound'
  BY <1>45
  DEF ShowCatalog, Fresh, Served, durable, live, handler, agentv, outcomes
<1>46. ASSUME NEW r \in Requests, Ask(r)
      PROVE  DownSound' /\ JobSound'
  BY <1>46
  DEF Ask, Line, Served, durable, live, handler, agentv, outcomes
<1>47. ASSUME NEW r \in Requests, Cancel(r)
      PROVE  DownSound' /\ JobSound'
  BY <1>47
  DEF Cancel, Line, Served, durable, live, handler, agentv, outcomes
<1> QED
  BY <1>1, <1>2, <1>3, <1>4, <1>5, <1>6, <1>7, <1>8, <1>9, <1>10, <1>11,
     <1>12, <1>13, <1>14, <1>15, <1>16, <1>17, <1>18, <1>19, <1>20, <1>21, <1>22,
     <1>23, <1>24, <1>25, <1>26, <1>27, <1>28, <1>29, <1>30, <1>31, <1>32, <1>33,
     <1>34, <1>35, <1>36, <1>37, <1>38, <1>39, <1>40, <1>41, <1>42, <1>43, <1>44,
     <1>45, <1>46, <1>47
  DEF Next, Boot, Submit, Locked, Speak

(* Steps that leave the three records alone.                               *)
Busy == Steps \cup {"setting"}
Frame ==
    /\ UNCHANGED <<book, receipts, written, told, setting>>
    /\ snap'.queued = snap.queued
    /\ phase' = "down" \/ phase # "down"
    /\ \/ UNCHANGED <<pc, job>>
       \/ pc \notin Busy /\ pc' \notin Busy

LEMMA FrameStep ==
    ASSUME DeliverySound, Frame
    PROVE  DeliverySound'
<1> USE DEF Frame, DeliverySound, Busy
<1>1. CarriedSound'
  BY DEF CarriedSound, Carrying, Steps
<1>2. SettingSound'
  BY DEF SettingSound, Steps
<1>3. SlotSound'
  BY DEF SlotSound, Steps
<1>4. LogSound' /\ MemorySound'
  BY DEF LogSound, MemorySound
<1>5. PromiseKept' /\ AcceptedWasWritten'
  BY DEF PromiseKept, AcceptedWasWritten
<1> QED
  BY <1>1, <1>2, <1>3, <1>4, <1>5

(* A process that goes down takes its memory along and nothing else.       *)
LEMMA DownStep ==
    ASSUME DeliverySound, GoDown, UNCHANGED book
    PROVE  DeliverySound'
<1> USE SupervisorAssumption
    DEF DeliverySound, GoDown, NoSnapshot, NoReceipts, NoReceipt
<1>1. CarriedSound' /\ SettingSound' /\ SlotSound'
  BY DEF CarriedSound, Carrying, SettingSound, SlotSound, Steps
<1>2. LogSound' /\ MemorySound'
  BY DEF LogSound, MemorySound
<1>3. PromiseKept' /\ AcceptedWasWritten'
  BY DEF PromiseKept, AcceptedWasWritten
<1> QED
  BY <1>1, <1>2, <1>3

LEMMA DeliveryStep ==
    ASSUME TypeOK, DownSound, JobSound, DeliverySound, [Next]_vars
    PROVE  DeliverySound'
<1> USE SupervisorAssumption DEF DeliverySound
<1>1. CASE UNCHANGED vars
  <2>1. Frame
    BY <1>1 DEF Frame, vars, durable, live, handler, agentv, outcomes, DownSound
  <2> QED
    BY <2>1, FrameStep
<1>2. CASE Launch
  <2>1. CarriedSound'
    BY <1>2 DEF Launch, Restored, NoReceipt, TypeOK, Snapshot, DownSound, CarriedSound, Carrying, SlotSound, LogSound, MemorySound, SettingSound, Steps, durable, live, handler, agentv, outcomes
  <2>2. SettingSound'
    BY <1>2 DEF Launch, Restored, NoReceipt, TypeOK, Snapshot, DownSound, CarriedSound, Carrying, SettingSound, SlotSound, LogSound, MemorySound, Steps, durable, live, handler, agentv, outcomes
  <2>3. SlotSound'
    BY <1>2 DEF Launch, Restored, NoReceipt, TypeOK, Snapshot, DownSound, SlotSound, LogSound, CarriedSound, Carrying, MemorySound, SettingSound, Steps, durable, live, handler, agentv, outcomes
  <2>4. LogSound'
    BY <1>2 DEF Launch, Restored, NoReceipt, TypeOK, Snapshot, DownSound, LogSound, CarriedSound, Carrying, SettingSound, Steps, durable, live, handler, agentv, outcomes
  <2>5. MemorySound'
    BY <1>2 DEF Launch, Restored, NoReceipt, TypeOK, Snapshot, DownSound, MemorySound, SlotSound, CarriedSound, Carrying, SettingSound, Steps, durable, live, handler, agentv, outcomes
  <2>6. PromiseKept'
    BY <1>2 DEF Launch, Restored, NoReceipt, TypeOK, Snapshot, DownSound, PromiseKept, MemorySound, CarriedSound, Carrying, SettingSound, Steps, durable, live, handler, agentv, outcomes
  <2>7. AcceptedWasWritten'
    BY <1>2 DEF Launch, Restored, NoReceipt, TypeOK, Snapshot, DownSound, AcceptedWasWritten, CarriedSound, Carrying, SettingSound, Steps, durable, live, handler, agentv, outcomes
  <2> QED
    BY <2>1, <2>2, <2>3, <2>4, <2>5, <2>6, <2>7
<1>3. CASE BeginRun
  <2>1. Frame
    BY <1>3 DEF Frame, Busy, Steps, BeginRun, AfterStarting, LogState, TypeOK, Snapshot, DownSound, durable, live, handler, agentv, outcomes
  <2> QED
    BY <2>1, FrameStep
<1>4. CASE ReportOrphan
  <2>1. Frame
    BY <1>4 DEF Frame, Busy, Steps, ReportOrphan, TypeOK, Snapshot, DownSound, durable, live, handler, agentv, outcomes
  <2> QED
    BY <2>1, FrameStep
<1>5. CASE Spawn
  <2>1. Frame
    BY <1>5 DEF Frame, Busy, Steps, Spawn, TypeOK, Snapshot, DownSound, durable, live, handler, agentv, outcomes
  <2> QED
    BY <2>1, FrameStep
<1>6. CASE SpawnFails
  BY <1>6, DownStep DEF SpawnFails, durable
<1>7. CASE Crash
  BY <1>7, DownStep DEF Crash, durable
<1>8. CASE Exit
  BY <1>8, DownStep DEF Exit, durable
<1>9. CASE WriteInitialize
  <2>1. Frame
    BY <1>9 DEF Frame, Busy, Steps, WriteInitialize, TypeOK, Snapshot, DownSound, durable, live, handler, agentv, outcomes
  <2> QED
    BY <2>1, FrameStep
<1>10. CASE InitializeFails
  BY <1>10, DownStep DEF InitializeFails, durable
<1>11. CASE WriteIntent
  <2>1. CarriedSound'
    BY <1>11 DEF WriteIntent, Remember, AfterIntent, JobSound, Executed, TypeOK, Snapshot, DownSound, CarriedSound, Carrying, SlotSound, LogSound, MemorySound, SettingSound, Steps, durable, live, handler, agentv, outcomes
  <2>2. SettingSound'
    BY <1>11 DEF WriteIntent, Remember, AfterIntent, JobSound, Executed, TypeOK, Snapshot, DownSound, CarriedSound, Carrying, SettingSound, SlotSound, LogSound, MemorySound, Steps, durable, live, handler, agentv, outcomes
  <2>3. SlotSound'
    BY <1>11 DEF WriteIntent, Remember, AfterIntent, JobSound, Executed, TypeOK, Snapshot, DownSound, SlotSound, LogSound, CarriedSound, Carrying, MemorySound, SettingSound, Steps, durable, live, handler, agentv, outcomes
  <2>4. LogSound'
    BY <1>11 DEF WriteIntent, Remember, AfterIntent, JobSound, Executed, TypeOK, Snapshot, DownSound, LogSound, CarriedSound, Carrying, SettingSound, Steps, durable, live, handler, agentv, outcomes
  <2>5. MemorySound'
    BY <1>11 DEF WriteIntent, Remember, AfterIntent, JobSound, Executed, TypeOK, Snapshot, DownSound, MemorySound, SlotSound, CarriedSound, Carrying, SettingSound, Steps, durable, live, handler, agentv, outcomes
  <2>6. PromiseKept'
    BY <1>11 DEF WriteIntent, Remember, AfterIntent, JobSound, Executed, TypeOK, Snapshot, DownSound, PromiseKept, MemorySound, CarriedSound, Carrying, SettingSound, Steps, durable, live, handler, agentv, outcomes
  <2>7. AcceptedWasWritten'
    BY <1>11 DEF WriteIntent, Remember, AfterIntent, JobSound, Executed, TypeOK, Snapshot, DownSound, AcceptedWasWritten, CarriedSound, Carrying, SettingSound, Steps, durable, live, handler, agentv, outcomes
  <2> QED
    BY <2>1, <2>2, <2>3, <2>4, <2>5, <2>6, <2>7
<1>12. CASE RecordInput
  <2>1. CarriedSound'
    BY <1>12 DEF RecordInput, JobSound, Executed, TypeOK, Snapshot, AfterIntent, CarriedSound, Carrying, SlotSound, LogSound, MemorySound, SettingSound, Steps, durable, live, handler, agentv, outcomes
  <2>2. SettingSound'
    BY <1>12 DEF RecordInput, JobSound, Executed, TypeOK, Snapshot, AfterIntent, CarriedSound, Carrying, SettingSound, SlotSound, LogSound, MemorySound, Steps, durable, live, handler, agentv, outcomes
  <2>3. SlotSound'
    BY <1>12 DEF RecordInput, JobSound, Executed, TypeOK, Snapshot, AfterIntent, SlotSound, LogSound, CarriedSound, Carrying, MemorySound, SettingSound, Steps, durable, live, handler, agentv, outcomes
  <2>4. LogSound'
    BY <1>12 DEF RecordInput, JobSound, Executed, TypeOK, Snapshot, AfterIntent, LogSound, CarriedSound, Carrying, SettingSound, Steps, durable, live, handler, agentv, outcomes
  <2>5. MemorySound'
    BY <1>12 DEF RecordInput, JobSound, Executed, TypeOK, Snapshot, AfterIntent, MemorySound, SlotSound, CarriedSound, Carrying, SettingSound, Steps, durable, live, handler, agentv, outcomes
  <2>6. PromiseKept'
    BY <1>12 DEF RecordInput, JobSound, Executed, TypeOK, Snapshot, AfterIntent, PromiseKept, MemorySound, CarriedSound, Carrying, SettingSound, Steps, durable, live, handler, agentv, outcomes
  <2>7. AcceptedWasWritten'
    BY <1>12 DEF RecordInput, JobSound, Executed, TypeOK, Snapshot, AfterIntent, AcceptedWasWritten, CarriedSound, Carrying, SettingSound, Steps, durable, live, handler, agentv, outcomes
  <2> QED
    BY <2>1, <2>2, <2>3, <2>4, <2>5, <2>6, <2>7
<1>13. CASE Resolve
  <2>1. CarriedSound'
    BY <1>13 DEF Resolve, AfterResolve, JobSound, Executed, TypeOK, Snapshot, AfterIntent, CarriedSound, Carrying, SlotSound, LogSound, MemorySound, SettingSound, Steps, durable, live, handler, agentv, outcomes
  <2>2. SettingSound'
    BY <1>13 DEF Resolve, AfterResolve, JobSound, Executed, TypeOK, Snapshot, AfterIntent, CarriedSound, Carrying, SettingSound, SlotSound, LogSound, MemorySound, Steps, durable, live, handler, agentv, outcomes
  <2>3. SlotSound'
    BY <1>13 DEF Resolve, AfterResolve, JobSound, Executed, TypeOK, Snapshot, AfterIntent, SlotSound, LogSound, CarriedSound, Carrying, MemorySound, SettingSound, Steps, durable, live, handler, agentv, outcomes
  <2>4. LogSound'
    BY <1>13 DEF Resolve, AfterResolve, JobSound, Executed, TypeOK, Snapshot, AfterIntent, LogSound, CarriedSound, Carrying, SettingSound, Steps, durable, live, handler, agentv, outcomes
  <2>5. MemorySound'
    BY <1>13 DEF Resolve, AfterResolve, JobSound, Executed, TypeOK, Snapshot, AfterIntent, MemorySound, SlotSound, CarriedSound, Carrying, SettingSound, Steps, durable, live, handler, agentv, outcomes
  <2>6. PromiseKept'
    BY <1>13 DEF Resolve, AfterResolve, JobSound, Executed, TypeOK, Snapshot, AfterIntent, PromiseKept, MemorySound, CarriedSound, Carrying, SettingSound, Steps, durable, live, handler, agentv, outcomes
  <2>7. AcceptedWasWritten'
    BY <1>13 DEF Resolve, AfterResolve, JobSound, Executed, TypeOK, Snapshot, AfterIntent, AcceptedWasWritten, CarriedSound, Carrying, SettingSound, Steps, durable, live, handler, agentv, outcomes
  <2> QED
    BY <2>1, <2>2, <2>3, <2>4, <2>5, <2>6, <2>7
<1>14. CASE ClearPending
  <2>1. CarriedSound'
    BY <1>14 DEF ClearPending, CancelOne, AfterIntent, JobSound, Executed, TypeOK, Snapshot, CarriedSound, Carrying, SlotSound, LogSound, MemorySound, SettingSound, Steps, durable, live, handler, agentv, outcomes
  <2>2. SettingSound'
    BY <1>14 DEF ClearPending, CancelOne, AfterIntent, JobSound, Executed, TypeOK, Snapshot, CarriedSound, Carrying, SettingSound, SlotSound, LogSound, MemorySound, Steps, durable, live, handler, agentv, outcomes
  <2>3. SlotSound'
    BY <1>14 DEF ClearPending, CancelOne, AfterIntent, JobSound, Executed, TypeOK, Snapshot, SlotSound, LogSound, CarriedSound, Carrying, MemorySound, SettingSound, Steps, durable, live, handler, agentv, outcomes
  <2>4. LogSound'
    BY <1>14 DEF ClearPending, CancelOne, AfterIntent, JobSound, Executed, TypeOK, Snapshot, LogSound, CarriedSound, Carrying, SettingSound, Steps, durable, live, handler, agentv, outcomes
  <2>5. MemorySound'
    BY <1>14 DEF ClearPending, CancelOne, AfterIntent, JobSound, Executed, TypeOK, Snapshot, MemorySound, SlotSound, CarriedSound, Carrying, SettingSound, Steps, durable, live, handler, agentv, outcomes
  <2>6. PromiseKept'
    BY <1>14 DEF ClearPending, CancelOne, AfterIntent, JobSound, Executed, TypeOK, Snapshot, PromiseKept, MemorySound, CarriedSound, Carrying, SettingSound, Steps, durable, live, handler, agentv, outcomes
  <2>7. AcceptedWasWritten'
    BY <1>14 DEF ClearPending, CancelOne, AfterIntent, JobSound, Executed, TypeOK, Snapshot, AcceptedWasWritten, CarriedSound, Carrying, SettingSound, Steps, durable, live, handler, agentv, outcomes
  <2> QED
    BY <2>1, <2>2, <2>3, <2>4, <2>5, <2>6, <2>7
<1>15. CASE DropQueued
  <2>1. CarriedSound'
    BY <1>15 DEF DropQueued, LogQueued, AfterDrop, JobSound, Executed, TypeOK, Snapshot, CarriedSound, Carrying, SlotSound, LogSound, MemorySound, SettingSound, Steps, durable, live, handler, agentv, outcomes
  <2>2. SettingSound'
    BY <1>15 DEF DropQueued, LogQueued, AfterDrop, JobSound, Executed, TypeOK, Snapshot, CarriedSound, Carrying, SettingSound, SlotSound, LogSound, MemorySound, Steps, durable, live, handler, agentv, outcomes
  <2>3. SlotSound'
    BY <1>15 DEF DropQueued, LogQueued, AfterDrop, JobSound, Executed, TypeOK, Snapshot, SlotSound, LogSound, CarriedSound, Carrying, MemorySound, SettingSound, Steps, durable, live, handler, agentv, outcomes
  <2>4. LogSound'
    BY <1>15 DEF DropQueued, LogQueued, AfterDrop, JobSound, Executed, TypeOK, Snapshot, LogSound, CarriedSound, Carrying, SettingSound, Steps, durable, live, handler, agentv, outcomes
  <2>5. MemorySound'
    BY <1>15 DEF DropQueued, LogQueued, AfterDrop, JobSound, Executed, TypeOK, Snapshot, MemorySound, SlotSound, CarriedSound, Carrying, SettingSound, Steps, durable, live, handler, agentv, outcomes
  <2>6. PromiseKept'
    BY <1>15 DEF DropQueued, LogQueued, AfterDrop, JobSound, Executed, TypeOK, Snapshot, PromiseKept, MemorySound, CarriedSound, Carrying, SettingSound, Steps, durable, live, handler, agentv, outcomes
  <2>7. AcceptedWasWritten'
    BY <1>15 DEF DropQueued, LogQueued, AfterDrop, JobSound, Executed, TypeOK, Snapshot, AcceptedWasWritten, CarriedSound, Carrying, SettingSound, Steps, durable, live, handler, agentv, outcomes
  <2> QED
    BY <2>1, <2>2, <2>3, <2>4, <2>5, <2>6, <2>7
<1>16. CASE SayDropped
  <2>1. CarriedSound'
    BY <1>16 DEF SayDropped, AfterDrop, JobSound, Executed, TypeOK, Snapshot, CarriedSound, Carrying, SlotSound, LogSound, MemorySound, SettingSound, Steps, durable, live, handler, agentv, outcomes
  <2>2. SettingSound'
    BY <1>16 DEF SayDropped, AfterDrop, JobSound, Executed, TypeOK, Snapshot, CarriedSound, Carrying, SettingSound, SlotSound, LogSound, MemorySound, Steps, durable, live, handler, agentv, outcomes
  <2>3. SlotSound'
    BY <1>16 DEF SayDropped, AfterDrop, JobSound, Executed, TypeOK, Snapshot, SlotSound, LogSound, CarriedSound, Carrying, MemorySound, SettingSound, Steps, durable, live, handler, agentv, outcomes
  <2>4. LogSound'
    BY <1>16 DEF SayDropped, AfterDrop, JobSound, Executed, TypeOK, Snapshot, LogSound, CarriedSound, Carrying, SettingSound, Steps, durable, live, handler, agentv, outcomes
  <2>5. MemorySound'
    BY <1>16 DEF SayDropped, AfterDrop, JobSound, Executed, TypeOK, Snapshot, MemorySound, SlotSound, CarriedSound, Carrying, SettingSound, Steps, durable, live, handler, agentv, outcomes
  <2>6. PromiseKept'
    BY <1>16 DEF SayDropped, AfterDrop, JobSound, Executed, TypeOK, Snapshot, PromiseKept, MemorySound, CarriedSound, Carrying, SettingSound, Steps, durable, live, handler, agentv, outcomes
  <2>7. AcceptedWasWritten'
    BY <1>16 DEF SayDropped, AfterDrop, JobSound, Executed, TypeOK, Snapshot, AcceptedWasWritten, CarriedSound, Carrying, SettingSound, Steps, durable, live, handler, agentv, outcomes
  <2> QED
    BY <2>1, <2>2, <2>3, <2>4, <2>5, <2>6, <2>7
<1>17. CASE SetWorking
  <2>1. CarriedSound'
    BY <1>17 DEF SetWorking, LogState, JobSound, Executed, TypeOK, Snapshot, CarriedSound, Carrying, SlotSound, LogSound, MemorySound, SettingSound, Steps, durable, live, handler, agentv, outcomes
  <2>2. SettingSound'
    BY <1>17 DEF SetWorking, LogState, JobSound, Executed, TypeOK, Snapshot, CarriedSound, Carrying, SettingSound, SlotSound, LogSound, MemorySound, Steps, durable, live, handler, agentv, outcomes
  <2>3. SlotSound'
    BY <1>17 DEF SetWorking, LogState, JobSound, Executed, TypeOK, Snapshot, SlotSound, LogSound, CarriedSound, Carrying, MemorySound, SettingSound, Steps, durable, live, handler, agentv, outcomes
  <2>4. LogSound'
    BY <1>17 DEF SetWorking, LogState, JobSound, Executed, TypeOK, Snapshot, LogSound, CarriedSound, Carrying, SettingSound, Steps, durable, live, handler, agentv, outcomes
  <2>5. MemorySound'
    BY <1>17 DEF SetWorking, LogState, JobSound, Executed, TypeOK, Snapshot, MemorySound, SlotSound, CarriedSound, Carrying, SettingSound, Steps, durable, live, handler, agentv, outcomes
  <2>6. PromiseKept'
    BY <1>17 DEF SetWorking, LogState, JobSound, Executed, TypeOK, Snapshot, PromiseKept, MemorySound, CarriedSound, Carrying, SettingSound, Steps, durable, live, handler, agentv, outcomes
  <2>7. AcceptedWasWritten'
    BY <1>17 DEF SetWorking, LogState, JobSound, Executed, TypeOK, Snapshot, AcceptedWasWritten, CarriedSound, Carrying, SettingSound, Steps, durable, live, handler, agentv, outcomes
  <2> QED
    BY <2>1, <2>2, <2>3, <2>4, <2>5, <2>6, <2>7
<1>18. CASE SetStopping
  <2>1. CarriedSound'
    BY <1>18 DEF SetStopping, LogState, JobSound, Executed, TypeOK, Snapshot, CarriedSound, Carrying, SlotSound, LogSound, MemorySound, SettingSound, Steps, durable, live, handler, agentv, outcomes
  <2>2. SettingSound'
    BY <1>18 DEF SetStopping, LogState, JobSound, Executed, TypeOK, Snapshot, CarriedSound, Carrying, SettingSound, SlotSound, LogSound, MemorySound, Steps, durable, live, handler, agentv, outcomes
  <2>3. SlotSound'
    BY <1>18 DEF SetStopping, LogState, JobSound, Executed, TypeOK, Snapshot, SlotSound, LogSound, CarriedSound, Carrying, MemorySound, SettingSound, Steps, durable, live, handler, agentv, outcomes
  <2>4. LogSound'
    BY <1>18 DEF SetStopping, LogState, JobSound, Executed, TypeOK, Snapshot, LogSound, CarriedSound, Carrying, SettingSound, Steps, durable, live, handler, agentv, outcomes
  <2>5. MemorySound'
    BY <1>18 DEF SetStopping, LogState, JobSound, Executed, TypeOK, Snapshot, MemorySound, SlotSound, CarriedSound, Carrying, SettingSound, Steps, durable, live, handler, agentv, outcomes
  <2>6. PromiseKept'
    BY <1>18 DEF SetStopping, LogState, JobSound, Executed, TypeOK, Snapshot, PromiseKept, MemorySound, CarriedSound, Carrying, SettingSound, Steps, durable, live, handler, agentv, outcomes
  <2>7. AcceptedWasWritten'
    BY <1>18 DEF SetStopping, LogState, JobSound, Executed, TypeOK, Snapshot, AcceptedWasWritten, CarriedSound, Carrying, SettingSound, Steps, durable, live, handler, agentv, outcomes
  <2> QED
    BY <2>1, <2>2, <2>3, <2>4, <2>5, <2>6, <2>7
<1>19. CASE WriteWire
  <2>1. CarriedSound'
    <3>1. CASE job.from = "auto"
      BY <1>19, <3>1 DEF WriteWire, CarriedSound, Carrying, Steps
    <3>2. CASE job.from # "auto"
      <4>1. job.id \in Clients /\ Carrying(job.id) /\ job.cmd.op # "stop"
        BY <1>19, <3>2 DEF WriteWire, JobSound, Carrying, Steps
      <4>2. written[job.id] = 0
        BY <1>19, <4>1 DEF WriteWire, CarriedSound
      <4>3. written' = [written EXCEPT ![job.id] = 1]
        BY <1>19, <3>2, <4>1, <4>2 DEF WriteWire
      <4> QED
        BY <1>19, <3>2, <4>1, <4>3
        DEF WriteWire, TypeOK, CarriedSound, Carrying, Steps, durable, live
    <3> QED
      BY <3>1, <3>2
  <2>2. SettingSound'
    BY <1>19 DEF WriteWire, JobSound, Executed, TypeOK, Snapshot, CarriedSound, Carrying, SettingSound, SlotSound, LogSound, MemorySound, Steps, durable, live, handler, agentv, outcomes
  <2>3. SlotSound'
    BY <1>19 DEF WriteWire, JobSound, Executed, TypeOK, Snapshot, SlotSound, LogSound, CarriedSound, Carrying, MemorySound, SettingSound, Steps, durable, live, handler, agentv, outcomes
  <2>4. LogSound'
    BY <1>19 DEF WriteWire, JobSound, Executed, TypeOK, Snapshot, LogSound, CarriedSound, Carrying, SettingSound, Steps, durable, live, handler, agentv, outcomes
  <2>5. MemorySound'
    BY <1>19 DEF WriteWire, JobSound, Executed, TypeOK, Snapshot, MemorySound, SlotSound, CarriedSound, Carrying, SettingSound, Steps, durable, live, handler, agentv, outcomes
  <2>6. PromiseKept'
    BY <1>19 DEF WriteWire, JobSound, Executed, TypeOK, Snapshot, PromiseKept, MemorySound, CarriedSound, Carrying, SettingSound, Steps, durable, live, handler, agentv, outcomes
  <2>7. AcceptedWasWritten'
    BY <1>19 DEF WriteWire, JobSound, Executed, TypeOK, Snapshot, AcceptedWasWritten, CarriedSound, Carrying, SettingSound, Steps, durable, live, handler, agentv, outcomes
  <2> QED
    BY <2>1, <2>2, <2>3, <2>4, <2>5, <2>6, <2>7
<1>20. CASE WireFails
  <2>1. CarriedSound'
    BY <1>20 DEF WireFails, Return, JobSound, Executed, TypeOK, Snapshot, CarriedSound, Carrying, SlotSound, LogSound, MemorySound, SettingSound, Steps, durable, live, handler, agentv, outcomes
  <2>2. SettingSound'
    BY <1>20 DEF WireFails, Return, JobSound, Executed, TypeOK, Snapshot, CarriedSound, Carrying, SettingSound, SlotSound, LogSound, MemorySound, Steps, durable, live, handler, agentv, outcomes
  <2>3. SlotSound'
    BY <1>20 DEF WireFails, Return, JobSound, Executed, TypeOK, Snapshot, SlotSound, LogSound, CarriedSound, Carrying, MemorySound, SettingSound, Steps, durable, live, handler, agentv, outcomes
  <2>4. LogSound'
    BY <1>20 DEF WireFails, Return, JobSound, Executed, TypeOK, Snapshot, LogSound, CarriedSound, Carrying, SettingSound, Steps, durable, live, handler, agentv, outcomes
  <2>5. MemorySound'
    BY <1>20 DEF WireFails, Return, JobSound, Executed, TypeOK, Snapshot, MemorySound, SlotSound, CarriedSound, Carrying, SettingSound, Steps, durable, live, handler, agentv, outcomes
  <2>6. PromiseKept'
    BY <1>20 DEF WireFails, Return, JobSound, Executed, TypeOK, Snapshot, PromiseKept, MemorySound, CarriedSound, Carrying, SettingSound, Steps, durable, live, handler, agentv, outcomes
  <2>7. AcceptedWasWritten'
    BY <1>20 DEF WireFails, Return, JobSound, Executed, TypeOK, Snapshot, AcceptedWasWritten, CarriedSound, Carrying, SettingSound, Steps, durable, live, handler, agentv, outcomes
  <2> QED
    BY <2>1, <2>2, <2>3, <2>4, <2>5, <2>6, <2>7
<1>21. CASE WriteReceipt
  <2>1. CarriedSound'
    BY <1>21 DEF WriteReceipt, Remember, JobSound, Executed, TypeOK, Snapshot, AfterIntent, DownSound, CarriedSound, Carrying, SlotSound, LogSound, MemorySound, SettingSound, Steps, durable, live, handler, agentv, outcomes
  <2>2. SettingSound'
    BY <1>21 DEF WriteReceipt, Remember, JobSound, Executed, TypeOK, Snapshot, AfterIntent, DownSound, CarriedSound, Carrying, SettingSound, SlotSound, LogSound, MemorySound, Steps, durable, live, handler, agentv, outcomes
  <2>3. SlotSound'
    BY <1>21 DEF WriteReceipt, Remember, JobSound, Executed, TypeOK, Snapshot, AfterIntent, DownSound, SlotSound, LogSound, CarriedSound, Carrying, MemorySound, SettingSound, Steps, durable, live, handler, agentv, outcomes
  <2>4. LogSound'
    BY <1>21 DEF WriteReceipt, Remember, JobSound, Executed, TypeOK, Snapshot, AfterIntent, DownSound, LogSound, CarriedSound, Carrying, SettingSound, Steps, durable, live, handler, agentv, outcomes
  <2>5. MemorySound'
    BY <1>21 DEF WriteReceipt, Remember, JobSound, Executed, TypeOK, Snapshot, AfterIntent, DownSound, MemorySound, SlotSound, CarriedSound, Carrying, SettingSound, Steps, durable, live, handler, agentv, outcomes
  <2>6. PromiseKept'
    BY <1>21 DEF WriteReceipt, Remember, JobSound, Executed, TypeOK, Snapshot, AfterIntent, DownSound, PromiseKept, MemorySound, CarriedSound, Carrying, SettingSound, Steps, durable, live, handler, agentv, outcomes
  <2>7. AcceptedWasWritten'
    BY <1>21 DEF WriteReceipt, Remember, JobSound, Executed, TypeOK, Snapshot, AfterIntent, DownSound, AcceptedWasWritten, CarriedSound, Carrying, SettingSound, Steps, durable, live, handler, agentv, outcomes
  <2> QED
    BY <2>1, <2>2, <2>3, <2>4, <2>5, <2>6, <2>7
<1>22. CASE WriteSetting
  <2>1. CarriedSound'
    BY <1>22 DEF WriteSetting, Remember, JobSound, Executed, TypeOK, Snapshot, DownSound, CarriedSound, Carrying, SlotSound, LogSound, MemorySound, SettingSound, Steps, durable, live, handler, agentv, outcomes
  <2>2. SettingSound'
    BY <1>22 DEF WriteSetting, Remember, JobSound, Executed, TypeOK, Snapshot, DownSound, CarriedSound, Carrying, SettingSound, SlotSound, LogSound, MemorySound, Steps, durable, live, handler, agentv, outcomes
  <2>3. SlotSound'
    BY <1>22 DEF WriteSetting, Remember, JobSound, Executed, TypeOK, Snapshot, DownSound, SlotSound, LogSound, CarriedSound, Carrying, MemorySound, SettingSound, Steps, durable, live, handler, agentv, outcomes
  <2>4. LogSound'
    BY <1>22 DEF WriteSetting, Remember, JobSound, Executed, TypeOK, Snapshot, DownSound, LogSound, CarriedSound, Carrying, SettingSound, Steps, durable, live, handler, agentv, outcomes
  <2>5. MemorySound'
    BY <1>22 DEF WriteSetting, Remember, JobSound, Executed, TypeOK, Snapshot, DownSound, MemorySound, SlotSound, CarriedSound, Carrying, SettingSound, Steps, durable, live, handler, agentv, outcomes
  <2>6. PromiseKept'
    BY <1>22 DEF WriteSetting, Remember, JobSound, Executed, TypeOK, Snapshot, DownSound, PromiseKept, MemorySound, CarriedSound, Carrying, SettingSound, Steps, durable, live, handler, agentv, outcomes
  <2>7. AcceptedWasWritten'
    BY <1>22 DEF WriteSetting, Remember, JobSound, Executed, TypeOK, Snapshot, DownSound, AcceptedWasWritten, CarriedSound, Carrying, SettingSound, Steps, durable, live, handler, agentv, outcomes
  <2> QED
    BY <2>1, <2>2, <2>3, <2>4, <2>5, <2>6, <2>7
<1>23. CASE ApprovePending
  <2>1. CarriedSound'
    BY <1>23 DEF ApprovePending, Begin, Approvable, JobSound, Executed, TypeOK, Snapshot, CarriedSound, Carrying, SlotSound, LogSound, MemorySound, SettingSound, Steps, durable, live, handler, agentv, outcomes
  <2>2. SettingSound'
    BY <1>23 DEF ApprovePending, Begin, Approvable, JobSound, Executed, TypeOK, Snapshot, CarriedSound, Carrying, SettingSound, SlotSound, LogSound, MemorySound, Steps, durable, live, handler, agentv, outcomes
  <2>3. SlotSound'
    BY <1>23 DEF ApprovePending, Begin, Approvable, JobSound, Executed, TypeOK, Snapshot, SlotSound, LogSound, CarriedSound, Carrying, MemorySound, SettingSound, Steps, durable, live, handler, agentv, outcomes
  <2>4. LogSound'
    BY <1>23 DEF ApprovePending, Begin, Approvable, JobSound, Executed, TypeOK, Snapshot, LogSound, CarriedSound, Carrying, SettingSound, Steps, durable, live, handler, agentv, outcomes
  <2>5. MemorySound'
    BY <1>23 DEF ApprovePending, Begin, Approvable, JobSound, Executed, TypeOK, Snapshot, MemorySound, SlotSound, CarriedSound, Carrying, SettingSound, Steps, durable, live, handler, agentv, outcomes
  <2>6. PromiseKept'
    BY <1>23 DEF ApprovePending, Begin, Approvable, JobSound, Executed, TypeOK, Snapshot, PromiseKept, MemorySound, CarriedSound, Carrying, SettingSound, Steps, durable, live, handler, agentv, outcomes
  <2>7. AcceptedWasWritten'
    BY <1>23 DEF ApprovePending, Begin, Approvable, JobSound, Executed, TypeOK, Snapshot, AcceptedWasWritten, CarriedSound, Carrying, SettingSound, Steps, durable, live, handler, agentv, outcomes
  <2> QED
    BY <2>1, <2>2, <2>3, <2>4, <2>5, <2>6, <2>7
<1>24. CASE Demote
  <2>1. Frame
    BY <1>24 DEF Frame, Busy, Steps, Demote, LogMode, TypeOK, Snapshot, DownSound, durable, live, handler, agentv, outcomes
  <2> QED
    BY <2>1, FrameStep
<1>25. CASE DeliverQueued
  <2>1. CarriedSound'
    BY <1>25 DEF DeliverQueued, MayDeliver, MayBegin, NoReceipt, JobSound, Executed, TypeOK, Snapshot, CarriedSound, Carrying, SlotSound, LogSound, MemorySound, SettingSound, Steps, durable, live, handler, agentv, outcomes
  <2>2. SettingSound'
    BY <1>25 DEF DeliverQueued, MayDeliver, MayBegin, NoReceipt, JobSound, Executed, TypeOK, Snapshot, CarriedSound, Carrying, SettingSound, SlotSound, LogSound, MemorySound, Steps, durable, live, handler, agentv, outcomes
  <2>3. SlotSound'
    BY <1>25 DEF DeliverQueued, MayDeliver, MayBegin, NoReceipt, JobSound, Executed, TypeOK, Snapshot, SlotSound, LogSound, CarriedSound, Carrying, MemorySound, SettingSound, Steps, durable, live, handler, agentv, outcomes
  <2>4. LogSound'
    BY <1>25 DEF DeliverQueued, MayDeliver, MayBegin, NoReceipt, JobSound, Executed, TypeOK, Snapshot, LogSound, CarriedSound, Carrying, SettingSound, Steps, durable, live, handler, agentv, outcomes
  <2>5. MemorySound'
    BY <1>25 DEF DeliverQueued, MayDeliver, MayBegin, NoReceipt, JobSound, Executed, TypeOK, Snapshot, MemorySound, SlotSound, CarriedSound, Carrying, SettingSound, Steps, durable, live, handler, agentv, outcomes
  <2>6. PromiseKept'
    BY <1>25 DEF DeliverQueued, MayDeliver, MayBegin, NoReceipt, JobSound, Executed, TypeOK, Snapshot, PromiseKept, MemorySound, CarriedSound, Carrying, SettingSound, Steps, durable, live, handler, agentv, outcomes
  <2>7. AcceptedWasWritten'
    BY <1>25 DEF DeliverQueued, MayDeliver, MayBegin, NoReceipt, JobSound, Executed, TypeOK, Snapshot, AcceptedWasWritten, CarriedSound, Carrying, SettingSound, Steps, durable, live, handler, agentv, outcomes
  <2> QED
    BY <2>1, <2>2, <2>3, <2>4, <2>5, <2>6, <2>7
<1>26. CASE ReapClear
  <2>1. Frame
    BY <1>26 DEF Frame, Busy, Steps, ReapClear, CancelOne, TypeOK, Snapshot, DownSound, durable, live, handler, agentv, outcomes
  <2> QED
    BY <2>1, FrameStep
<1>27. CASE ReapEnd
  <2>1. Frame
    BY <1>27 DEF Frame, Busy, Steps, ReapEnd, LogState, TypeOK, Snapshot, DownSound, durable, live, handler, agentv, outcomes
  <2> QED
    BY <2>1, FrameStep
<1>28. CASE Kill
  <2>1. Frame
    BY <1>28 DEF Frame, Busy, Steps, Kill, TypeOK, Snapshot, DownSound, durable, live, handler, agentv, outcomes
  <2> QED
    BY <2>1, FrameStep
<1>29. CASE Say
  <2>1. Frame
    BY <1>29 DEF Frame, Busy, Steps, Say, Line, Served, TypeOK, Snapshot, DownSound, durable, live, handler, agentv, outcomes
  <2> QED
    BY <2>1, FrameStep
<1>30. CASE InitializeAnswered
  <2>1. Frame
    BY <1>30 DEF Frame, Busy, Steps, InitializeAnswered, LogState, Line, Served, TypeOK, Snapshot, DownSound, durable, live, handler, agentv, outcomes
  <2> QED
    BY <2>1, FrameStep
<1>31. CASE InitializeRefused
  <2>1. Frame
    BY <1>31 DEF Frame, Busy, Steps, InitializeRefused, LogState, Line, Served, TypeOK, Snapshot, DownSound, durable, live, handler, agentv, outcomes
  <2> QED
    BY <2>1, FrameStep
<1>32. CASE Result
  <2>1. Frame
    BY <1>32 DEF Frame, Busy, Steps, Result, Line, Served, TypeOK, Snapshot, DownSound, durable, live, handler, agentv, outcomes
  <2> QED
    BY <2>1, FrameStep
<1>33. CASE SettingAnswered
  <2>1. CarriedSound'
    BY <1>33 DEF SettingAnswered, Remember, Served, Line, JobSound, Executed, TypeOK, Snapshot, CarriedSound, Carrying, SlotSound, LogSound, MemorySound, SettingSound, Steps, durable, live, handler, agentv, outcomes
  <2>2. SettingSound'
    BY <1>33 DEF SettingAnswered, Remember, Served, Line, JobSound, Executed, TypeOK, Snapshot, CarriedSound, Carrying, SettingSound, SlotSound, LogSound, MemorySound, Steps, durable, live, handler, agentv, outcomes
  <2>3. SlotSound'
    BY <1>33 DEF SettingAnswered, Remember, Served, Line, JobSound, Executed, TypeOK, Snapshot, SlotSound, LogSound, CarriedSound, Carrying, MemorySound, SettingSound, Steps, durable, live, handler, agentv, outcomes
  <2>4. LogSound'
    BY <1>33 DEF SettingAnswered, Remember, Served, Line, JobSound, Executed, TypeOK, Snapshot, LogSound, CarriedSound, Carrying, SettingSound, Steps, durable, live, handler, agentv, outcomes
  <2>5. MemorySound'
    BY <1>33 DEF SettingAnswered, Remember, Served, Line, JobSound, Executed, TypeOK, Snapshot, MemorySound, SlotSound, CarriedSound, Carrying, SettingSound, Steps, durable, live, handler, agentv, outcomes
  <2>6. PromiseKept'
    BY <1>33 DEF SettingAnswered, Remember, Served, Line, JobSound, Executed, TypeOK, Snapshot, PromiseKept, MemorySound, CarriedSound, Carrying, SettingSound, Steps, durable, live, handler, agentv, outcomes
  <2>7. AcceptedWasWritten'
    BY <1>33 DEF SettingAnswered, Remember, Served, Line, JobSound, Executed, TypeOK, Snapshot, AcceptedWasWritten, CarriedSound, Carrying, SettingSound, Steps, durable, live, handler, agentv, outcomes
  <2> QED
    BY <2>1, <2>2, <2>3, <2>4, <2>5, <2>6, <2>7
<1>34. CASE Quit
  <2>1. Frame
    BY <1>34 DEF Frame, Busy, Steps, Quit, TypeOK, Snapshot, DownSound, durable, live, handler, agentv, outcomes
  <2> QED
    BY <2>1, FrameStep
<1>35. CASE Overflow
  <2>1. Frame
    BY <1>35 DEF Frame, Busy, Steps, Overflow, Served, TypeOK, Snapshot, DownSound, durable, live, handler, agentv, outcomes
  <2> QED
    BY <2>1, FrameStep
<1>36. CASE Canceled
  <2>1. Frame
    BY <1>36 DEF Frame, Busy, Steps, Canceled, TypeOK, Snapshot, DownSound, durable, live, handler, agentv, outcomes
  <2> QED
    BY <2>1, FrameStep
<1>37. CASE Reap
  <2>1. Frame
    BY <1>37 DEF Frame, Busy, Steps, Reap, Served, TypeOK, Snapshot, DownSound, durable, live, handler, agentv, outcomes
  <2> QED
    BY <2>1, FrameStep
<1>38. ASSUME NEW c \in Clients, NEW cmd \in Submitted, Retry(c, cmd)
      PROVE  DeliverySound'
  <2>1. CarriedSound'
    BY <1>38 DEF Retry, Served, Fresh, CarriedSound, Carrying, SlotSound, LogSound, MemorySound, SettingSound, Steps, durable, live, handler, agentv, outcomes
  <2>2. SettingSound'
    BY <1>38 DEF Retry, Served, Fresh, CarriedSound, Carrying, SettingSound, SlotSound, LogSound, MemorySound, Steps, durable, live, handler, agentv, outcomes
  <2>3. SlotSound'
    BY <1>38 DEF Retry, Served, Fresh, SlotSound, LogSound, CarriedSound, Carrying, MemorySound, SettingSound, Steps, durable, live, handler, agentv, outcomes
  <2>4. LogSound'
    BY <1>38 DEF Retry, Served, Fresh, LogSound, CarriedSound, Carrying, SettingSound, Steps, durable, live, handler, agentv, outcomes
  <2>5. MemorySound'
    BY <1>38 DEF Retry, Served, Fresh, MemorySound, SlotSound, CarriedSound, Carrying, SettingSound, Steps, durable, live, handler, agentv, outcomes
  <2>6. PromiseKept'
    BY <1>38 DEF Retry, Served, Fresh, PromiseKept, MemorySound, CarriedSound, Carrying, SettingSound, Steps, durable, live, handler, agentv, outcomes
  <2>7. AcceptedWasWritten'
    BY <1>38 DEF Retry, Served, Fresh, AcceptedWasWritten, CarriedSound, Carrying, SettingSound, Steps, durable, live, handler, agentv, outcomes
  <2> QED
    BY <2>1, <2>2, <2>3, <2>4, <2>5, <2>6, <2>7
<1>39. ASSUME NEW c \in Clients, NEW cmd \in Submitted, SendNow(c, cmd)
      PROVE  DeliverySound'
  <2>1. CarriedSound'
    BY <1>39 DEF SendNow, Begin, Served, Fresh, TypeOK, Snapshot, DownSound, CarriedSound, Carrying, SlotSound, LogSound, MemorySound, SettingSound, Steps, durable, live, handler, agentv, outcomes
  <2>2. SettingSound'
    BY <1>39 DEF SendNow, Begin, Served, Fresh, TypeOK, Snapshot, DownSound, CarriedSound, Carrying, SettingSound, SlotSound, LogSound, MemorySound, Steps, durable, live, handler, agentv, outcomes
  <2>3. SlotSound'
    BY <1>39 DEF SendNow, Begin, Served, Fresh, TypeOK, Snapshot, DownSound, SlotSound, LogSound, CarriedSound, Carrying, MemorySound, SettingSound, Steps, durable, live, handler, agentv, outcomes
  <2>4. LogSound'
    BY <1>39 DEF SendNow, Begin, Served, Fresh, TypeOK, Snapshot, DownSound, LogSound, CarriedSound, Carrying, SettingSound, Steps, durable, live, handler, agentv, outcomes
  <2>5. MemorySound'
    BY <1>39 DEF SendNow, Begin, Served, Fresh, TypeOK, Snapshot, DownSound, MemorySound, SlotSound, CarriedSound, Carrying, SettingSound, Steps, durable, live, handler, agentv, outcomes
  <2>6. PromiseKept'
    BY <1>39 DEF SendNow, Begin, Served, Fresh, TypeOK, Snapshot, DownSound, PromiseKept, MemorySound, CarriedSound, Carrying, SettingSound, Steps, durable, live, handler, agentv, outcomes
  <2>7. AcceptedWasWritten'
    BY <1>39 DEF SendNow, Begin, Served, Fresh, TypeOK, Snapshot, DownSound, AcceptedWasWritten, CarriedSound, Carrying, SettingSound, Steps, durable, live, handler, agentv, outcomes
  <2> QED
    BY <2>1, <2>2, <2>3, <2>4, <2>5, <2>6, <2>7
<1>40. ASSUME NEW c \in Clients, NEW cmd \in Submitted, Enqueue(c, cmd)
      PROVE  DeliverySound'
  <2>1. CarriedSound'
    BY <1>40 DEF Enqueue, Served, Fresh, LogQueued, TypeOK, Snapshot, DownSound, CarriedSound, Carrying, SlotSound, LogSound, MemorySound, SettingSound, Steps, durable, live, handler, agentv, outcomes
  <2>2. SettingSound'
    BY <1>40 DEF Enqueue, Served, Fresh, LogQueued, TypeOK, Snapshot, DownSound, CarriedSound, Carrying, SettingSound, SlotSound, LogSound, MemorySound, Steps, durable, live, handler, agentv, outcomes
  <2>3. SlotSound'
    BY <1>40 DEF Enqueue, Served, Fresh, LogQueued, TypeOK, Snapshot, DownSound, SlotSound, LogSound, CarriedSound, Carrying, MemorySound, SettingSound, Steps, durable, live, handler, agentv, outcomes
  <2>4. LogSound'
    BY <1>40 DEF Enqueue, Served, Fresh, LogQueued, TypeOK, Snapshot, DownSound, LogSound, CarriedSound, Carrying, SettingSound, Steps, durable, live, handler, agentv, outcomes
  <2>5. MemorySound'
    BY <1>40 DEF Enqueue, Served, Fresh, LogQueued, TypeOK, Snapshot, DownSound, MemorySound, SlotSound, CarriedSound, Carrying, SettingSound, Steps, durable, live, handler, agentv, outcomes
  <2>6. PromiseKept'
    BY <1>40 DEF Enqueue, Served, Fresh, LogQueued, TypeOK, Snapshot, DownSound, PromiseKept, MemorySound, CarriedSound, Carrying, SettingSound, Steps, durable, live, handler, agentv, outcomes
  <2>7. AcceptedWasWritten'
    BY <1>40 DEF Enqueue, Served, Fresh, LogQueued, TypeOK, Snapshot, DownSound, AcceptedWasWritten, CarriedSound, Carrying, SettingSound, Steps, durable, live, handler, agentv, outcomes
  <2> QED
    BY <2>1, <2>2, <2>3, <2>4, <2>5, <2>6, <2>7
<1>41. ASSUME NEW c \in Clients, NEW cmd \in Submitted, Unqueue(c, cmd)
      PROVE  DeliverySound'
  <2>1. CarriedSound'
    BY <1>41 DEF Unqueue, Served, Fresh, LogQueued, TypeOK, Snapshot, DownSound, CarriedSound, Carrying, SlotSound, LogSound, MemorySound, SettingSound, Steps, durable, live, handler, agentv, outcomes
  <2>2. SettingSound'
    BY <1>41 DEF Unqueue, Served, Fresh, LogQueued, TypeOK, Snapshot, DownSound, CarriedSound, Carrying, SettingSound, SlotSound, LogSound, MemorySound, Steps, durable, live, handler, agentv, outcomes
  <2>3. SlotSound'
    BY <1>41 DEF Unqueue, Served, Fresh, LogQueued, TypeOK, Snapshot, DownSound, SlotSound, LogSound, CarriedSound, Carrying, MemorySound, SettingSound, Steps, durable, live, handler, agentv, outcomes
  <2>4. LogSound'
    BY <1>41 DEF Unqueue, Served, Fresh, LogQueued, TypeOK, Snapshot, DownSound, LogSound, CarriedSound, Carrying, SettingSound, Steps, durable, live, handler, agentv, outcomes
  <2>5. MemorySound'
    BY <1>41 DEF Unqueue, Served, Fresh, LogQueued, TypeOK, Snapshot, DownSound, MemorySound, SlotSound, CarriedSound, Carrying, SettingSound, Steps, durable, live, handler, agentv, outcomes
  <2>6. PromiseKept'
    BY <1>41 DEF Unqueue, Served, Fresh, LogQueued, TypeOK, Snapshot, DownSound, PromiseKept, MemorySound, CarriedSound, Carrying, SettingSound, Steps, durable, live, handler, agentv, outcomes
  <2>7. AcceptedWasWritten'
    BY <1>41 DEF Unqueue, Served, Fresh, LogQueued, TypeOK, Snapshot, DownSound, AcceptedWasWritten, CarriedSound, Carrying, SettingSound, Steps, durable, live, handler, agentv, outcomes
  <2> QED
    BY <2>1, <2>2, <2>3, <2>4, <2>5, <2>6, <2>7
<1>42. ASSUME NEW c \in Clients, NEW cmd \in Submitted, Execute(c, cmd)
      PROVE  DeliverySound'
  <2>1. CarriedSound'
    BY <1>42 DEF Execute, Begin, MayRun, Served, Fresh, TypeOK, Snapshot, DownSound, CarriedSound, Carrying, SlotSound, LogSound, MemorySound, SettingSound, Steps, durable, live, handler, agentv, outcomes
  <2>2. SettingSound'
    BY <1>42 DEF Execute, Begin, MayRun, Served, Fresh, TypeOK, Snapshot, DownSound, CarriedSound, Carrying, SettingSound, SlotSound, LogSound, MemorySound, Steps, durable, live, handler, agentv, outcomes
  <2>3. SlotSound'
    BY <1>42 DEF Execute, Begin, MayRun, Served, Fresh, TypeOK, Snapshot, DownSound, SlotSound, LogSound, CarriedSound, Carrying, MemorySound, SettingSound, Steps, durable, live, handler, agentv, outcomes
  <2>4. LogSound'
    BY <1>42 DEF Execute, Begin, MayRun, Served, Fresh, TypeOK, Snapshot, DownSound, LogSound, CarriedSound, Carrying, SettingSound, Steps, durable, live, handler, agentv, outcomes
  <2>5. MemorySound'
    BY <1>42 DEF Execute, Begin, MayRun, Served, Fresh, TypeOK, Snapshot, DownSound, MemorySound, SlotSound, CarriedSound, Carrying, SettingSound, Steps, durable, live, handler, agentv, outcomes
  <2>6. PromiseKept'
    BY <1>42 DEF Execute, Begin, MayRun, Served, Fresh, TypeOK, Snapshot, DownSound, PromiseKept, MemorySound, CarriedSound, Carrying, SettingSound, Steps, durable, live, handler, agentv, outcomes
  <2>7. AcceptedWasWritten'
    BY <1>42 DEF Execute, Begin, MayRun, Served, Fresh, TypeOK, Snapshot, DownSound, AcceptedWasWritten, CarriedSound, Carrying, SettingSound, Steps, durable, live, handler, agentv, outcomes
  <2> QED
    BY <2>1, <2>2, <2>3, <2>4, <2>5, <2>6, <2>7
<1>43. ASSUME NEW c \in Clients, NEW cmd \in Submitted, SetPermission(c, cmd)
      PROVE  DeliverySound'
  <2>1. CarriedSound'
    BY <1>43 DEF SetPermission, Remember, Served, Fresh, LogMode, TypeOK, Snapshot, DownSound, CarriedSound, Carrying, SlotSound, LogSound, MemorySound, SettingSound, Steps, durable, live, handler, agentv, outcomes
  <2>2. SettingSound'
    BY <1>43 DEF SetPermission, Remember, Served, Fresh, LogMode, TypeOK, Snapshot, DownSound, CarriedSound, Carrying, SettingSound, SlotSound, LogSound, MemorySound, Steps, durable, live, handler, agentv, outcomes
  <2>3. SlotSound'
    BY <1>43 DEF SetPermission, Remember, Served, Fresh, LogMode, TypeOK, Snapshot, DownSound, SlotSound, LogSound, CarriedSound, Carrying, MemorySound, SettingSound, Steps, durable, live, handler, agentv, outcomes
  <2>4. LogSound'
    BY <1>43 DEF SetPermission, Remember, Served, Fresh, LogMode, TypeOK, Snapshot, DownSound, LogSound, CarriedSound, Carrying, SettingSound, Steps, durable, live, handler, agentv, outcomes
  <2>5. MemorySound'
    BY <1>43 DEF SetPermission, Remember, Served, Fresh, LogMode, TypeOK, Snapshot, DownSound, MemorySound, SlotSound, CarriedSound, Carrying, SettingSound, Steps, durable, live, handler, agentv, outcomes
  <2>6. PromiseKept'
    BY <1>43 DEF SetPermission, Remember, Served, Fresh, LogMode, TypeOK, Snapshot, DownSound, PromiseKept, MemorySound, CarriedSound, Carrying, SettingSound, Steps, durable, live, handler, agentv, outcomes
  <2>7. AcceptedWasWritten'
    BY <1>43 DEF SetPermission, Remember, Served, Fresh, LogMode, TypeOK, Snapshot, DownSound, AcceptedWasWritten, CarriedSound, Carrying, SettingSound, Steps, durable, live, handler, agentv, outcomes
  <2> QED
    BY <2>1, <2>2, <2>3, <2>4, <2>5, <2>6, <2>7
<1>44. ASSUME NEW c \in Clients, NEW cmd \in Submitted, Configure(c, cmd)
      PROVE  DeliverySound'
  <2>1. CarriedSound'
    BY <1>44 DEF Configure, Remember, Served, Fresh, TypeOK, Snapshot, DownSound, CarriedSound, Carrying, SlotSound, LogSound, MemorySound, SettingSound, Steps, durable, live, handler, agentv, outcomes
  <2>2. SettingSound'
    BY <1>44 DEF Configure, Remember, Served, Fresh, TypeOK, Snapshot, DownSound, CarriedSound, Carrying, SettingSound, SlotSound, LogSound, MemorySound, Steps, durable, live, handler, agentv, outcomes
  <2>3. SlotSound'
    BY <1>44 DEF Configure, Remember, Served, Fresh, TypeOK, Snapshot, DownSound, SlotSound, LogSound, CarriedSound, Carrying, MemorySound, SettingSound, Steps, durable, live, handler, agentv, outcomes
  <2>4. LogSound'
    BY <1>44 DEF Configure, Remember, Served, Fresh, TypeOK, Snapshot, DownSound, LogSound, CarriedSound, Carrying, SettingSound, Steps, durable, live, handler, agentv, outcomes
  <2>5. MemorySound'
    BY <1>44 DEF Configure, Remember, Served, Fresh, TypeOK, Snapshot, DownSound, MemorySound, SlotSound, CarriedSound, Carrying, SettingSound, Steps, durable, live, handler, agentv, outcomes
  <2>6. PromiseKept'
    BY <1>44 DEF Configure, Remember, Served, Fresh, TypeOK, Snapshot, DownSound, PromiseKept, MemorySound, CarriedSound, Carrying, SettingSound, Steps, durable, live, handler, agentv, outcomes
  <2>7. AcceptedWasWritten'
    BY <1>44 DEF Configure, Remember, Served, Fresh, TypeOK, Snapshot, DownSound, AcceptedWasWritten, CarriedSound, Carrying, SettingSound, Steps, durable, live, handler, agentv, outcomes
  <2> QED
    BY <2>1, <2>2, <2>3, <2>4, <2>5, <2>6, <2>7
<1>45. ASSUME NEW c \in Clients, NEW cmd \in Submitted, ShowCatalog(c, cmd)
      PROVE  DeliverySound'
  <2>1. CarriedSound'
    BY <1>45 DEF ShowCatalog, Remember, Served, Fresh, TypeOK, Snapshot, DownSound, CarriedSound, Carrying, SlotSound, LogSound, MemorySound, SettingSound, Steps, durable, live, handler, agentv, outcomes
  <2>2. SettingSound'
    BY <1>45 DEF ShowCatalog, Remember, Served, Fresh, TypeOK, Snapshot, DownSound, CarriedSound, Carrying, SettingSound, SlotSound, LogSound, MemorySound, Steps, durable, live, handler, agentv, outcomes
  <2>3. SlotSound'
    BY <1>45 DEF ShowCatalog, Remember, Served, Fresh, TypeOK, Snapshot, DownSound, SlotSound, LogSound, CarriedSound, Carrying, MemorySound, SettingSound, Steps, durable, live, handler, agentv, outcomes
  <2>4. LogSound'
    BY <1>45 DEF ShowCatalog, Remember, Served, Fresh, TypeOK, Snapshot, DownSound, LogSound, CarriedSound, Carrying, SettingSound, Steps, durable, live, handler, agentv, outcomes
  <2>5. MemorySound'
    BY <1>45 DEF ShowCatalog, Remember, Served, Fresh, TypeOK, Snapshot, DownSound, MemorySound, SlotSound, CarriedSound, Carrying, SettingSound, Steps, durable, live, handler, agentv, outcomes
  <2>6. PromiseKept'
    BY <1>45 DEF ShowCatalog, Remember, Served, Fresh, TypeOK, Snapshot, DownSound, PromiseKept, MemorySound, CarriedSound, Carrying, SettingSound, Steps, durable, live, handler, agentv, outcomes
  <2>7. AcceptedWasWritten'
    BY <1>45 DEF ShowCatalog, Remember, Served, Fresh, TypeOK, Snapshot, DownSound, AcceptedWasWritten, CarriedSound, Carrying, SettingSound, Steps, durable, live, handler, agentv, outcomes
  <2> QED
    BY <2>1, <2>2, <2>3, <2>4, <2>5, <2>6, <2>7
<1>46. ASSUME NEW r \in Requests, Ask(r)
      PROVE  DeliverySound'
  <2>1. Frame
    BY <1>46 DEF Frame, Busy, Steps, Ask, Line, Served, TypeOK, Snapshot, DownSound, durable, live, handler, agentv, outcomes
  <2> QED
    BY <2>1, FrameStep
<1>47. ASSUME NEW r \in Requests, Cancel(r)
      PROVE  DeliverySound'
  <2>1. Frame
    BY <1>47 DEF Frame, Busy, Steps, Cancel, Line, Served, TypeOK, Snapshot, DownSound, durable, live, handler, agentv, outcomes
  <2> QED
    BY <2>1, FrameStep
<1> QED
  BY <1>1, <1>2, <1>3, <1>4, <1>5, <1>6, <1>7, <1>8, <1>9, <1>10, <1>11,
     <1>12, <1>13, <1>14, <1>15, <1>16, <1>17, <1>18, <1>19, <1>20, <1>21, <1>22,
     <1>23, <1>24, <1>25, <1>26, <1>27, <1>28, <1>29, <1>30, <1>31, <1>32, <1>33,
     <1>34, <1>35, <1>36, <1>37, <1>38, <1>39, <1>40, <1>41, <1>42, <1>43, <1>44,
     <1>45, <1>46, <1>47
  DEF Next, Boot, Submit, Locked, Speak

-----------------------------------------------------------------------------
LEMMA Initially == Init => IInv
<1> SUFFICES ASSUME Init PROVE IInv
  OBVIOUS
<1> USE SupervisorAssumption DEF Init
<1>1. TypeOK
  <2>1. disk \in Projected
    BY DEF Projected, States, Modes
  <2>2. written \in [Clients -> Nat]
    OBVIOUS
  <2>3. stopping \in BOOLEAN /\ killing \in BOOLEAN /\ turn \in BOOLEAN
    OBVIOUS
  <2>4. /\ book \in [Clients -> Receipt] /\ receipts \in [Clients -> Receipt]
        /\ told \in [Clients -> Receipt] /\ snap \in Snapshot
        /\ job \in [id : Clients \cup {None}, cmd : Command,
                    from : {"client", "auto", "queue"}]
    BY BlankType
  <2> QED
    BY <2>1, <2>2, <2>3, <2>4 DEF TypeOK
<1>2. DownSound /\ JobSound
  BY DEF DownSound, JobSound, Steps
<1>3. CarriedSound /\ SettingSound /\ SlotSound
  BY DEF CarriedSound, Carrying, SettingSound, SlotSound, Steps, NoSnapshot
<1>4. LogSound /\ MemorySound /\ PromiseKept /\ AcceptedWasWritten
  BY DEF LogSound, MemorySound, PromiseKept, AcceptedWasWritten, NoReceipts,
         NoReceipt
<1> QED
  BY <1>1, <1>2, <1>3, <1>4 DEF IInv, DeliverySound

LEMMA Inductive == IInv /\ [Next]_vars => IInv'
  BY TypeStep, JobStep, DeliveryStep DEF IInv

LEMMA Invariant == Spec => []IInv
  BY Initially, Inductive, PTL DEF Spec

(* Every variable keeps its range, through crashes and restarts.           *)
THEOREM TypeCorrect == Spec => []TypeOK
<1>1. IInv => TypeOK
  BY DEF IInv
<1> QED
  BY Invariant, <1>1, PTL

(* executeLocked, its retries, the queue and recovery never give the agent *)
(* the same command twice.                                                 *)
THEOREM DeliveredAtMostOnce == Spec => []AtMostOnce
<1>1. IInv => AtMostOnce
  <2>1. ASSUME IInv, NEW c \in Clients PROVE written[c] <= 1
    <3>1. written[c] = 0 \/ written[c] = 1
      BY <2>1 DEF IInv, DeliverySound, LogSound
    <3> QED
      BY <3>1
  <2> QED
    BY <2>1 DEF AtMostOnce
<1> QED
  BY Invariant, <1>1, PTL

(* What the agent was given, the log had recorded first.                   *)
THEOREM LoggedBeforeWritten == Spec => []WriteAhead
<1>1. IInv => WriteAhead
  BY DEF IInv, DeliverySound, LogSound, WriteAhead
<1> QED
  BY Invariant, <1>1, PTL

(* An answer of "accepted" outlives the process that gave it.              *)
THEOREM AcceptedIsDurable == Spec => []PromiseKept
<1>1. IInv => PromiseKept
  BY DEF IInv, DeliverySound
<1> QED
  BY Invariant, <1>1, PTL

(* A durable "accepted" means the agent has the command.                   *)
THEOREM AcceptedMeansWritten == Spec => []AcceptedWasWritten
<1>1. IInv => AcceptedWasWritten
  BY DEF IInv, DeliverySound
<1> QED
  BY Invariant, <1>1, PTL

(* The receipts a run starts from stay as good as the log's.               *)
THEOREM MemoryFollowsLog == Spec => []MemoryKnowsLog
<1>1. IInv => MemoryKnowsLog
  BY DEF IInv, DeliverySound, MemorySound, MemoryKnowsLog
<1> QED
  BY Invariant, <1>1, PTL

-----------------------------------------------------------------------------
(* Supervisor implements Delivery.                                         *)

StageMap == [c \in Clients |-> Stage(c)]

LEMMA StageStays ==
    ASSUME UNCHANGED <<book, written>>
    PROVE  UNCHANGED <<StageMap, written>>
  BY DEF StageMap, Stage

LEMMA Logging ==
    ASSUME LogSound, book \in [Clients -> Receipt], UNCHANGED written,
           NEW c \in Clients, NEW cmd, book[c].status = "none",
           book' = [book EXCEPT ![c] = [cmd |-> cmd,
                                        status |-> "delivery_unknown"]]
    PROVE  Promise!Log(c)
<1>1. \A d \in Clients \ {c} : book'[d] = book[d]
  OBVIOUS
<1>2. book'[c].status = "delivery_unknown"
  OBVIOUS
<1> QED
  BY <1>1, <1>2 DEF Promise!Log, Stage

LEMMA Settling ==
    ASSUME UNCHANGED written, NEW c \in Clients,
           book[c].status \in {"none", "delivery_unknown"},
           book'[c].status \in {"accepted", "rejected"},
           \A d \in Clients \ {c} : book'[d] = book[d]
    PROVE  Promise!Settle(c)
  BY DEF Promise!Settle, Stage

LEMMA Delivering ==
    ASSUME book \in [Clients -> Receipt], written \in [Clients -> Nat],
           UNCHANGED book, NEW c \in Clients,
           book[c].status = "delivery_unknown", written[c] = 0,
           written' = [written EXCEPT ![c] = written[c] + 1]
    PROVE  Promise!Deliver(c)
<1>1. written' = [written EXCEPT ![c] = 1]
  OBVIOUS
<1> QED
  BY <1>1 DEF Promise!Deliver, Stage

PromiseStep == [Promise!Next]_<<StageMap, written>>

LEMMA StepKeepsPromise ==
    ASSUME IInv, [Next]_vars
    PROVE  PromiseStep
<1> USE SupervisorAssumption DEF IInv, DeliverySound
<1>1. CASE UNCHANGED vars
  <2>1. UNCHANGED <<book, written>>
    BY <1>1 DEF vars, durable, live, handler, agentv, outcomes
  <2> QED
    BY <2>1, StageStays DEF PromiseStep
<1>2. CASE Launch
  <2>1. UNCHANGED <<book, written>>
    BY <1>2 DEF Launch, durable, outcomes
  <2> QED
    BY <2>1, StageStays DEF PromiseStep
<1>3. CASE BeginRun
  <2>1. UNCHANGED <<book, written>>
    BY <1>3 DEF BeginRun, durable, outcomes
  <2> QED
    BY <2>1, StageStays DEF PromiseStep
<1>4. CASE ReportOrphan
  <2>1. UNCHANGED <<book, written>>
    BY <1>4 DEF ReportOrphan, durable, outcomes
  <2> QED
    BY <2>1, StageStays DEF PromiseStep
<1>5. CASE Spawn
  <2>1. UNCHANGED <<book, written>>
    BY <1>5 DEF Spawn, durable, outcomes
  <2> QED
    BY <2>1, StageStays DEF PromiseStep
<1>6. CASE SpawnFails
  <2>1. UNCHANGED <<book, written>>
    BY <1>6 DEF SpawnFails, GoDown, durable, outcomes
  <2> QED
    BY <2>1, StageStays DEF PromiseStep
<1>7. CASE Crash
  <2>1. UNCHANGED <<book, written>>
    BY <1>7 DEF Crash, GoDown, durable, outcomes
  <2> QED
    BY <2>1, StageStays DEF PromiseStep
<1>8. CASE Exit
  <2>1. UNCHANGED <<book, written>>
    BY <1>8 DEF Exit, GoDown, durable, outcomes
  <2> QED
    BY <2>1, StageStays DEF PromiseStep
<1>9. CASE WriteInitialize
  <2>1. UNCHANGED <<book, written>>
    BY <1>9 DEF WriteInitialize, durable, outcomes
  <2> QED
    BY <2>1, StageStays DEF PromiseStep
<1>10. CASE InitializeFails
  <2>1. UNCHANGED <<book, written>>
    BY <1>10 DEF InitializeFails, GoDown, durable, outcomes
  <2> QED
    BY <2>1, StageStays DEF PromiseStep
<1>11. CASE WriteIntent
  <2>1. CASE job.from = "auto"
    <3>1. UNCHANGED <<book, written>>
      BY <1>11, <2>1 DEF WriteIntent, outcomes
    <3> QED
      BY <3>1, StageStays DEF PromiseStep
  <2>2. CASE job.from # "auto"
    <3>1. job.id \in Clients /\ book[job.id].status = "none"
      BY <1>11, <2>2 DEF WriteIntent, JobSound, Steps, CarriedSound
    <3>2. PICK c \in Clients : c = job.id
      BY <3>1
    <3>3. PICK cmd : cmd = job.cmd
      OBVIOUS
    <3>4. /\ UNCHANGED written
          /\ book' = [book EXCEPT ![c] = [cmd |-> cmd,
                                           status |-> "delivery_unknown"]]
      BY <1>11, <2>2, <3>2, <3>3 DEF WriteIntent, Remember, outcomes
    <3>5. Promise!Log(c)
      BY <3>1, <3>2, <3>4, Logging DEF TypeOK
    <3> QED
      BY <3>5 DEF PromiseStep, Promise!Next
  <2> QED
    BY <2>1, <2>2
<1>12. CASE RecordInput
  <2>1. UNCHANGED <<book, written>>
    BY <1>12 DEF RecordInput, durable, outcomes
  <2> QED
    BY <2>1, StageStays DEF PromiseStep
<1>13. CASE Resolve
  <2>1. UNCHANGED <<book, written>>
    BY <1>13 DEF Resolve, durable, outcomes
  <2> QED
    BY <2>1, StageStays DEF PromiseStep
<1>14. CASE ClearPending
  <2>1. UNCHANGED <<book, written>>
    BY <1>14 DEF ClearPending, durable, outcomes
  <2> QED
    BY <2>1, StageStays DEF PromiseStep
<1>15. CASE DropQueued
  <2>1. UNCHANGED <<book, written>>
    BY <1>15 DEF DropQueued, durable, outcomes
  <2> QED
    BY <2>1, StageStays DEF PromiseStep
<1>16. CASE SayDropped
  <2>1. UNCHANGED <<book, written>>
    BY <1>16 DEF SayDropped, durable, outcomes
  <2> QED
    BY <2>1, StageStays DEF PromiseStep
<1>17. CASE SetWorking
  <2>1. UNCHANGED <<book, written>>
    BY <1>17 DEF SetWorking, durable, outcomes
  <2> QED
    BY <2>1, StageStays DEF PromiseStep
<1>18. CASE SetStopping
  <2>1. UNCHANGED <<book, written>>
    BY <1>18 DEF SetStopping, durable, outcomes
  <2> QED
    BY <2>1, StageStays DEF PromiseStep
<1>19. CASE WriteWire
  <2>1. CASE job.from = "auto"
    <3>1. UNCHANGED <<book, written>>
      BY <1>19, <2>1 DEF WriteWire, durable
    <3> QED
      BY <3>1, StageStays DEF PromiseStep
  <2>2. CASE job.from # "auto"
    <3>1. PICK c \in Clients : c = job.id
      BY <1>19, <2>2 DEF WriteWire, JobSound, Steps
    <3>2. book[c].status = "delivery_unknown" /\ written[c] = 0
      BY <1>19, <2>2, <3>1 DEF WriteWire, CarriedSound, Carrying, Steps
    <3>3. UNCHANGED book /\ written' = [written EXCEPT ![c] = written[c] + 1]
      BY <1>19, <2>2, <3>1 DEF WriteWire, durable
    <3>4. Promise!Deliver(c)
      BY <3>2, <3>3, Delivering DEF TypeOK
    <3> QED
      BY <3>4 DEF PromiseStep, Promise!Next
  <2> QED
    BY <2>1, <2>2
<1>20. CASE WireFails
  <2>1. UNCHANGED <<book, written>>
    BY <1>20 DEF WireFails, durable, outcomes
  <2> QED
    BY <2>1, StageStays DEF PromiseStep
<1>21. CASE WriteReceipt
  <2>1. CASE job.from = "auto"
    <3>1. UNCHANGED <<book, written>>
      BY <1>21, <2>1 DEF WriteReceipt
    <3> QED
      BY <3>1, StageStays DEF PromiseStep
  <2>2. CASE job.from # "auto"
    <3>1. PICK c \in Clients : c = job.id
      BY <1>21, <2>2 DEF WriteReceipt, JobSound, Steps
    <3>2. book[c].status = "delivery_unknown"
      BY <1>21, <2>2, <3>1 DEF WriteReceipt, CarriedSound, Carrying, Steps
    <3>3. /\ UNCHANGED written /\ book'[c].status = "accepted"
          /\ \A d \in Clients \ {c} : book'[d] = book[d]
      BY <1>21, <2>2, <3>1 DEF WriteReceipt, Remember, TypeOK
    <3>4. Promise!Settle(c)
      BY <3>2, <3>3, Settling
    <3> QED
      BY <3>4 DEF PromiseStep, Promise!Next
  <2> QED
    BY <2>1, <2>2
<1>22. CASE WriteSetting
  <2>1. PICK c \in Clients : c = job.id
    BY <1>22 DEF WriteSetting, SettingSound, TypeOK
  <2>2. book[c].status = "delivery_unknown" /\ written[c] = 0
    BY <1>22, <2>1 DEF WriteSetting, SettingSound
  <2>3. CASE Remember(job.id, job.cmd, "rejected") /\ UNCHANGED written
    <3>1. /\ book'[c].status = "rejected"
          /\ \A d \in Clients \ {c} : book'[d] = book[d]
      BY <2>1, <2>3 DEF Remember, TypeOK
    <3>2. Promise!Settle(c)
      BY <2>2, <2>3, <3>1, Settling
    <3> QED
      BY <3>2 DEF PromiseStep, Promise!Next
  <2>4. CASE /\ UNCHANGED book
             /\ written' = [written EXCEPT ![job.id] = written[job.id] + 1]
    <3>1. Promise!Deliver(c)
      BY <2>1, <2>2, <2>4, Delivering DEF TypeOK
    <3> QED
      BY <3>1 DEF PromiseStep, Promise!Next
  <2> QED
    BY <1>22, <2>3, <2>4 DEF WriteSetting
<1>23. CASE ApprovePending
  <2>1. UNCHANGED <<book, written>>
    BY <1>23 DEF ApprovePending, durable, outcomes
  <2> QED
    BY <2>1, StageStays DEF PromiseStep
<1>24. CASE Demote
  <2>1. UNCHANGED <<book, written>>
    BY <1>24 DEF Demote, durable, outcomes
  <2> QED
    BY <2>1, StageStays DEF PromiseStep
<1>25. CASE DeliverQueued
  <2>1. UNCHANGED <<book, written>>
    BY <1>25 DEF DeliverQueued, durable, outcomes
  <2> QED
    BY <2>1, StageStays DEF PromiseStep
<1>26. CASE ReapClear
  <2>1. UNCHANGED <<book, written>>
    BY <1>26 DEF ReapClear, durable, outcomes
  <2> QED
    BY <2>1, StageStays DEF PromiseStep
<1>27. CASE ReapEnd
  <2>1. UNCHANGED <<book, written>>
    BY <1>27 DEF ReapEnd, durable, outcomes
  <2> QED
    BY <2>1, StageStays DEF PromiseStep
<1>28. CASE Kill
  <2>1. UNCHANGED <<book, written>>
    BY <1>28 DEF Kill, durable, outcomes
  <2> QED
    BY <2>1, StageStays DEF PromiseStep
<1>29. CASE Say
  <2>1. UNCHANGED <<book, written>>
    BY <1>29 DEF Say, Line, durable, outcomes
  <2> QED
    BY <2>1, StageStays DEF PromiseStep
<1>30. CASE InitializeAnswered
  <2>1. UNCHANGED <<book, written>>
    BY <1>30 DEF InitializeAnswered, Line, durable, outcomes
  <2> QED
    BY <2>1, StageStays DEF PromiseStep
<1>31. CASE InitializeRefused
  <2>1. UNCHANGED <<book, written>>
    BY <1>31 DEF InitializeRefused, Line, durable, outcomes
  <2> QED
    BY <2>1, StageStays DEF PromiseStep
<1>32. CASE Result
  <2>1. UNCHANGED <<book, written>>
    BY <1>32 DEF Result, Line, durable, outcomes
  <2> QED
    BY <2>1, StageStays DEF PromiseStep
<1>33. CASE SettingAnswered
  <2>1. PICK c \in Clients : c = setting
    BY <1>33 DEF SettingAnswered, TypeOK
  <2>2. book[c].status = "delivery_unknown"
    BY <1>33, <2>1 DEF SettingAnswered, SettingSound
  <2>3. /\ book'[c].status \in {"accepted", "rejected"}
        /\ \A d \in Clients \ {c} : book'[d] = book[d]
    BY <1>33, <2>1 DEF SettingAnswered, Remember, TypeOK
  <2>4. UNCHANGED written
    BY <1>33 DEF SettingAnswered, Line
  <2>5. Promise!Settle(c)
    BY <2>2, <2>3, <2>4, Settling
  <2> QED
    BY <2>5 DEF PromiseStep, Promise!Next
<1>34. CASE Quit
  <2>1. UNCHANGED <<book, written>>
    BY <1>34 DEF Quit, durable, outcomes
  <2> QED
    BY <2>1, StageStays DEF PromiseStep
<1>35. CASE Overflow
  <2>1. UNCHANGED <<book, written>>
    BY <1>35 DEF Overflow, durable, outcomes
  <2> QED
    BY <2>1, StageStays DEF PromiseStep
<1>36. CASE Canceled
  <2>1. UNCHANGED <<book, written>>
    BY <1>36 DEF Canceled, durable, outcomes
  <2> QED
    BY <2>1, StageStays DEF PromiseStep
<1>37. CASE Reap
  <2>1. UNCHANGED <<book, written>>
    BY <1>37 DEF Reap, durable, outcomes
  <2> QED
    BY <2>1, StageStays DEF PromiseStep
<1>38. ASSUME NEW c \in Clients, NEW cmd \in Submitted, Retry(c, cmd)
      PROVE  PromiseStep
  <2>1. UNCHANGED <<book, written>>
    BY <1>38 DEF Retry, durable, outcomes
  <2> QED
    BY <2>1, StageStays DEF PromiseStep
<1>39. ASSUME NEW c \in Clients, NEW cmd \in Submitted, SendNow(c, cmd)
      PROVE  PromiseStep
  <2>1. UNCHANGED <<book, written>>
    BY <1>39 DEF SendNow, durable, outcomes
  <2> QED
    BY <2>1, StageStays DEF PromiseStep
<1>40. ASSUME NEW c \in Clients, NEW cmd \in Submitted, Enqueue(c, cmd)
      PROVE  PromiseStep
  <2>1. UNCHANGED <<book, written>>
    BY <1>40 DEF Enqueue, durable, outcomes
  <2> QED
    BY <2>1, StageStays DEF PromiseStep
<1>41. ASSUME NEW c \in Clients, NEW cmd \in Submitted, Unqueue(c, cmd)
      PROVE  PromiseStep
  <2>1. UNCHANGED <<book, written>>
    BY <1>41 DEF Unqueue, durable, outcomes
  <2> QED
    BY <2>1, StageStays DEF PromiseStep
<1>42. ASSUME NEW c \in Clients, NEW cmd \in Submitted, Execute(c, cmd)
      PROVE  PromiseStep
  <2>1. UNCHANGED <<book, written>>
    BY <1>42 DEF Execute, durable, outcomes
  <2> QED
    BY <2>1, StageStays DEF PromiseStep
<1>43. ASSUME NEW c \in Clients, NEW cmd \in Submitted, SetPermission(c, cmd)
      PROVE  PromiseStep
  <2>1. book[c].status = "none"
    BY <1>43 DEF SetPermission, Fresh, Served, MemorySound
  <2>2. /\ book'[c].status = "accepted"
        /\ \A d \in Clients \ {c} : book'[d] = book[d]
    BY <1>43 DEF SetPermission, Remember, TypeOK
  <2>3. UNCHANGED written
    BY <1>43 DEF SetPermission, outcomes
  <2>4. Promise!Settle(c)
    BY <2>1, <2>2, <2>3, Settling
  <2> QED
    BY <2>4 DEF PromiseStep, Promise!Next
<1>44. ASSUME NEW c \in Clients, NEW cmd \in Submitted, Configure(c, cmd)
      PROVE  PromiseStep
  <2>1. book[c].status = "none"
    BY <1>44 DEF Configure, Fresh, Served, MemorySound
  <2>2. /\ UNCHANGED written
        /\ book' = [book EXCEPT ![c] = [cmd |-> cmd, status |-> "delivery_unknown"]]
    BY <1>44 DEF Configure, Remember, outcomes
  <2>3. Promise!Log(c)
    BY <2>1, <2>2, Logging DEF TypeOK
  <2> QED
    BY <2>3 DEF PromiseStep, Promise!Next
<1>45. ASSUME NEW c \in Clients, NEW cmd \in Submitted, ShowCatalog(c, cmd)
      PROVE  PromiseStep
  <2>1. book[c].status = "none"
    BY <1>45 DEF ShowCatalog, Fresh, Served, MemorySound
  <2>2. /\ book'[c].status = "accepted"
        /\ \A d \in Clients \ {c} : book'[d] = book[d]
    BY <1>45 DEF ShowCatalog, Remember, TypeOK
  <2>3. UNCHANGED written
    BY <1>45 DEF ShowCatalog, outcomes
  <2>4. Promise!Settle(c)
    BY <2>1, <2>2, <2>3, Settling
  <2> QED
    BY <2>4 DEF PromiseStep, Promise!Next
<1>46. ASSUME NEW r \in Requests, Ask(r)
      PROVE  PromiseStep
  <2>1. UNCHANGED <<book, written>>
    BY <1>46 DEF Ask, Line, durable, outcomes
  <2> QED
    BY <2>1, StageStays DEF PromiseStep
<1>47. ASSUME NEW r \in Requests, Cancel(r)
      PROVE  PromiseStep
  <2>1. UNCHANGED <<book, written>>
    BY <1>47 DEF Cancel, Line, durable, outcomes
  <2> QED
    BY <2>1, StageStays DEF PromiseStep
<1> QED
  BY <1>1, <1>2, <1>3, <1>4, <1>5, <1>6, <1>7, <1>8, <1>9, <1>10, <1>11,
     <1>12, <1>13, <1>14, <1>15, <1>16, <1>17, <1>18, <1>19, <1>20, <1>21, <1>22,
     <1>23, <1>24, <1>25, <1>26, <1>27, <1>28, <1>29, <1>30, <1>31, <1>32, <1>33,
     <1>34, <1>35, <1>36, <1>37, <1>38, <1>39, <1>40, <1>41, <1>42, <1>43, <1>44,
     <1>45, <1>46, <1>47
  DEF Next, Boot, Submit, Locked, Speak

(* The supervisor's log and writes are a correct Delivery: every step of   *)
(* every handler, a crash and a restart included, is one of its steps or   *)
(* none.                                                                   *)
THEOREM ImplementsDelivery == Spec => KeepsDelivery
<1>1. Init => Promise!Init
  BY DEF Init, Promise!Init, Stage, NoReceipts, NoReceipt
<1>2. IInv /\ [Next]_vars => [Promise!Next]_<<[c \in Clients |-> Stage(c)], written>>
  BY StepKeepsPromise DEF PromiseStep, StageMap
<1> QED
  BY <1>1, <1>2, Invariant, PTL DEF Spec, Promise!Spec, KeepsDelivery
=============================================================================
