----------------------------- MODULE Supervisor -----------------------------
(***************************************************************************)
(* One session's supervisor, speaking the Claude protocol                  *)
(* (src/internal/supervisor: supervisor.go, queue.go, permission.go and    *)
(* the setting commands of models.go).                                     *)
(*                                                                         *)
(* Every handler of the program runs under one mutex, so the model has one *)
(* lock holder at a time: pc = "free" when the mutex is free, and otherwise*)
(* the next step of the handler that holds it.  A step is one durable      *)
(* append, or one write to the agent, because the process can die between  *)
(* any two of them.  What an agent line appends is one batch, hence one    *)
(* step.  Crash, Exit and the death of the agent interleave everywhere.    *)
(*                                                                         *)
(* The log is represented by what a restart reads from it: disk is the     *)
(* snapshot ReplayFrom folds out of the events appended so far, and book   *)
(* the receipts Run rebuilds from resumeEvents.  The live fields (snap,    *)
(* pending, receipts) are maintained by other code and may disagree.       *)
(*                                                                         *)
(* An operator named Fault_... is no part of the specification: it is a    *)
(* plausible bug in the definition that follows it, kept so that each      *)
(* property can be seen to fail.                                           *)
(***************************************************************************)
EXTENDS Naturals

CONSTANTS
    Clients,    \* client ids; a command is named by the id its sender chose
    Requests,   \* ids the agent gives its can_use_tool requests
    Questions,  \* requests only a person may answer (AskUserQuestion)
    Malformed,  \* requests whose payload the reply path cannot decode
    Ops,        \* the operations clients use in this instance
    MaxRuns,    \* bound on how often the supervisor is started
    None        \* no message, no request, no client

Modes     == {"ask", "full"}
PlainOps  == {"send", "setting", "catalog", "interrupt", "stop",
              "update-stop", "unqueue"}
AllOps    == PlainOps \cup {"reply", "permission"}
States    == {"starting", "idle", "working", "waiting_input", "stopping",
              "stopped", "failed", "interrupted"}
Running   == {"idle", "working", "waiting_input"}
InTurn    == {"working", "waiting_input"}
Automatic == Requests \ Questions

ASSUME SupervisorAssumption ==
    /\ None \notin Clients \cup Requests
    /\ Questions \subseteq Requests
    /\ Malformed \subseteq Requests
    /\ Ops \subseteq AllOps
    /\ MaxRuns \in Nat

(* What a client can submit: an operation, its argument and the run the    *)
(* client believes is current.                                             *)
Command ==
    [op : AllOps, arg : Requests \cup Modes \cup {None}, run : 0..MaxRuns]
Submitted ==
         [op : Ops \cap PlainOps,       arg : {None},   run : 1..MaxRuns]
    \cup [op : Ops \cap {"reply"},      arg : Requests, run : 1..MaxRuns]
    \cup [op : Ops \cap {"permission"}, arg : Modes,    run : 1..MaxRuns]

Statuses  == {"none", "queued", "delivery_unknown", "accepted", "rejected"}
NoCommand == [op |-> "send", arg |-> None, run |-> 0]
NoReceipt == [cmd |-> NoCommand, status |-> "none"]
Receipt   == [cmd : Command, status : Statuses]
NoJob     == [id |-> None, cmd |-> NoCommand, from |-> "client"]

Snapshot  == [state : States, run : 0..MaxRuns, mode : Modes,
              queued : Clients \cup {None}]
Projected == [state : States, run : 0..MaxRuns, mode : Modes,
              queued : Clients \cup {None}, pending : SUBSET Requests]

-----------------------------------------------------------------------------
VARIABLES
    disk,      \* the snapshot Replay computes from the log
    book,      \* the receipts a restart would rebuild from the log
    phase,     \* "down", "boot" (Run before the agent exists), "up"
    runs,      \* runs started so far: run ids are 1, 2, ...
    snap,      \* s.snap: the live snapshot
    pending,   \* s.pending: live approvals, by request id
    receipts,  \* s.receipts for client ids
    auto,      \* s.receipts for "auto:<run>:<request>" ids of this run
    stopping,  \* s.stopping
    setting,   \* s.settingPending
    killing,   \* /stop has answered and is about to kill the agent
    pc,        \* next step of the handler holding s.mu
    job,       \* the command executeLocked is carrying out
    after,     \* what follows approvePending in that handler
    orphan,    \* old.Queued, while Run starts
    agent,     \* the agent process: off, on, killed, quit, reaped
    hello,     \* the initialize request: unsent, sent, answered
    turn,      \* the agent has a message it has not finished
    asked,     \* requests the agent waits on
    written,   \* how often a client's command was written to the agent
    told,      \* the last receipt a client was answered with
    owed,      \* messages taken out of the slot whose loss is not yet said
    silent     \* messages lost without a word

durable  == <<disk, book>>
live     == <<snap, pending, receipts, auto, stopping, setting>>
handler  == <<pc, job, after, orphan>>
agentv   == <<agent, hello, turn, asked>>
outcomes == <<written, told, owed, silent>>
vars     == <<durable, phase, runs, live, killing, handler, agentv, outcomes>>

View == [state |-> snap.state, run |-> snap.run, mode |-> snap.mode,
         queued |-> snap.queued, pending |-> pending]

-----------------------------------------------------------------------------
Fault_KeepPending(d, state, run) ==
    IF d.run = run
    THEN [d EXCEPT !.state = state]
    ELSE [d EXCEPT !.state = state, !.run = run, !.queued = None]

(* The log.  ReplayState is ReplayFrom's "state" case: a new run drops     *)
(* what was pending and what was waiting for the previous one.             *)
ReplayState(d, state, run) ==
    IF d.run = run
    THEN [d EXCEPT !.state = state]
    ELSE [d EXCEPT !.state = state, !.run = run,
                   !.pending = {}, !.queued = None]

(* ReplayFrom's "input" case empties the slot only for the message in it.  *)
ReplayInput(d, c) ==
    IF d.queued = c THEN [d EXCEPT !.queued = None] ELSE d

(* event("state", ...) appends and then updates the live snapshot.         *)
LogState(state) ==
    /\ disk' = ReplayState(disk, state, snap.run)
    /\ snap' = [snap EXCEPT !.state = state]

LogQueued(c) ==
    /\ disk' = [disk EXCEPT !.queued = c]
    /\ snap' = [snap EXCEPT !.queued = c]

LogMode(mode) ==
    /\ disk' = [disk EXCEPT !.mode = mode]
    /\ snap' = [snap EXCEPT !.mode = mode]

Fault_AnswerFirst(c, cmd, status) ==
    /\ book' = IF status = "accepted" THEN book
               ELSE [book EXCEPT ![c] = [cmd |-> cmd, status |-> status]]
    /\ receipts' = [receipts EXCEPT ![c] = [cmd |-> cmd, status |-> status]]

(* An "intent" or "receipt" event together with the in-memory receipt.     *)
Remember(c, cmd, status) ==
    /\ book' = [book EXCEPT ![c] = [cmd |-> cmd, status |-> status]]
    /\ receipts' = [receipts EXCEPT ![c] = [cmd |-> cmd, status |-> status]]

NoSnapshot == [state |-> "stopped", run |-> 0, mode |-> "full",
               queued |-> None]
NoReceipts == [c \in Clients |-> NoReceipt]

Init ==
    /\ disk = [state |-> "stopped", run |-> 0, mode |-> "full",
               queued |-> None, pending |-> {}]
    /\ book = NoReceipts
    /\ phase = "down" /\ runs = 0
    /\ snap = NoSnapshot /\ pending = {} /\ receipts = NoReceipts
    /\ auto = {} /\ stopping = FALSE /\ setting = None /\ killing = FALSE
    /\ pc = "free" /\ job = NoJob /\ after = "free" /\ orphan = None
    /\ agent = "off" /\ hello = "unsent" /\ turn = FALSE /\ asked = {}
    /\ written = [c \in Clients |-> 0]
    /\ told = NoReceipts
    /\ owed = {} /\ silent = {}

-----------------------------------------------------------------------------
(* Starting a run.                                                         *)

Restored == book

(* Run takes supervisor.lock, replays the log and rebuilds the receipts.   *)
Launch ==
    /\ phase = "down" /\ runs < MaxRuns
    /\ phase' = "boot" /\ runs' = runs + 1
    /\ snap' = [state |-> "starting", run |-> runs + 1, mode |-> disk.mode,
                queued |-> None]
    /\ receipts' = Restored
    /\ orphan' = disk.queued
    /\ pc' = "starting"
    /\ UNCHANGED <<durable, pending, auto, stopping, setting, killing, job,
                   after, agentv, outcomes>>

Fault_Forget == "spawn"
AfterStarting == IF orphan = None THEN "spawn" ELSE "orphan"

(* The "starting" event: from here on the log belongs to the new run, and  *)
(* the message that waited for the old one is owed a word.                 *)
BeginRun ==
    /\ pc = "starting"
    /\ LogState("starting")
    /\ owed' = owed \cup ({orphan} \ {None})
    /\ pc' = AfterStarting
    /\ UNCHANGED <<book, phase, runs, pending, receipts, auto, stopping,
                   setting, killing, job, after, orphan, agentv, written,
                   told, silent>>

(* "the message waiting to be sent did not survive the restart"            *)
ReportOrphan ==
    /\ pc = "orphan"
    /\ owed' = {}
    /\ pc' = "spawn"
    /\ UNCHANGED <<durable, phase, runs, live, killing, job, after, orphan,
                   agentv, written, told, silent>>

(* The agent process starts and the socket is served.                      *)
Spawn ==
    /\ pc = "spawn"
    /\ agent' = "on" /\ phase' = "up" /\ pc' = "free" /\ orphan' = None
    /\ UNCHANGED <<durable, runs, live, killing, job, after, hello, turn,
                   asked, outcomes>>

(* The supervisor process is gone.  Its memory goes, and the guard process *)
(* kills the agent's group before another run can take the profile lock.   *)
GoDown ==
    /\ phase' = "down"
    /\ snap' = NoSnapshot /\ pending' = {} /\ receipts' = NoReceipts
    /\ auto' = {} /\ stopping' = FALSE /\ setting' = None
    /\ killing' = FALSE
    /\ pc' = "free" /\ job' = NoJob /\ after' = "free" /\ orphan' = None
    /\ agent' = "off" /\ hello' = "unsent" /\ turn' = FALSE /\ asked' = {}
    /\ owed' = {} /\ silent' = silent \cup owed
    /\ UNCHANGED <<runs, written, told>>

(* exec fails: the run ends with a "failed" state.                         *)
SpawnFails ==
    /\ pc = "spawn"
    /\ disk' = ReplayState(disk, "failed", snap.run)
    /\ book' = book
    /\ GoDown

(* SIGKILL, a panic on a failed append, or an error Run returns before the *)
(* agent is served: whatever step comes next does not happen.              *)
Crash ==
    /\ phase # "down"
    /\ UNCHANGED durable
    /\ GoDown

(* Run returns once the reader has closed s.done.  A handler may still be  *)
(* running: closing the server does not wait for it.                       *)
Exit ==
    /\ phase = "up" /\ agent = "reaped"
    /\ UNCHANGED durable
    /\ GoDown

(* The initialize request, written by Run after the socket is served.      *)
WriteInitialize ==
    /\ phase = "up" /\ pc = "free" /\ hello = "unsent" /\ agent = "on"
    /\ hello' = "sent"
    /\ UNCHANGED <<durable, phase, runs, live, killing, handler, agent, turn,
                   asked, outcomes>>

(* Run returns the error of that write, without waiting for the reader.    *)
InitializeFails ==
    /\ phase = "up" /\ pc = "free" /\ hello = "unsent" /\ agent # "on"
    /\ UNCHANGED durable
    /\ GoDown

-----------------------------------------------------------------------------
(* Commands.  A command that is refused changes nothing and is no step.    *)

Served == phase = "up" /\ pc = "free"

Fault_NoReceipts(c, cmd) == Served /\ cmd.run = snap.run

Fresh(c, cmd) ==
    /\ Served
    /\ receipts[c].status = "none"
    /\ cmd.run = snap.run

(* The same command again: its receipt answers, and a repeated /stop kills *)
(* again.  A different command under a used id is refused.                 *)
Retry(c, cmd) ==
    /\ Served
    /\ receipts[c].status # "none" /\ receipts[c].cmd = cmd
    /\ told' = [told EXCEPT ![c] = receipts[c]]
    /\ killing' = (killing \/ cmd.op = "stop")
    /\ UNCHANGED <<durable, phase, runs, live, handler, agentv, written,
                   owed, silent>>

Fault_WriteFirst(id, cmd, from) ==
    /\ job' = [id |-> id, cmd |-> cmd, from |-> from]
    /\ pc' = IF cmd.op = "send" THEN "input" ELSE "intent"

Begin(id, cmd, from) ==
    /\ job' = [id |-> id, cmd |-> cmd, from |-> from]
    /\ pc' = "intent"

(* What executeLocked asks of a message first: no setting is unconfirmed    *)
(* and the slot is free, or is the slot this message leaves.               *)
MayBegin(c) == setting = None /\ snap.queued \in {None, c}

(* Claude takes a message between turns only.                              *)
Fault_RestWhileAsked == snap.state \in {"idle", "waiting_input"}
AtRest == snap.state = "idle"

SendNow(c, cmd) ==
    /\ Fresh(c, cmd) /\ cmd.op = "send"
    /\ MayBegin(c) /\ AtRest
    /\ Begin(c, cmd, "client")
    /\ UNCHANGED <<durable, phase, runs, live, killing, after, orphan,
                   agentv, outcomes>>

(* enqueue: only an agent that is running can come back for the message.   *)
MayWait ==
    /\ ~stopping
    /\ snap.state \in InTurn \cup {"starting"}
    /\ snap.queued = None

Enqueue(c, cmd) ==
    /\ Fresh(c, cmd) /\ cmd.op = "send"
    /\ MayBegin(c) /\ ~AtRest /\ MayWait
    /\ LogQueued(c)
    /\ receipts' = [receipts EXCEPT ![c] = [cmd |-> cmd, status |-> "queued"]]
    /\ told' = [told EXCEPT ![c] = receipts'[c]]
    /\ UNCHANGED <<book, phase, runs, pending, auto, stopping, setting,
                   killing, handler, agentv, written, owed, silent>>

(* unqueue: its receipt is not one a restart restores.                     *)
Unqueue(c, cmd) ==
    /\ Fresh(c, cmd) /\ cmd.op = "unqueue"
    /\ snap.queued # None
    /\ LogQueued(None)
    /\ receipts' = [receipts EXCEPT ![c] = [cmd |-> cmd, status |-> "accepted"]]
    /\ told' = [told EXCEPT ![c] = receipts'[c]]
    /\ UNCHANGED <<book, phase, runs, pending, auto, stopping, setting,
                   killing, handler, agentv, written, owed, silent>>

(* reply, interrupt and stop; update-stop is a stop under more conditions  *)
(* and is remembered as a stop.                                            *)
Fault_AnswerAnything(cmd) ==
    \/ cmd.op = "reply" /\ cmd.arg \notin Malformed
    \/ cmd.op = "interrupt" /\ snap.state \in InTurn

MayRun(cmd) ==
    \/ cmd.op = "reply" /\ cmd.arg \in pending \ Malformed
    \/ cmd.op = "interrupt" /\ snap.state \in InTurn
    \/ cmd.op = "stop"
    \/ /\ cmd.op = "update-stop"
       /\ snap.state = "idle" /\ ~stopping /\ pending = {} /\ setting = None

Execute(c, cmd) ==
    /\ Fresh(c, cmd)
    /\ MayRun(cmd)
    /\ Begin(c, IF cmd.op = "update-stop" THEN [cmd EXCEPT !.op = "stop"]
                                          ELSE cmd, "client")
    /\ UNCHANGED <<durable, phase, runs, live, killing, after, orphan,
                   agentv, outcomes>>

(* setPermission: one event is both the policy and the receipt.            *)
SetPermission(c, cmd) ==
    /\ Fresh(c, cmd) /\ cmd.op = "permission"
    /\ snap.state \in Running
    /\ LogMode(cmd.arg)
    /\ Remember(c, cmd, "accepted")
    /\ told' = [told EXCEPT ![c] = receipts'[c]]
    /\ pc' = "approve" /\ after' = "free"
    /\ UNCHANGED <<phase, runs, pending, auto, stopping, setting, killing,
                   job, orphan, agentv, written, owed, silent>>

(* configure: /model and /effort with a value, only between turns.         *)
Fault_ConfigureInTurn == snap.state \in Running /\ setting = None
MayConfigure == snap.state = "idle" /\ setting = None

Configure(c, cmd) ==
    /\ Fresh(c, cmd) /\ cmd.op = "setting"
    /\ MayConfigure
    /\ Remember(c, cmd, "delivery_unknown")
    /\ setting' = c
    /\ job' = [id |-> c, cmd |-> cmd, from |-> "client"]
    /\ pc' = "setting"
    /\ UNCHANGED <<disk, phase, runs, snap, pending, auto, stopping, killing,
                   after, orphan, agentv, outcomes>>

(* configure without a value only publishes the catalog, and says so.       *)
ShowCatalog(c, cmd) ==
    /\ Fresh(c, cmd) /\ cmd.op = "catalog"
    /\ MayConfigure
    /\ Remember(c, cmd, "accepted")
    /\ told' = [told EXCEPT ![c] = receipts'[c]]
    /\ UNCHANGED <<disk, phase, runs, snap, pending, auto, stopping, setting,
                   killing, handler, agentv, written, owed, silent>>

-----------------------------------------------------------------------------
(* executeLocked after its checks: intent, effect, write, receipt.         *)

AfterIntent ==
    [send |-> "input", reply |-> "resolve", interrupt |-> "clear",
     stop |-> "drop"]

WriteIntent ==
    /\ pc = "intent"
    /\ IF job.from = "auto"
       THEN /\ auto' = auto \cup {job.cmd.arg}
            /\ UNCHANGED <<book, receipts>>
       ELSE /\ Remember(job.id, job.cmd, "delivery_unknown")
            /\ UNCHANGED auto
    /\ stopping' = (stopping \/ job.cmd.op = "stop")
    /\ pc' = AfterIntent[job.cmd.op]
    /\ UNCHANGED <<disk, phase, runs, snap, pending, setting, killing, job,
                   after, orphan, agentv, outcomes>>

RecordInput ==
    /\ pc = "input"
    /\ disk' = ReplayInput(disk, job.id)
    /\ snap' = [snap EXCEPT !.queued = IF @ = job.id THEN None ELSE @]
    /\ pc' = IF snap.state \in InTurn THEN "wire" ELSE "working"
    /\ UNCHANGED <<book, phase, runs, pending, receipts, auto, stopping,
                   setting, killing, job, after, orphan, agentv, outcomes>>

AfterResolve(left) == IF left = {} THEN "working" ELSE "wire"

Resolve ==
    /\ pc = "resolve"
    /\ pending' = pending \ {job.cmd.arg}
    /\ disk' = [disk EXCEPT !.pending = @ \ {job.cmd.arg}]
    /\ pc' = AfterResolve(pending')
    /\ UNCHANGED <<book, phase, runs, snap, receipts, auto, stopping, setting,
                   killing, job, after, orphan, agentv, outcomes>>

(* clearPending: one event per pending approval, in no particular order.   *)
Fault_KeepCanceled ==
    \E r \in pending :
        /\ pending' = pending
        /\ disk' = [disk EXCEPT !.pending = @ \ {r}]

CancelOne ==
    \E r \in pending :
        /\ pending' = pending \ {r}
        /\ disk' = [disk EXCEPT !.pending = @ \ {r}]

ClearPending ==
    /\ pc = "clear"
    /\ \/ CancelOne /\ pc' = pc
       \/ pending = {} /\ pc' = "drop" /\ UNCHANGED <<disk, pending>>
    /\ UNCHANGED <<book, phase, runs, snap, receipts, auto, stopping, setting,
                   killing, job, after, orphan, agentv, outcomes>>

(* dropQueued empties the slot, then says so.                              *)
AfterDrop ==
    [interrupt |-> "working", stop |-> "stopping", send |-> "free"]

DropQueued ==
    /\ pc = "drop"
    /\ IF snap.queued = None
       THEN /\ pc' = AfterDrop[job.cmd.op]
            /\ UNCHANGED <<disk, snap, owed>>
       ELSE /\ LogQueued(None)
            /\ owed' = owed \cup {snap.queued}
            /\ pc' = "said"
    /\ UNCHANGED <<book, phase, runs, pending, receipts, auto, stopping,
                   setting, killing, job, after, orphan, agentv, written,
                   told, silent>>

SayDropped ==
    /\ pc = "said"
    /\ owed' = {}
    /\ pc' = AfterDrop[job.cmd.op]
    /\ UNCHANGED <<durable, phase, runs, live, killing, job, after, orphan,
                   agentv, written, told, silent>>

SetWorking ==
    /\ pc = "working"
    /\ LogState("working")
    /\ pc' = "wire"
    /\ UNCHANGED <<book, phase, runs, pending, receipts, auto, stopping,
                   setting, killing, job, after, orphan, agentv, outcomes>>

(* stop writes nothing to the agent: the kill follows the answer.          *)
SetStopping ==
    /\ pc = "stopping"
    /\ LogState("stopping")
    /\ pc' = "receipt"
    /\ UNCHANGED <<book, phase, runs, pending, receipts, auto, stopping,
                   setting, killing, job, after, orphan, agentv, outcomes>>

(* The write reaches the agent's pipe.                                     *)
WriteWire ==
    /\ pc = "wire" /\ agent = "on"
    /\ turn' = (turn \/ job.cmd.op = "send")
    /\ asked' = asked \ {job.cmd.arg}
    /\ written' = IF job.from = "auto" THEN written
                  ELSE [written EXCEPT ![job.id] = @ + 1]
    /\ pc' = "receipt"
    /\ UNCHANGED <<durable, phase, runs, live, killing, job, after, orphan,
                   agent, hello, told, owed, silent>>

(* Where the handler goes on when executeLocked returns without a receipt  *)
(* or with one.                                                            *)

Return == IF job.from = "auto" THEN after ELSE "free"

(* SIGKILL to the agent's process group.                                   *)
Fault_AfterTheTurn == IF agent = "on" /\ ~turn THEN "killed" ELSE agent
Killed == IF agent = "on" THEN "killed" ELSE agent

(* The pipe is broken: the agent is killed and delivery stays unknown.     *)
WireFails ==
    /\ pc = "wire"
    /\ agent' = Killed
    /\ told' = IF job.from = "client"
               THEN [told EXCEPT ![job.id] = receipts[job.id]] ELSE told
    /\ pc' = Return
    /\ UNCHANGED <<durable, phase, runs, live, killing, job, after, orphan,
                   hello, turn, asked, written, owed, silent>>

WriteReceipt ==
    /\ pc = "receipt"
    /\ IF job.from = "auto"
       THEN UNCHANGED <<book, receipts>>
       ELSE Remember(job.id, job.cmd, "accepted")
    /\ told' = IF job.from = "client"
               THEN [told EXCEPT ![job.id] = receipts'[job.id]] ELSE told
    /\ killing' = (killing \/ job.cmd.op = "stop")
    /\ pc' = IF job.from = "auto" THEN "approve" ELSE "free"
    /\ UNCHANGED <<disk, phase, runs, snap, pending, auto, stopping, setting,
                   job, after, orphan, agentv, written, owed, silent>>

(* /stop flushes its answer and then kills the agent, outside the mutex.   *)
Kill ==
    /\ killing /\ killing' = FALSE
    /\ agent' = Killed
    /\ UNCHANGED <<durable, phase, runs, live, handler, hello, turn, asked,
                   outcomes>>

(* The write of a setting, and finishSetting when it fails.                *)
WriteSetting ==
    /\ pc = "setting" /\ pc' = "free"
    /\ \/ /\ agent = "on"
          /\ written' = [written EXCEPT ![job.id] = @ + 1]
          /\ UNCHANGED <<book, receipts, setting>>
       \/ /\ Remember(job.id, job.cmd, "rejected")
          /\ setting' = None
          /\ UNCHANGED written
    /\ UNCHANGED <<disk, phase, runs, snap, pending, auto, stopping, killing,
                   job, after, orphan, agentv, told, owed, silent>>

-----------------------------------------------------------------------------
(* Lines of the agent.  consume appends what a line means as one batch,    *)
(* then runs approvePending and deliverQueued under the same lock.         *)

Line ==
    /\ Served /\ agent \notin {"off", "reaped"}
    /\ pc' = "approve" /\ after' = "deliver"
    /\ UNCHANGED <<phase, runs, auto, stopping, killing, job, orphan, written,
                   told, owed, silent>>

(* assistant and tool lines, usage, anything not understood: events that    *)
(* this model does not keep.                                               *)
Say == Line /\ UNCHANGED <<durable, snap, pending, receipts, setting, agentv>>

InitializeAnswered ==
    /\ Line /\ hello = "sent" /\ hello' = "answered"
    /\ LogState("idle")
    /\ UNCHANGED <<book, pending, receipts, setting, agent, turn, asked>>

InitializeRefused ==
    /\ Line /\ hello = "sent" /\ hello' = "answered"
    /\ LogState("failed")
    /\ agent' = Killed
    /\ UNCHANGED <<book, pending, receipts, setting, turn, asked>>

(* control_request can_use_tool; a request id may come again.              *)
Ask(r) ==
    /\ Line /\ turn
    /\ asked' = asked \cup {r}
    /\ pending' = pending \cup {r}
    /\ snap' = [snap EXCEPT !.state = "waiting_input"]
    /\ disk' = [disk EXCEPT !.pending = @ \cup {r}, !.state = "waiting_input"]
    /\ UNCHANGED <<book, receipts, setting, agent, hello, turn>>

(* control_cancel_request                                                  *)
Cancel(r) ==
    /\ Line /\ r \in asked
    /\ asked' = asked \ {r}
    /\ pending' = pending \ {r}
    /\ LET state == IF pending' = {} /\ snap.state = "waiting_input"
                    THEN "working" ELSE snap.state
       IN /\ snap' = [snap EXCEPT !.state = state]
          /\ disk' = [disk EXCEPT !.pending = @ \ {r}, !.state = state]
    /\ UNCHANGED <<book, receipts, setting, agent, hello, turn>>

(* result: the turn ends, and what it asked expires with it.               *)
Result ==
    /\ Line /\ turn
    /\ turn' = FALSE /\ asked' = {}
    /\ pending' = {}
    /\ snap' = [snap EXCEPT !.state = "idle"]
    /\ disk' = [disk EXCEPT !.pending = @ \ pending, !.state = "idle"]
    /\ UNCHANGED <<book, receipts, setting, agent, hello>>

(* The answer to a setting: finishSetting.  Only the pending one counts.   *)
SettingAnswered ==
    /\ Line /\ setting # None
    /\ \E status \in {"accepted", "rejected"} :
           Remember(setting, receipts[setting].cmd, status)
    /\ setting' = None
    /\ UNCHANGED <<disk, snap, pending, agentv>>

-----------------------------------------------------------------------------
(* approvePending and deliverQueued.                                       *)

Fault_NotWhileWaiting ==
    IF snap.mode = "full" /\ ~stopping /\ snap.state \in {"idle", "working"}
    THEN (pending \cap Automatic) \ auto ELSE {}

Approvable ==
    IF snap.mode = "full" /\ ~stopping /\ snap.state \in Running
    THEN (pending \cap Automatic) \ auto ELSE {}

ApprovePending ==
    /\ pc = "approve"
    /\ \/ /\ Approvable = {}
          /\ pc' = after /\ job' = job
       \/ \E r \in Approvable \ Malformed :
              Begin(None, [op |-> "reply", arg |-> r, run |-> snap.run],
                    "auto")
       \/ /\ Approvable \cap Malformed # {}
          /\ pc' = "demote" /\ job' = job
    /\ UNCHANGED <<durable, phase, runs, live, killing, after, orphan,
                   agentv, outcomes>>

(* A request that cannot be answered automatically turns full mode off.    *)
Demote ==
    /\ pc = "demote"
    /\ LogMode("ask")
    /\ pc' = after
    /\ UNCHANGED <<book, phase, runs, pending, receipts, auto, stopping,
                   setting, killing, job, after, orphan, agentv, outcomes>>

Fault_DeliverInTurn ==
    snap.queued # None /\ ~stopping /\ snap.state \in InTurn

MayDeliver == snap.queued # None /\ ~stopping /\ snap.state = "idle"

(* deliverQueued: the queued receipt is forgotten and the same command is  *)
(* executed; if it is refused the message is dropped.                      *)
DeliverQueued ==
    /\ pc = "deliver"
    /\ IF MayDeliver
       THEN LET c == snap.queued
                cmd == [op |-> "send", arg |-> None, run |-> snap.run]
            IN /\ receipts' = [receipts EXCEPT ![c] = NoReceipt]
               /\ job' = [id |-> c, cmd |-> cmd, from |-> "queue"]
               /\ pc' = IF MayBegin(c) THEN "intent" ELSE "drop"
       ELSE pc' = "free" /\ UNCHANGED <<receipts, job>>
    /\ UNCHANGED <<durable, phase, runs, snap, pending, auto, stopping,
                   setting, killing, after, orphan, agentv, outcomes>>

-----------------------------------------------------------------------------
(* The agent's death, and the reader that notices it.                      *)

Quit ==
    /\ agent = "on" /\ agent' = "quit"
    /\ UNCHANGED <<durable, phase, runs, live, killing, handler, hello, turn,
                   asked, outcomes>>

(* A line beyond MaxLineBytes stops the reader, which kills the agent.     *)
Overflow ==
    /\ Served /\ agent = "on" /\ agent' = "killed"
    /\ UNCHANGED <<durable, phase, runs, live, killing, handler, hello, turn,
                   asked, outcomes>>

(* The supervisor is told to end: Run kills the agent and waits for it.    *)
Canceled ==
    /\ phase = "up" /\ agent = "on" /\ agent' = "killed"
    /\ UNCHANGED <<durable, phase, runs, live, killing, handler, hello, turn,
                   asked, outcomes>>

(* After end of file and Wait the reader takes the mutex ...               *)
Reap ==
    /\ Served /\ agent \in {"killed", "quit"}
    /\ pc' = "reap"
    /\ UNCHANGED <<durable, phase, runs, live, killing, job, after, orphan,
                   agentv, outcomes>>

ReapClear ==
    /\ pc = "reap" /\ CancelOne
    /\ UNCHANGED <<book, phase, runs, snap, receipts, auto, stopping, setting,
                   killing, handler, agentv, outcomes>>

(* ... and records how the run ended.                                      *)

Endings ==
    IF stopping THEN {"stopped"}
    ELSE IF agent = "killed" THEN {"failed"}
    ELSE {"failed", "interrupted"}

ReapEnd ==
    /\ pc = "reap" /\ pending = {}
    /\ \E state \in Endings : LogState(state)
    /\ agent' = "reaped" /\ pc' = "free"
    /\ UNCHANGED <<book, phase, runs, pending, receipts, auto, stopping,
                   setting, killing, job, after, orphan, hello, turn, asked,
                   outcomes>>

-----------------------------------------------------------------------------
Submit ==
    \E c \in Clients, cmd \in Submitted :
        \/ Retry(c, cmd)   \/ SendNow(c, cmd)       \/ Enqueue(c, cmd)
        \/ Unqueue(c, cmd) \/ Execute(c, cmd)       \/ Configure(c, cmd)
        \/ SetPermission(c, cmd) \/ ShowCatalog(c, cmd)

Boot == BeginRun \/ ReportOrphan \/ Spawn \/ SpawnFails

Locked ==
    \/ WriteIntent \/ RecordInput \/ Resolve \/ ClearPending \/ DropQueued
    \/ SayDropped \/ SetWorking \/ SetStopping \/ WriteWire \/ WireFails
    \/ WriteReceipt \/ WriteSetting \/ ApprovePending \/ Demote
    \/ DeliverQueued \/ ReapClear \/ ReapEnd

Speak ==
    \/ Say \/ InitializeAnswered \/ InitializeRefused \/ Result \/ SettingAnswered
    \/ \E r \in Requests : Ask(r) \/ Cancel(r)

Next ==
    \/ Launch \/ Boot \/ Crash \/ Exit \/ WriteInitialize \/ InitializeFails
    \/ Submit \/ Locked \/ Kill \/ Speak
    \/ Quit \/ Overflow \/ Canceled \/ Reap

Spec == Init /\ [][Next]_vars

(* A handler that holds the mutex runs to its end, a kill that was decided *)
(* is sent, and the reader notices a dead agent: no more is assumed of the *)
(* supervisor.  Reap is strongly fair because a dead agent's pipe holds    *)
(* finitely many lines and sync.Mutex starves no waiter.                   *)
Fairness ==
    /\ WF_vars(Boot) /\ WF_vars(Locked) /\ WF_vars(Kill)
    /\ SF_vars(Reap) /\ WF_vars(Exit)

FairSpec == Spec /\ Fairness

(* Of the agent, that it answers initialize and that a turn ends.          *)
AgentFairness ==
    /\ SF_vars(WriteInitialize \/ InitializeFails)
    /\ SF_vars(InitializeAnswered) /\ SF_vars(Result)

-----------------------------------------------------------------------------
(* Properties.                                                             *)

(* The range of every variable.                                            *)
TypeOK ==
    /\ disk \in Projected
    /\ book \in [Clients -> Receipt] /\ receipts \in [Clients -> Receipt]
    /\ phase \in {"down", "boot", "up"} /\ runs \in 0..MaxRuns
    /\ snap \in Snapshot /\ pending \subseteq Requests
    /\ auto \subseteq Requests /\ stopping \in BOOLEAN
    /\ setting \in Clients \cup {None} /\ killing \in BOOLEAN
    /\ pc \in {"free", "starting", "orphan", "spawn", "intent", "input",
               "resolve", "clear", "drop", "said", "working", "stopping",
               "wire", "receipt", "setting", "approve", "demote", "deliver",
               "reap"}
    /\ job \in [id : Clients \cup {None}, cmd : Command,
                from : {"client", "auto", "queue"}]
    /\ after \in {"free", "deliver"} /\ orphan \in Clients \cup {None}
    /\ agent \in {"off", "on", "killed", "quit", "reaped"}
    /\ hello \in {"unsent", "sent", "answered"}
    /\ turn \in BOOLEAN /\ asked \subseteq Requests
    /\ written \in [Clients -> Nat]
    /\ told \in [Clients -> Receipt]
    /\ owed \subseteq Clients /\ silent \subseteq Clients

(* event and ReplayFrom are two reducers of the same events, and pending is *)
(* kept by neither: whenever no handler runs, what this process believes is *)
(* what a restart would read.                                              *)
LiveAgreesWithReplay == Served => View = disk

(* A command a client names once reaches the agent at most once, over every *)
(* retry, queueing, crash and restart (executeLocked's receipts and run     *)
(* fence, deliverQueued's forgotten receipt).                               *)
AtMostOnce == \A c \in Clients : written[c] <= 1

(* Nothing reaches the agent that the log does not already hold as an       *)
(* intent, so a crash leaves "delivery_unknown" and never a surprise.       *)
WriteAhead ==
    \A c \in Clients : written[c] > 0 => book[c].status # "none"

(* A client told "accepted" is told so again after any crash: the receipt   *)
(* was durable before the answer left.  unqueue keeps its receipt in memory *)
(* only.                                                                   *)
PromiseKept ==
    \A c \in Clients :
        told[c].status = "accepted" /\ told[c].cmd.op # "unqueue" =>
            book[c] = told[c]

(* A durable "accepted" is never written for a message that did not reach   *)
(* the agent.                                                              *)
AcceptedWasWritten ==
    \A c \in Clients :
        /\ book[c].status = "accepted"
        /\ book[c].cmd.op \in {"send", "reply", "interrupt", "setting"}
        => written[c] = 1

(* What the log holds about a command, this process knows: without it a     *)
(* retry would run again.                                                  *)
MemoryKnowsLog ==
    phase = "up" => \A c \in Clients : book[c].status # "none" =>
        receipts[c] = book[c]

(* While a message waits there is a turn, or a start, whose end delivers it *)
(* ("holding it would be a promise nothing is going to keep", enqueue).     *)
WaitingIsNotForgotten ==
    Served /\ snap.queued # None /\ agent = "on" =>
        snap.state \in InTurn \cup {"starting"}

(* Stopping never leaves a message in the slot, nor does a pending setting  *)
(* ever meet one: deliverQueued cannot be refused.                         *)
SlotIsFree == Served /\ (stopping \/ setting # None) => snap.queued = None

(* Full mode leaves no answerable request to a person, however the request  *)
(* and the change of mode crossed; one already answered this run is not     *)
(* answered again.                                                         *)
FullModeAnswers ==
    Served /\ agent = "on" /\ ~stopping /\ snap.state \in Running
    /\ snap.mode = "full" => pending \cap Automatic \subseteq auto

(* Every message that left the slot other than to the agent or back to its  *)
(* sender has been reported by the time the handler returns.                *)
DropsAreSaid == Served => owed = {}

(* No message is ever discarded without a word.                            *)
NothingDiscardedQuietly == silent = {}

(* Claude is given a message only between turns, and never while a setting  *)
(* is unconfirmed.                                                         *)
OneMessagePerTurn ==
    [][\A c \in Clients :
           written'[c] # written[c] /\ job.cmd.op = "send" =>
               ~turn /\ setting = None]_vars

(* A reply is written only to a request the agent still waits on: never     *)
(* twice for one request, never after the turn that asked ended.            *)
RepliesAreAwaited ==
    [][pc = "wire" /\ pc' = "receipt" /\ job.cmd.op = "reply" =>
           job.cmd.arg \in asked]_vars

(* A stop ends the run.                                                    *)
StopEnds == stopping ~> phase = "down"

(* A handler always gives the mutex back, or the process is gone.           *)
LockIsReleased == pc # "free" ~> pc = "free"

(* A waiting message is eventually delivered, taken back or dropped, if     *)
(* the agent answers and its turns end.                                    *)
WaitingSettles ==
    AgentFairness => \A c \in Clients : snap.queued = c ~> snap.queued # c

(* The promise of Delivery, kept by the log and the writes.                *)
Stage(c) ==
    CASE book[c].status = "none" -> "new"
      [] book[c].status = "delivery_unknown" -> "logged"
      [] OTHER -> "settled"

Promise == INSTANCE Delivery WITH stage <- [c \in Clients |-> Stage(c)],
                                  delivered <- written

KeepsDelivery == Promise!Spec
=============================================================================
