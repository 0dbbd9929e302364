------------------------------ MODULE CodexTurn ------------------------------
(***************************************************************************)
(* The Codex side of one run of a supervisor: codex.go, codex_questions.go *)
(* and codex_progress.go, with the parts of supervisor.go and queue.go that *)
(* serve them.  What is new against Claude is that requests are answered    *)
(* later, by lines that race with the end of the turn they were about: a    *)
(* message can be steered into a running turn, a question can outlive its   *)
(* turn, and an interrupt can be refused.                                   *)
(*                                                                         *)
(* The supervisor and Codex are two processes joined by two pipes.  Codex   *)
(* answers requests and reports its turns from different tasks, so replies  *)
(* and notices keep their order among themselves only.                      *)
(*                                                                         *)
(* A handler runs under s.mu, so it is one step here; pc = "deliver" is the *)
(* deliverQueued that ends a consume, still under the mutex.  Module        *)
(* Supervisor has what happens between two appends of a handler (crashes,   *)
(* receipts, automatic approval); this one has none of it.                  *)
(*                                                                         *)
(* A turn is named by the client whose request began it.  An operator named *)
(* Fault_... is a plausible bug in the definition that follows it and no    *)
(* part of the specification.                                               *)
(***************************************************************************)
EXTENDS Naturals, FiniteSets, Sequences

CONSTANTS
    Clients,    \* client ids: each names one command
    Requests,   \* what Codex asks and waits for (approvals, requestUserInput)
    Questions,  \* what Codex asks without waiting (async agentMessage)
    Ops,        \* the operations clients use in this instance
    Central,    \* central login: initialize is followed by account/login
    Deadline,   \* CXZ_CODEX_PROGRESS_TIMEOUT is set
    None

ASSUME CodexAssumption ==
    /\ None \notin Clients \cup Requests \cup Questions
    /\ Requests \cap Questions = {}
    /\ Ops \subseteq {"send", "unqueue", "interrupt", "stop", "reply"}
    /\ Central \in BOOLEAN /\ Deadline \in BOOLEAN

VARIABLES
    state,      \* s.snap.State
    turn,       \* c.turn
    slot,       \* s.snap.QueuedID
    steering,   \* c.steering
    pending,    \* s.pending: requests and questions
    seen,       \* c.asyncSeen
    answering,  \* c.asyncReplies: the question a client's reply answers
    overdue,    \* c.progress.interrupt is set
    stopping,   \* s.stopping
    used,       \* client ids that have a receipt
    pc,         \* "free", "deliver", or "over" after the reader's end
    inbox,      \* the pipe to Codex
    replies,    \* what Codex answers to requests, in order
    notices,    \* what Codex reports and asks, in order
    alive,      \* the Codex process
    life,       \* what became of the turn a client's request asked for
    asking,     \* requests Codex waits on
    put,        \* requests Codex has made
    posed,      \* how often Codex has posed a question
    fate,       \* of a client's message: none, sent, gone (and reported)
    taken,      \* how often Codex took a client's message
    said,       \* how often a client's message entered the conversation
    answered,   \* how often Codex took an answer to a question
    closed,     \* questions dismissed, or canceled with everything pending
    ends,       \* turn_end records so far
    misled      \* a refusal was taken for the end of another turn

outbox    == <<replies, notices>>
aside     == <<seen, answering, overdue, stopping>>
memory    == <<state, turn, slot, steering, pending, aside, used>>
asks      == <<asking, put, posed>>
codex     == <<alive, life, asks>>
messages  == <<fate, taken, said>>
questions == <<answered, closed>>
turnends  == <<ends, misled>>
history   == <<messages, questions, turnends>>
vars      == <<memory, pc, inbox, outbox, codex, history>>

Blocking == pending \cap Requests
Running  == {t \in Clients : life[t] \in {"starting", "running"}}

Init ==
    /\ state = "starting" /\ turn = None /\ slot = None /\ steering = {}
    /\ pending = {} /\ seen = {} /\ answering = [c \in Clients |-> None]
    /\ overdue = FALSE /\ stopping = FALSE /\ used = {} /\ pc = "free"
    /\ inbox = <<[kind |-> "initialize", id |-> None, turn |-> None]>>
    /\ replies = <<>> /\ notices = <<>>
    /\ alive = TRUE /\ life = [c \in Clients |-> "none"]
    /\ asking = {} /\ put = {} /\ posed = [q \in Questions |-> 0]
    /\ fate = [c \in Clients |-> "none"]
    /\ taken = [c \in Clients |-> 0] /\ said = [c \in Clients |-> 0]
    /\ answered = [q \in Questions |-> 0] /\ closed = {}
    /\ ends = 0 /\ misled = FALSE

-----------------------------------------------------------------------------
(* The pipes.  A write to a dead process fails and kills what is dead.      *)

Write(kind, id, t) ==
    inbox' = IF alive THEN Append(inbox, [kind |-> kind, id |-> id,
                                         turn |-> t])
                      ELSE inbox

(* event("input"): the message is in the conversation, and the slot is      *)
(* emptied when it is the one waiting there.                                *)
LogInput(c) ==
    /\ said' = [said EXCEPT ![c] = @ + 1]
    /\ slot' = IF slot = c THEN None ELSE slot

(* dropQueued and unqueue: the slot is emptied, and that is reported.       *)
Fault_DropAlsoForgets ==
    /\ fate' = IF slot = None THEN fate ELSE [fate EXCEPT ![slot] = "gone"]
    /\ slot' = None /\ steering' = {}
DropQueued ==
    /\ fate' = IF slot = None THEN fate ELSE [fate EXCEPT ![slot] = "gone"]
    /\ slot' = None /\ steering' = steering

(* clearPending cancels questions along with requests.                      *)
ClearPending ==
    /\ pending' = {}
    /\ closed' = closed \cup (pending \cap Questions)

-----------------------------------------------------------------------------
(* Commands.                                                               *)

Submit(c, op) == pc = "free" /\ op \in Ops /\ c \notin used
Receipt(c)    == used' = used \cup {c}

(* A message starts a turn when the session is idle.  The conversation has  *)
(* it before it is written.                                                *)
Start(c) ==
    /\ LogInput(c)
    /\ state' = "working"
    /\ Write("start", c, None)

SendStart(c) ==
    /\ Submit(c, "send") /\ slot = None /\ state = "idle"
    /\ Start(c) /\ Receipt(c)
    /\ fate' = [fate EXCEPT ![c] = "sent"]
    /\ UNCHANGED <<turn, steering, pending, aside, pc, outbox, codex, taken,
                   questions, turnends>>

(* Into a running turn it is steered, and waits in the slot for the answer. *)
Fault_SteerIsSaid(c) ==
    said' = [said EXCEPT ![c] = @ + 1] /\ slot' = slot
Fault_NotHeld(c) == slot' = slot /\ said' = said
HoldSteered(c) == slot' = c /\ said' = said

SendSteer(c) ==
    /\ Submit(c, "send") /\ slot = None /\ state # "idle" /\ turn # None
    /\ steering' = steering \cup {c}
    /\ HoldSteered(c)
    /\ Write("steer", c, turn) /\ Receipt(c)
    /\ fate' = [fate EXCEPT ![c] = "sent"]
    /\ UNCHANGED <<state, turn, pending, aside, pc, outbox, codex, taken,
                   questions, turnends>>

(* Otherwise it waits unwritten (enqueue).                                 *)
SendLater(c) ==
    /\ Submit(c, "send") /\ slot = None /\ state # "idle" /\ turn = None
    /\ ~stopping /\ state \in {"starting", "working", "waiting_input"}
    /\ slot' = c /\ Receipt(c)
    /\ fate' = [fate EXCEPT ![c] = "sent"]
    /\ UNCHANGED <<state, turn, steering, pending, aside, pc, inbox, outbox,
                   codex, taken, said, questions, turnends>>

Unqueue(c) ==
    /\ Submit(c, "unqueue") /\ slot # None
    /\ DropQueued /\ Receipt(c)
    /\ UNCHANGED <<state, turn, pending, aside, pc, inbox, outbox, codex,
                   taken, said, questions, turnends>>

Interrupt(c) ==
    /\ Submit(c, "interrupt") /\ turn # None
    /\ ClearPending /\ DropQueued /\ state' = "working"
    /\ Write("interrupt", c, turn) /\ Receipt(c)
    /\ UNCHANGED <<turn, aside, pc, outbox, codex, taken, said,
                   answered, turnends>>

Stop(c) ==
    /\ Submit(c, "stop")
    /\ stopping' = TRUE /\ DropQueued /\ state' = "stopping" /\ Receipt(c)
    /\ UNCHANGED <<turn, pending, seen, answering, overdue, pc, inbox, outbox,
                   codex, taken, said, questions, turnends>>

(* A reply to what Codex waits on: the turn goes on when nothing else       *)
(* blocks it.                                                              *)
Fault_QuestionsBlock(r) == IF pending = {r} THEN "working" ELSE state
AfterReply(r) == IF Blocking = {r} THEN "working" ELSE state

Reply(c, r) ==
    /\ Submit(c, "reply") /\ r \in Blocking
    /\ pending' = pending \ {r} /\ state' = AfterReply(r)
    /\ Write("reply", r, None) /\ Receipt(c)
    /\ UNCHANGED <<turn, slot, steering, aside, pc, outbox, codex, history>>

(* answerAsync: the answer is a turn of its own.                            *)
Answer(c, q) ==
    /\ Submit(c, "reply") /\ q \in pending \cap Questions
    /\ state \in {"idle", "working"}
    /\ answering' = [answering EXCEPT ![c] = q]
    /\ pending' = pending \ {q} /\ state' = "working"
    /\ Write("answer", c, None) /\ Receipt(c)
    /\ UNCHANGED <<turn, slot, steering, seen, overdue, stopping, pc, outbox,
                   codex, history>>

Dismiss(c, q) ==
    /\ Submit(c, "reply") /\ q \in pending \cap Questions
    /\ pending' = pending \ {q} /\ closed' = closed \cup {q}
    /\ Receipt(c)
    /\ UNCHANGED <<state, turn, slot, steering, aside, pc, inbox, outbox,
                   codex, messages, answered, turnends>>

-----------------------------------------------------------------------------
(* The response deadline (checkProgress).  When it passes is a matter of    *)
(* time and of the items Codex reports running, and is left open.           *)

Fault_WatchOnce ==
    turn # None /\ state = "working" /\ ~stopping /\ Blocking = {} /\ ~overdue
Watched == turn # None /\ state = "working" /\ ~stopping /\ Blocking = {}

DeadlinePasses ==
    /\ pc = "free" /\ Deadline /\ Watched /\ ~overdue
    /\ overdue' = TRUE
    /\ state' = IF alive THEN state ELSE "failed"
    /\ Write("deadline", None, turn)
    /\ UNCHANGED <<turn, slot, steering, pending, seen, answering, stopping,
                   used, pc, outbox, codex, history>>

GraceEnds ==
    /\ pc = "free" /\ Watched /\ overdue
    /\ state' = "failed" /\ alive' = FALSE
    /\ UNCHANGED <<turn, slot, steering, pending, aside, used, pc, inbox,
                   outbox, life, asks, history>>

-----------------------------------------------------------------------------
(* consume: one line of Codex, and deliverQueued after it.                  *)

Replied(kind) ==
    /\ pc = "free" /\ replies # <<>> /\ Head(replies).kind = kind
    /\ replies' = Tail(replies) /\ notices' = notices
Named == Head(replies).id

Noticed(kind) ==
    /\ pc = "free" /\ notices # <<>> /\ Head(notices).kind = kind
    /\ notices' = Tail(notices) /\ replies' = replies
Subject == Head(notices).id

Fail == state' = "failed" /\ alive' = FALSE
Live == UNCHANGED <<state, alive>>

(* The handshake: initialize, the central login if there is one, and the    *)
(* thread.                                                                 *)
Greeted ==
    /\ \/ /\ Replied("initialized")
          /\ \/ /\ Central /\ Write("auth", None, None) /\ Live
             \/ /\ Central /\ Fail /\ inbox' = inbox
             \/ /\ ~Central /\ Write("thread", None, None) /\ Live
       \/ /\ Replied("authenticated")
          /\ Write("thread", None, None) /\ Live
       \/ /\ Replied("unauthenticated") /\ Fail /\ inbox' = inbox
    /\ UNCHANGED <<turn, slot, steering, pending, aside, used, life, asks,
                   history>>

ThreadReady ==
    /\ Replied("threaded")
    /\ \/ state' = "idle" /\ alive' = alive
       \/ Fail
    /\ UNCHANGED <<turn, slot, steering, pending, aside, used, inbox, life,
                   asks, history>>

(* The answer to an answer.  Refused, the question is put back.             *)
Fault_AlwaysRestored(c) == pending \cup {answering[c]}
Fault_NotRestored(c)    == pending
Restored(c) ==
    IF Head(replies).kind = "refused" THEN pending \cup {answering[c]}
                                     ELSE pending

IsAnswer == Named \in Clients /\ answering[Named] # None

AnswerReplied ==
    /\ Replied("ok") \/ Replied("refused")
    /\ IsAnswer
    /\ answering' = [answering EXCEPT ![Named] = None]
    /\ pending' = Restored(Named)
    /\ state' = IF Head(replies).kind = "refused" /\ turn = None
                THEN "idle" ELSE state
    /\ UNCHANGED <<turn, slot, steering, seen, overdue, stopping, used, inbox,
                   codex, history>>

(* The answer to a steer.  Refused, the message still waits in the slot.    *)
Fault_StillSteering(c) == steering
Answered(c) == steering \ {c}

SteerTaken ==
    /\ Replied("ok") /\ Named \in steering
    /\ steering' = Answered(Named)
    /\ LogInput(Named)
    /\ UNCHANGED <<state, turn, pending, aside, used, inbox, codex, fate,
                   taken, questions, turnends>>

SteerRefused ==
    /\ Replied("refused") /\ Named \in steering
    /\ steering' = Answered(Named)
    /\ UNCHANGED <<state, turn, slot, pending, aside, used, inbox, codex,
                   history>>

(* Any other request refused: the run ends if it was starting, otherwise    *)
(* the turn is said to have failed, be it an interrupt that was refused or  *)
(* another turn that runs.  turn keeps its value.                           *)
AskedForATurn == Named \in Clients /\ life[Named] = "refused"

RequestRefused ==
    /\ Replied("refused") /\ Named \notin steering /\ ~IsAnswer
    /\ IF state = "starting"
       THEN Fail /\ UNCHANGED <<pending, closed, turnends>>
       ELSE /\ state' = "idle" /\ ClearPending /\ ends' = ends + 1
            /\ misled' = (misled \/ turn # None \/ ~AskedForATurn)
            /\ alive' = alive
    /\ UNCHANGED <<turn, slot, steering, aside, used, inbox, life, asks,
                   messages, answered>>

(* The deadline's interrupt refused: no turn is looked at.                  *)
DeadlineRefused ==
    /\ Replied("late") /\ Fail
    /\ UNCHANGED <<turn, slot, steering, pending, aside, used, inbox, life,
                   asks, history>>

(* A result nothing is done with: of turn/start and turn/interrupt.         *)
Unremarkable ==
    /\ Replied("ok") /\ Named \notin steering /\ ~IsAnswer
    /\ UNCHANGED <<memory, inbox, codex, history>>

TurnStarted ==
    /\ Noticed("started")
    /\ turn' = Subject /\ state' = "working" /\ overdue' = FALSE
    /\ UNCHANGED <<slot, steering, pending, seen, answering, stopping, used,
                   inbox, codex, history>>

(* Only the running turn can complete.  Its requests expire; questions      *)
(* remain.                                                                 *)
Fault_AnyTurn(t) == turn # None
Current(t) == turn # None /\ t = turn
Remaining == pending \cap Questions

TurnCompleted ==
    /\ Noticed("completed")
    /\ IF Current(Subject)
       THEN /\ pending' = Remaining /\ turn' = None /\ overdue' = FALSE
            /\ ends' = ends + 1 /\ state' = "idle"
       ELSE UNCHANGED <<state, turn, pending, overdue, ends>>
    /\ UNCHANGED <<slot, steering, seen, answering, stopping, used, inbox,
                   codex, messages, questions, misled>>

Asked ==
    /\ Noticed("ask")
    /\ pending' = pending \cup {Subject} /\ state' = "waiting_input"
    /\ UNCHANGED <<turn, slot, steering, aside, used, inbox, codex, history>>

(* serverRequest/resolved: someone else answered, or Codex gave up.         *)
Resolved ==
    /\ Noticed("resolved")
    /\ pending' = pending \ {Subject}
    /\ state' = IF Subject \in pending /\ Blocking \subseteq {Subject}
                   /\ state = "waiting_input"
                THEN IF turn # None THEN "working" ELSE "idle"
                ELSE state
    /\ UNCHANGED <<turn, slot, steering, aside, used, inbox, codex, history>>

(* An async question is posed once, however often Codex repeats it.         *)
Posed(q) == IF q \in seen THEN pending ELSE pending \cup {q}

Wondered ==
    /\ Noticed("question")
    /\ pending' = Posed(Subject) /\ seen' = seen \cup {Subject}
    /\ UNCHANGED <<state, turn, slot, steering, answering, overdue, stopping,
                   used, inbox, codex, history>>

Consume ==
    /\ \/ Greeted \/ ThreadReady \/ SteerTaken \/ SteerRefused
       \/ AnswerReplied \/ RequestRefused \/ DeadlineRefused \/ Unremarkable
       \/ TurnStarted \/ TurnCompleted \/ Asked \/ Resolved \/ Wondered
    /\ pc' = IF slot' = None THEN "free" ELSE "deliver"

(* deliverQueued: not while a steer is unanswered, it may be the message.   *)
Fault_DeliverSteered == slot # None /\ ~stopping /\ state = "idle"
MayDeliver == slot # None /\ ~stopping /\ state = "idle" /\ steering = {}

Deliver ==
    /\ pc = "deliver" /\ pc' = "free"
    /\ IF MayDeliver THEN Start(slot)
                     ELSE UNCHANGED <<state, slot, inbox, said>>
    /\ UNCHANGED <<turn, steering, pending, aside, used, outbox, codex, fate,
                   taken, questions, turnends>>

Endings == IF stopping THEN {"stopped"} ELSE {"failed", "interrupted"}

(* The reader at end of file.                                              *)
Finish ==
    /\ pc = "free" /\ ~alive /\ replies = <<>> /\ notices = <<>>
    /\ pc' = "over" /\ ClearPending
    /\ state' \in Endings
    /\ UNCHANGED <<turn, slot, steering, aside, used, inbox, outbox, codex,
                   messages, answered, turnends>>

-----------------------------------------------------------------------------
(* Codex, as the supervisor relies on it: it reads its requests in order,   *)
(* runs one turn at a time, and says so in the order things happen.         *)

Replies(kind, id) ==
    replies' = Append(replies, [kind |-> kind, id |-> id])
Says(kind, id) ==
    notices' = Append(notices, [kind |-> kind, id |-> id])

Reads(kind) ==
    /\ alive /\ inbox # <<>> /\ Head(inbox).kind = kind
    /\ inbox' = Tail(inbox)
Wanted == Head(inbox)

Greets ==
    /\ \/ Reads("initialize") /\ Replies("initialized", None)
       \/ Reads("auth") /\ Replies("authenticated", None)
       \/ Reads("thread") /\ Replies("threaded", None)
       \/ Reads("auth") /\ Replies("unauthenticated", None)
       \/ /\ Reads("initialize") \/ Reads("thread")
          /\ Replies("refused", None)
    /\ UNCHANGED <<memory, pc, notices, codex, history>>

(* turn/start: a new turn, or input for the one running, or refused.        *)
Accepts ==
    /\ Reads("start")
    /\ taken' = [taken EXCEPT ![Wanted.id] = @ + 1]
    /\ life' = [life EXCEPT ![Wanted.id] =
                   IF Running = {} THEN "starting" ELSE "joined"]
    /\ Replies("ok", Wanted.id)
    /\ UNCHANGED <<memory, pc, notices, alive, asks, fate, said,
                   questions, turnends>>

Refuses ==
    /\ Reads("start")
    /\ life' = [life EXCEPT ![Wanted.id] = "refused"]
    /\ Replies("refused", Wanted.id)
    /\ UNCHANGED <<memory, pc, notices, alive, asks, history>>

Begins(t) ==
    /\ alive /\ life[t] = "starting"
    /\ life' = [life EXCEPT ![t] = "running"]
    /\ Says("started", t)
    /\ UNCHANGED <<memory, pc, inbox, replies, alive, asks, history>>

Steers ==
    /\ Reads("steer")
    /\ \/ /\ life[Wanted.turn] = "running"
          /\ taken' = [taken EXCEPT ![Wanted.id] = @ + 1]
          /\ Replies("ok", Wanted.id)
       \/ /\ taken' = taken
          /\ Replies("refused", Wanted.id)
    /\ UNCHANGED <<memory, pc, notices, codex, fate, said, questions,
                   turnends>>

(* A turn that has ended cannot be interrupted.                             *)
Interrupts ==
    /\ Reads("interrupt") \/ Reads("deadline")
    /\ IF life[Wanted.turn] = "running"
       THEN /\ life' = [life EXCEPT ![Wanted.turn] = "ended"]
            /\ asking' = {}
            /\ Replies("ok", Wanted.id) /\ Says("completed", Wanted.turn)
       ELSE /\ Replies(IF Wanted.kind = "deadline" THEN "late"
                                                  ELSE "refused", Wanted.id)
            /\ UNCHANGED <<life, asking, notices>>
    /\ UNCHANGED <<memory, pc, alive, put, posed, history>>

(* A reply to a request, and an answer, which waits for the running turn.   *)
HearsReply ==
    /\ Reads("reply")
    /\ asking' = asking \ {Wanted.id}
    /\ UNCHANGED <<memory, pc, outbox, alive, life, put, posed, history>>

HearsAnswer ==
    /\ Reads("answer")
    /\ \/ /\ life' = [life EXCEPT ![Wanted.id] = "held"]
          /\ answered' = [answered EXCEPT ![answering[Wanted.id]] = @ + 1]
          /\ Replies("ok", Wanted.id)
       \/ /\ Replies("refused", Wanted.id)
          /\ UNCHANGED <<life, answered>>
    /\ UNCHANGED <<memory, pc, notices, alive, asks, messages, closed,
                   turnends>>

TakesUp(t) ==
    /\ alive /\ life[t] = "held" /\ Running = {}
    /\ life' = [life EXCEPT ![t] = "starting"]
    /\ UNCHANGED <<memory, pc, inbox, outbox, alive, asks, history>>

Completes(t) ==
    /\ alive /\ life[t] = "running"
    /\ life' = [life EXCEPT ![t] = "ended"] /\ asking' = {}
    /\ Says("completed", t)
    /\ UNCHANGED <<memory, pc, inbox, replies, alive, put, posed, history>>

(* Late or repeated notice of a turn that is over.                          *)
Repeats(t) ==
    /\ alive /\ life[t] = "ended"
    /\ life' = [life EXCEPT ![t] = "repeated"]
    /\ Says("completed", t)
    /\ UNCHANGED <<memory, pc, inbox, replies, alive, asks, history>>

InTurn == \E t \in Clients : life[t] = "running"

Asks(r) ==
    /\ alive /\ InTurn /\ r \notin put
    /\ asking' = asking \cup {r} /\ put' = put \cup {r}
    /\ Says("ask", r)
    /\ UNCHANGED <<memory, pc, inbox, replies, alive, life, posed, history>>

Withdraws(r) ==
    /\ alive /\ r \in asking
    /\ asking' = asking \ {r}
    /\ Says("resolved", r)
    /\ UNCHANGED <<memory, pc, inbox, replies, alive, life, put, posed,
                   history>>

(* A question is posed, and may be repeated once.                           *)
Poses(q) ==
    /\ alive /\ InTurn /\ posed[q] < 2
    /\ posed' = [posed EXCEPT ![q] = @ + 1]
    /\ Says("question", q)
    /\ UNCHANGED <<memory, pc, inbox, replies, alive, life, asking, put,
                   history>>

(* The process ends by itself, or is killed after a stop or a cancel.       *)
Dies ==
    /\ alive /\ alive' = FALSE
    /\ UNCHANGED <<memory, pc, inbox, outbox, life, asks, history>>

-----------------------------------------------------------------------------
Command ==
    \E c \in Clients :
        \/ SendStart(c) \/ SendSteer(c) \/ SendLater(c) \/ Unqueue(c)
        \/ Interrupt(c) \/ Stop(c)
        \/ \E r \in Requests : Reply(c, r)
        \/ \E q \in Questions : Answer(c, q) \/ Dismiss(c, q)

Read ==
    \/ Greets \/ Accepts \/ Refuses \/ Steers \/ Interrupts \/ HearsReply
    \/ HearsAnswer

Turns ==
    \E t \in Clients : Begins(t) \/ TakesUp(t)

Finishes ==
    \E t \in Clients : Completes(t)

Chatters ==
    \/ \E t \in Clients : Repeats(t)
    \/ \E r \in Requests : Asks(r) \/ Withdraws(r)
    \/ \E q \in Questions : Poses(q)

Watch == DeadlinePasses \/ GraceEnds

Next ==
    \/ Command \/ Consume \/ Deliver \/ Watch \/ Finish
    \/ Read \/ Turns \/ Finishes \/ Chatters \/ Dies

Spec == Init /\ [][Next]_vars

(* The reader reads, a handler ends, the ticker ticks and /stop kills.      *)
(* Strong, because clients take the mutex too and sync.Mutex starves no     *)
(* waiter.                                                                 *)
Fairness ==
    /\ SF_vars(Consume) /\ WF_vars(Deliver) /\ SF_vars(Watch)
    /\ SF_vars(Finish) /\ WF_vars(stopping /\ Dies)

FairSpec == Spec /\ Fairness

(* Codex reads what it is sent, and a turn that waits on nobody ends.       *)
CodexFairness ==
    WF_vars(Read) /\ WF_vars(Turns) /\ WF_vars(asking = {} /\ Finishes)

-----------------------------------------------------------------------------
(* Properties.                                                             *)

Called ==
    [kind : {"initialize", "auth", "thread"}, id : {None}, turn : {None}]
    \cup [kind : {"start", "answer"}, id : Clients, turn : {None}]
    \cup [kind : {"steer", "interrupt"}, id : Clients, turn : Clients]
    \cup [kind : {"deadline"}, id : {None}, turn : Clients]
    \cup [kind : {"reply"}, id : Requests, turn : {None}]
Returned ==
    [kind : {"initialized", "authenticated", "unauthenticated", "threaded",
             "refused", "ok", "late"}, id : Clients \cup {None}]
Reported ==
    [kind : {"started", "completed"}, id : Clients]
    \cup [kind : {"ask", "resolved"}, id : Requests]
    \cup [kind : {"question"}, id : Questions]

(* The range of every variable.                                            *)
TypeOK ==
    /\ state \in {"starting", "idle", "working", "waiting_input", "stopping",
                  "stopped", "failed", "interrupted"}
    /\ turn \in Clients \cup {None} /\ slot \in Clients \cup {None}
    /\ steering \subseteq Clients
    /\ pending \subseteq Requests \cup Questions /\ seen \subseteq Questions
    /\ answering \in [Clients -> Questions \cup {None}]
    /\ overdue \in BOOLEAN /\ stopping \in BOOLEAN /\ used \subseteq Clients
    /\ pc \in {"free", "deliver", "over"}
    /\ inbox \in Seq(Called) /\ replies \in Seq(Returned)
    /\ notices \in Seq(Reported)
    /\ alive \in BOOLEAN
    /\ life \in [Clients -> {"none", "held", "starting", "running", "joined",
                             "ended", "repeated", "refused"}]
    /\ asking \subseteq put /\ put \subseteq Requests
    /\ posed \in [Questions -> 0..2]
    /\ fate \in [Clients -> {"none", "sent", "gone"}]
    /\ taken \in [Clients -> Nat] /\ said \in [Clients -> Nat]
    /\ answered \in [Questions -> Nat] /\ closed \subseteq Questions
    /\ ends \in Nat /\ misled \in BOOLEAN

(* "Sending it again here is how one message becomes two": Codex takes a    *)
(* message at most once, steered, refused, delivered later or taken back.   *)
TakenOnce == \A c \in Clients : taken[c] <= 1

(* The conversation has a message once, and only if Codex took it, refused  *)
(* to start a turn with it, has not read it yet, or is dead.                *)
SaidIsTaken ==
    \A c \in Clients :
        /\ said[c] <= 1
        /\ said[c] = 1 /\ alive =>
              \/ taken[c] = 1 \/ life[c] = "refused"
              \/ \E i \in DOMAIN inbox : inbox[i].kind = "start"
                                         /\ inbox[i].id = c

(* What Codex took enters the conversation, even when the message was       *)
(* dropped from the slot before Codex answered.                             *)
TakenIsSaid ==
    \A c \in Clients :
        taken[c] > 0 =>
            \/ said[c] > 0
            \/ /\ c \in steering
               /\ \E i \in DOMAIN replies :
                      replies[i] = [kind |-> "ok", id |-> c]

(* A message a client was promised is in the conversation or in the slot,   *)
(* also while Codex has it, unless its loss was reported.                   *)
NothingLost ==
    \A c \in Clients : fate[c] = "sent" => said[c] > 0 \/ slot = c

(* Every turn_end is the end of another turn, or of a turn Codex refused:   *)
(* stale and repeated completions produce none.                             *)
EndsAreReal ==
    ends <= Cardinality({c \in Clients :
                            life[c] \in {"ended", "repeated", "refused"}})

Quiet ==
    /\ pc = "free" /\ alive /\ ~misled /\ ~stopping
    /\ inbox = <<>> /\ replies = <<>> /\ notices = <<>>
    /\ \A t \in Clients : life[t] \notin {"held", "starting"}

(* When nothing is under way between them and no refusal misled it, the     *)
(* supervisor shows what Codex does: the turn it runs, and that it rests    *)
(* when it rests.                                                          *)
ShowsTheTurn ==
    Quiet /\ state \notin {"starting", "failed"} =>
        /\ turn = IF InTurn THEN CHOOSE t \in Clients : life[t] = "running"
                            ELSE None
        /\ (state = "idle") = ~InTurn

(* Nor does Codex wait on a request nobody is shown, and the session waits  *)
(* for input exactly when Codex does: an open question does not keep it.    *)
ShowsWhatIsAsked ==
    Quiet => /\ asking = Blocking
             /\ (state = "waiting_input") = (asking # {})

(* A question is answered at most once, however often it is repeated, and   *)
(* an answer that was refused leaves it open again.                         *)
AnsweredOnce == \A q \in Questions : answered[q] <= 1

(* A question that was shown is still open, being answered, answered, or    *)
(* was closed by a person: it outlives its turn, and a refused answer.      *)
QuestionsStayOpen ==
    \A q \in seen :
        \/ q \in pending \cup closed \/ answered[q] = 1
        \/ \E c \in Clients : answering[c] = q

(* If Codex reads and ends its turns, a waiting message leaves the slot,    *)
(* unless Codex waits on a person.                                         *)
SlotSettles ==
    CodexFairness => []<>(slot = None \/ pc = "over" \/ Blocking # {})

(* With a deadline set, silence ends: a turn shown as working and waiting   *)
(* on nobody is over, or asks, or the session fails, though Codex never     *)
(* says another word.                                                      *)
Silent == turn # None /\ state = "working" /\ ~stopping /\ Blocking = {}
SilenceEnds == []<>~(Silent /\ pc = "free")
=============================================================================
