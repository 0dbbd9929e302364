------------------------------- MODULE History -------------------------------
(* One session's conversation: the supervisor's log and the store under it  *)
(* (sessionstore), the state recorded beside the records, retention         *)
(* (supervisor/history.go) and the daemon that reads all of it while it is  *)
(* written (server/projection.go).                                          *)
(*                                                                          *)
(* A record stands for what one step of the supervisor commits together; it *)
(* has a size of one, and of two while it carries the provider's payload.   *)
(* Background tasks are the normalized records, not raw frames.             *)
(*                                                                          *)
(* Fault_... is a plausible bug in the definition that follows it and no    *)
(* part of the specification.                                               *)
EXTENDS Integers, SequencesExt

CONSTANTS
    Clients,   \* ids of the user's messages
    Limit,     \* the budget of the stored conversation
    RawLimit,  \* the budget of the provider's payloads
    MaxRuns,   \* bound on the runs of the supervisor
    MaxSeq     \* bound on the records

ASSUME BoundAssumption ==
    /\ Limit \in Nat \ {0} /\ RawLimit \in Nat \ {0}
    /\ MaxRuns \in Nat \ {0} /\ MaxSeq \in Nat \ {0}

VARIABLES
    log,   \* the events table of the store
    mem,   \* the same records in the supervisor's memory
    raw,   \* its count of payloads stored
    rec,   \* the reduced state recorded beside the records
    bg,    \* the background tasks folded beside the records
    w,     \* where the supervisor is, and where it goes from there
    run,   \* its run
    view,  \* what the daemon answers with
    full   \* every record ever committed, with what retention removed

vars == <<log, mem, raw, rec, bg, w, run, view, full>>

Run == 1 .. MaxRuns
None == [seq |-> -1]
Other == [on |-> "off", off |-> "on"]
-----------------------------------------------------------------------------
(* What records reduce to: ReplayFrom for the snapshot, resumeEvents for    *)
(* the receipts and the settings.                                           *)
StateAfter ==
    [starting |-> "starting", idle |-> "idle", input |-> "working",
     ask |-> "waiting", answer |-> "working", end |-> "idle",
     ended |-> "interrupted"]

Blank == [state |-> "stopped", run |-> 0, pending |-> FALSE, setting |-> "none",
          receipts |-> {}, tasks |-> [r \in Run |-> "off"]]

Apply(c, e) ==
    IF e.kind = "checkpoint" THEN e.kept ELSE
    LET turns == e.kind \in DOMAIN StateAfter IN
    [state    |-> IF turns THEN StateAfter[e.kind] ELSE c.state,
     run      |-> IF turns THEN e.run ELSE c.run,
     pending  |-> \/ e.kind = "ask"
                  \/ /\ c.pending /\ e.kind \notin {"answer", "ended"}
                     /\ ~(turns /\ c.run # e.run),
     setting  |-> IF e.kind = "setting" THEN e.arg ELSE c.setting,
     receipts |-> IF e.kind = "input" THEN c.receipts \cup {e.arg}
                                      ELSE c.receipts,
     tasks    |-> IF e.kind = "task" THEN [c.tasks EXCEPT ![e.run] = e.arg]
                                     ELSE c.tasks]

Reductions(events) ==
    LET after[n \in 0 .. Len(events)] ==
            IF n = 0 THEN Blank ELSE Apply(after[n - 1], events[n])
    IN  after
Reduce(events)   == Reductions(events)[Len(events)]
Prefix(s, n)     == SubSeq(s, 1, n)
LastSeq(events)  == IF events = <<>> THEN 0 ELSE events[Len(events)].seq
Payloads(events) == {i \in DOMAIN events : events[i].raw}
RawBytes(events) == Cardinality(Payloads(events))
Bytes(events)    == Len(events) + RawBytes(events)
Inputs(events)   == {i \in DOMAIN events : events[i].kind = "input"}

States == {"stopped", "starting", "idle", "working", "waiting", "interrupted"}
Kinds  == {"starting", "idle", "input", "ask", "answer", "end", "ended",
           "setting", "say", "task", "shed", "checkpoint"}
Args   == Clients \cup {"none", "new", "on", "off"}
Tasks  == [Run -> {"on", "off"}]
Control ==
    [state : States, run : 0 .. MaxRuns, pending : BOOLEAN,
     setting : {"none", "new"}, receipts : SUBSET Clients, tasks : Tasks]
Event ==
    [seq : Nat, kind : Kinds, arg : Args, run : Run, raw : BOOLEAN,
     kept : Control]
Places == {"down", "open", "fold", "state", "ready", "retain", "mark", "trim"}

TypeOK ==
    /\ log \in Seq(Event) /\ mem \in Seq(Event) /\ full \in Seq(Event)
    /\ raw \in Int /\ run \in 0 .. MaxRuns
    /\ rec \in {None} \cup [seq : Nat, control : Control]
    /\ bg \in Tasks
    /\ w \in [at : Places, next : {"down", "ready", "retain", "trim"}]
    /\ view \in [at : {"new", "deriving", "read"}, seq : Nat,
                 run : 0 .. MaxRuns, tasks : Tasks]

Init ==
    /\ log = <<>> /\ mem = <<>> /\ full = <<>>
    /\ raw = 0 /\ run = 0
    /\ rec = None
    /\ bg = [r \in Run |-> "off"]
    /\ w = [at |-> "down", next |-> "down"]
    /\ view = [at |-> "new", seq |-> 0, run |-> 0, tasks |-> bg]
-----------------------------------------------------------------------------
(* Log.AppendBatch and what follows it: the records are committed, then the *)
(* background tasks are folded, then the reduced state is recorded.         *)
Commit(kind, arg, payload, next) ==
    LET e == [seq |-> LastSeq(mem) + 1, kind |-> kind, arg |-> arg,
              run |-> run, raw |-> payload, kept |-> Blank] IN
    /\ e.seq <= MaxSeq
    /\ log'  = Append(log, e)
    /\ mem'  = Append(mem, e)
    /\ full' = Append(full, e)
    /\ raw'  = raw + (IF payload THEN 1 ELSE 0)
    /\ w' = [at |-> "fold", next |-> next]
    /\ UNCHANGED <<rec, bg, run, view>>

Goto(at) == w' = [w EXCEPT !.at = at]

Fold ==
    /\ w.at = "fold"
    /\ LET e == mem[Len(mem)] IN
       bg' = IF e.kind = "task" THEN [bg EXCEPT ![e.run] = e.arg] ELSE bg
    /\ Goto("state")
    /\ UNCHANGED <<log, mem, raw, rec, run, view, full>>

Fault_OneBehind(events) ==
    [seq |-> LastSeq(events), control |-> Reduce(Prefix(events, Len(events) - 1))]
Recorded(events) ==
    [seq |-> LastSeq(events), control |-> Reduce(events)]
RecordState ==
    /\ w.at = "state"
    /\ rec' = Recorded(mem)
    /\ w' = [w EXCEPT !.at = w.next]
    /\ UNCHANGED <<log, mem, raw, bg, run, view, full>>
-----------------------------------------------------------------------------
(* The supervisor.                                                          *)

(* Run: the records are read back, and the new run's state is recorded      *)
(* before the first record of the run.                                      *)
Start ==
    /\ w.at = "down" /\ run < MaxRuns
    /\ run' = run + 1
    /\ mem' = log /\ raw' = RawBytes(log)
    /\ rec' = [seq |-> 0,
               control |-> [Blank EXCEPT !.state = "starting", !.run = run + 1]]
    /\ Goto("open")
    /\ UNCHANGED <<log, bg, view, full>>
Opens == w.at = "open" /\ Commit("starting", "none", FALSE, "ready")

Now == Reduce(mem)
In(state) == w.at = "ready" /\ Now.state = state

Initialized == In("starting") /\ Commit("idle", "none", TRUE, "ready")
Send(c) ==
    /\ In("idle") /\ c \notin Now.receipts
    /\ Commit("input", c, FALSE, "ready")
Set == In("idle") /\ Now.setting = "none" /\ Commit("setting", "new", FALSE, "ready")
Say == In("working") /\ Commit("say", "none", TRUE, "ready")
Ask == In("working") /\ Commit("ask", "none", TRUE, "ready")
Answer == In("waiting") /\ Commit("answer", "none", FALSE, "ready")
Task ==
    /\ In("working") \/ In("idle")
    /\ Commit("task", Other[Now.tasks[run]], FALSE, "ready")

(* The end of a turn: retention runs once it is recorded.                   *)
End == In("working") /\ Commit("end", "none", TRUE, "retain")

(* The agent is gone: its approvals are canceled.                           *)
Ended == w.at = "ready" /\ Now.state # "interrupted"
         /\ Commit("ended", "none", FALSE, "down")

(* The supervisor dies wherever it is.                                      *)
Crash ==
    /\ w.at # "down"
    /\ w' = [at |-> "down", next |-> "down"]
    /\ UNCHANGED <<log, mem, raw, rec, bg, run, view, full>>
-----------------------------------------------------------------------------
(* retainHistory, with the supervisor's lock held.                          *)

Active(c) == c.run # 0 /\ c.tasks[c.run] = "on"
Quiet     == Now.state = "idle" /\ ~Now.pending /\ ~Active(Now)
OverRaw   == raw > RawLimit
OverDisk  == Bytes(log) > Limit
(* The minute's check; one that finds nothing to do changes nothing.        *)
Tick ==
    /\ w.at = "ready" /\ Quiet /\ (OverRaw \/ OverDisk)
    /\ Goto("retain")
    /\ UNCHANGED <<log, mem, raw, rec, bg, run, view, full>>

Skips ==
    /\ w.at = "retain"
    /\ ~Quiet \/ ~(OverRaw \/ OverDisk)
    /\ Goto("ready")
    /\ UNCHANGED <<log, mem, raw, rec, bg, run, view, full>>

(* shedRaw: the oldest payloads before the latest message, until what is    *)
(* left is four fifths of the budget.                                       *)
Sheddable(events) ==
    {i \in Payloads(events) : \A j \in Inputs(events) : i < Max(Inputs(events))}
Chosen(events) ==
    {i \in Sheddable(events) :
        RawBytes(events) - Cardinality({j \in Sheddable(events) : j < i})
            > (RawLimit * 8) \div 10}
Shed(events) ==
    [i \in DOMAIN events |->
        IF i \in Chosen(events) THEN [events[i] EXCEPT !.raw = FALSE]
                                ELSE events[i]]
Sheds ==
    /\ w.at = "retain" /\ Quiet /\ OverRaw
    /\ mem' = Shed(mem)
    /\ \/ Chosen(mem) = {} /\ Goto("trim") /\ UNCHANGED <<log, raw>>
       \/ /\ Chosen(mem) # {}
          /\ log' = mem' /\ raw' = raw - Cardinality(Chosen(mem))
          /\ Goto("mark")
       \/ Chosen(mem) # {} /\ Goto("ready") /\ UNCHANGED <<log, raw>>
    /\ UNCHANGED <<rec, bg, run, view, full>>
Mark == w.at = "mark" /\ Commit("shed", "none", FALSE, "trim")

OnlyTrims ==
    /\ w.at = "retain" /\ Quiet /\ ~OverRaw /\ OverDisk
    /\ Goto("trim")
    /\ UNCHANGED <<log, mem, raw, rec, bg, run, view, full>>

(* The cut keeps an account of its own of approvals and background tasks.   *)
Track(t, e) ==
    LET fresh == e.kind \in DOMAIN StateAfter /\ t.run # e.run
        was   == IF fresh THEN [run |-> e.run, pending |-> FALSE,
                                active |-> FALSE] ELSE t IN
    CASE e.kind = "checkpoint" -> [t EXCEPT !.run = e.kept.run,
                                            !.pending = @ \/ e.kept.pending]
      [] e.kind = "ask"                -> [was EXCEPT !.pending = TRUE]
      [] e.kind \in {"answer", "ended"} -> [was EXCEPT !.pending = FALSE]
      [] e.kind = "task"               -> [was EXCEPT !.active = e.arg = "on"]
      [] OTHER                         -> was
Tracks(events) ==
    LET after[n \in 0 .. Len(events)] ==
            IF n = 0 THEN [run |-> 0, pending |-> FALSE, active |-> FALSE]
                     ELSE Track(after[n - 1], events[n])
    IN  after
Tracked(events) == Tracks(events)[Len(events)]

LatestTurn(events) ==
    IF Inputs(events) = {} THEN Len(events) ELSE Max(Inputs(events))
Fault_AnyRecord(events, i) == TRUE
TurnEnds(events, i) ==
    /\ events[i].kind \in {"idle", "end", "ended"}
    /\ LET t == Tracked(Prefix(events, i)) IN ~t.pending /\ ~t.active
Cuts(events) ==
    {i \in DOMAIN events :
        /\ i < LatestTurn(events)
        /\ TurnEnds(events, i)
        /\ Bytes(SubSeq(events, i + 1, Len(events))) <= (Limit * 8) \div 10}

(* makeHistoryCheckpoint, and Compact: what is cut is deleted and the       *)
(* checkpoint put in its place in one transaction.                          *)
Fault_SnapshotOnly(c) == [c EXCEPT !.receipts = {}]
Kept(c) == c
Compacted(events, i) ==
    <<[events[i] EXCEPT !.kind = "checkpoint", !.raw = FALSE, !.arg = "none",
           !.kept = Kept(Reduce(Prefix(events, i)))]>>
    \o SubSeq(events, i + 1, Len(events))
Trims ==
    /\ w.at = "trim"
    /\ IF OverDisk /\ Cuts(mem) # {}
       THEN /\ mem' = Compacted(mem, Min(Cuts(mem)))
            /\ log' = Compacted(log, Min(Cuts(mem)))
            /\ raw' = RawBytes(mem')
            /\ w' = [at |-> "state", next |-> "ready"]
       ELSE /\ Goto("ready")
            /\ UNCHANGED <<log, mem, raw>>
    /\ UNCHANGED <<rec, bg, run, view, full>>
-----------------------------------------------------------------------------
(* lockProjection: the recorded state is read, and what is derived from the *)
(* store is read after it whenever that state has moved.  Nobody sees the   *)
(* projection in between: its lock is held.                                 *)
Fault_Once(seq) == view.at = "new"
Moved(seq) == view.at = "new" \/ seq # view.seq
Read ==
    /\ view.at # "deriving" /\ rec # None
    /\ view' = [at    |-> IF Moved(rec.seq) THEN "deriving" ELSE "read",
                seq   |-> rec.seq, run |-> rec.control.run,
                tasks |-> IF Moved(rec.seq) THEN Blank.tasks ELSE view.tasks]
    /\ UNCHANGED <<log, mem, raw, rec, bg, w, run, full>>
Derive ==
    /\ view.at = "deriving"
    /\ view' = [view EXCEPT !.at = "read", !.tasks = bg]
    /\ UNCHANGED <<log, mem, raw, rec, bg, w, run, full>>
-----------------------------------------------------------------------------
Retain == Tick \/ Skips \/ Sheds \/ Mark \/ OnlyTrims \/ Trims

Next ==
    \/ Fold \/ RecordState \/ Start \/ Opens
    \/ Initialized \/ Set \/ Say \/ Ask \/ Answer \/ Task \/ End
    \/ \E c \in Clients : Send(c)
    \/ Ended \/ Crash \/ Retain
    \/ Read \/ Derive

Spec == Init /\ [][Next]_vars
-----------------------------------------------------------------------------
(* Retention is invisible to a restart: what the stored records reduce to   *)
(* is what all records ever committed do, so no duplicate is taken for a    *)
(* new command and no setting is lost, wherever the supervisor died         *)
(* (history.go:47-92, log.go:155-186).                                      *)
Remembers == Reduce(log) = Reduce(full)

(* "a conversation never loses half an exchange ... The most recent turn is *)
(* never shed" (docs/history.md:144, 128): what was cut ends with a turn    *)
(* that was over, nothing pending and no task active, and since the latest  *)
(* message every record and payload is stored (history.go:140-206, 235-285).*)
WholeTurns ==
    /\ log # <<>> /\ log[1].kind = "checkpoint"
       => LET c == Reduce(Prefix(full, log[1].seq)) IN
          c.state \in {"idle", "interrupted"} /\ ~c.pending /\ ~Active(c)
    /\ Inputs(full) # {}
       => LET n == Len(full) - Max(Inputs(full)) IN
          /\ n < Len(log)
          /\ SubSeq(log, Len(log) - n, Len(log))
             = SubSeq(full, Len(full) - n, Len(full))

(* The recorded state is what the records up to its position add up to, so  *)
(* a reader sees what a replay would tell; only between the start of a run  *)
(* and the first state of the run it is ahead of them (store.go:17-40,      *)
(* supervisor.go:189-206, 443-449).                                         *)
RecordedAddsUp ==
    rec # None =>
    \/ rec.control = Reduce(Prefix(full, rec.seq))
    \/ /\ rec.seq = 0
       /\ \A i \in DOMAIN full :
              full[i].run = rec.control.run => full[i].kind = "starting"

(* The daemon's answer never pairs a position with older background tasks   *)
(* of that run than the records had at the position (projection.go:133-146, *)
(* background.go:14-27, store.go:194-202).                                  *)
NeverBehind ==
    view.at = "read" =>
    \E n \in view.seq .. Len(full) :
        view.tasks[view.run] = Reduce(Prefix(full, n)).tasks[view.run]
=============================================================================
