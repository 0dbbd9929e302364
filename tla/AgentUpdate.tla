----------------------------- MODULE AgentUpdate -----------------------------
(* The update of one session's agent by the daemon (server/update.go): stop *)
(* an idle session, install the new manifest, launch it, or put the old one *)
(* back; and the recovery that runs after a daemon died on the way.         *)
(*                                                                          *)
(* The daemon's commands, updates and recoveries exclude each other (s.mu), *)
(* but the daemon may die between any two durable steps, an answer of the   *)
(* supervisor may be lost, and supervisors outlive the daemon.  A launched  *)
(* supervisor takes supervisor.lock or exits within the daemon's waits.     *)
(*                                                                          *)
(* Fault_... is a plausible bug in the definition that follows it and no    *)
(* part of the specification.                                               *)
EXTENDS Naturals

CONSTANTS
    Deaths,  \* bound on the deaths of the daemon
    Runs     \* bound on the runs of the session

ASSUME BoundAssumption == Deaths \in Nat /\ Runs \in Nat \ {0}

VARIABLES
    file,    \* session.json: what a supervisor reads when it starts
    row,     \* the same manifest in the daemon's database
    tx,      \* agent-update.json, and whether it was tried these 24 hours
    sup,     \* the supervisor that holds the session's lock
    hub,     \* where the daemon is, under its command lock
    wanted,  \* whether the user left the session running
    taken,   \* whether an update stopped it and no agent came up since
    deaths   \* deaths of the daemon so far

vars == <<file, row, tx, sup, hub, wanted, taken, deaths>>

Version == {"old", "new"}
Work    == {"none", "own", "user"}  \* what the agent is busy with
Gone    == [at |-> "none", ver |-> "old", work |-> "none", run |-> 0]
NoTx    == [on |-> FALSE, tried |-> FALSE]
Back    == {"release", "file", "row", "launch", "wait"}

TypeOK ==
    /\ file \in Version /\ row \in Version
    /\ tx \in [on : BOOLEAN, tried : BOOLEAN]
    /\ sup \in [at : {"none", "booting", "starting", "ready", "ending"},
                ver : Version, work : Work, run : 0 .. Runs]
    /\ hub \in [at : {"idle", "probed", "ask", "stop"} \cup Back, to : Version]
    /\ wanted \in BOOLEAN /\ taken \in BOOLEAN
    /\ deaths \in 0 .. Deaths

Idle == [at |-> "idle", to |-> "old"]

Init ==
    /\ file = "old" /\ row = "old"
    /\ tx = NoTx
    /\ sup = [at |-> "ready", ver |-> "old", work |-> "none", run |-> 1]
    /\ hub = Idle
    /\ wanted = TRUE /\ taken = FALSE
    /\ deaths = 0
-----------------------------------------------------------------------------
(* The supervisor.                                                          *)

(* A live session answers "status"; one that is only starting says so.      *)
Answers == sup.at \in {"starting", "ready", "ending"}

Listens ==
    /\ sup.at = "booting"
    /\ sup' = [sup EXCEPT !.at = "starting"]
    /\ UNCHANGED <<file, row, tx, hub, wanted, taken, deaths>>

(* The agent is initialised: the session is idle.                           *)
Initialises ==
    /\ sup.at = "starting"
    /\ sup' = [sup EXCEPT !.at = "ready"]
    /\ taken' = FALSE
    /\ UNCHANGED <<file, row, tx, hub, wanted, deaths>>

(* A supervisor ends: told to, or by itself at any moment.                  *)
Ends ==
    /\ sup.at # "none"
    /\ sup' = [Gone EXCEPT !.run = sup.run]
    /\ UNCHANGED <<file, row, tx, hub, wanted, taken, deaths>>

(* A turn ends; and the agent takes one up by itself (a background task).   *)
Works ==
    /\ sup.at = "ready"
    /\ sup' = [sup EXCEPT !.work = IF @ = "none" THEN "own" ELSE "none"]
    /\ UNCHANGED <<file, row, tx, hub, wanted, taken, deaths>>

(* The lock is free and the manifest is read from the file.                 *)
Launch(ver) ==
    sup' = [Gone EXCEPT !.at = "booting", !.ver = ver, !.run = sup.run + 1]
MayLaunch == sup.at = "none" /\ sup.run < Runs
-----------------------------------------------------------------------------
(* The user, through the daemon's command lock.                             *)

Send ==
    /\ hub.at = "idle" /\ sup.at = "ready"
    /\ sup' = [sup EXCEPT !.work = "user"]
    /\ UNCHANGED <<file, row, tx, hub, wanted, taken, deaths>>

(* A session that cannot be reached is stopped already.                     *)
Stop ==
    /\ hub.at = "idle" /\ wanted
    /\ sup' = IF Answers THEN [sup EXCEPT !.at = "ending"] ELSE sup
    /\ wanted' = IF sup.at = "booting" THEN wanted ELSE FALSE
    /\ taken'  = IF sup.at = "booting" THEN taken ELSE FALSE
    /\ UNCHANGED <<file, row, tx, hub, deaths>>

(* The daemon's manifest is written to the file before the launch.          *)
Resume ==
    /\ hub.at = "idle" /\ MayLaunch
    /\ file' = row
    /\ Launch(row)
    /\ wanted' = TRUE
    /\ UNCHANGED <<row, tx, hub, taken, deaths>>
-----------------------------------------------------------------------------
(* UpdateAgent: the readiness probe, the durable intent, and the stop that  *)
(* checks readiness again under the supervisor's own lock.                  *)
Goto(at) == hub' = [hub EXCEPT !.at = at]

Probe ==
    /\ hub.at = "idle" /\ row = "old"
    /\ sup.at = "ready" /\ sup.work = "none"
    /\ hub' = [at |-> "probed", to |-> "new"]
    /\ UNCHANGED <<file, row, tx, sup, wanted, taken, deaths>>

Intend ==
    /\ hub.at = "probed"
    /\ tx' = [on |-> TRUE, tried |-> FALSE]
    /\ Goto("ask")
    /\ UNCHANGED <<file, row, sup, wanted, taken, deaths>>

(* updateReason refuses what is not idle: nothing was stopped, and the      *)
(* intent is withdrawn.                                                     *)
Fault_AsProbed == sup.at = "ready"
Ready == sup.at = "ready" /\ sup.work = "none"
Refused ==
    /\ hub.at = "ask" /\ Answers /\ ~Ready
    /\ tx' = NoTx
    /\ hub' = Idle
    /\ UNCHANGED <<file, row, sup, wanted, taken, deaths>>

(* Without a definite refusal the intent stays.                             *)
Fault_Withdrawn == NoTx
AfterSilence == tx
StopsForUpdate ==
    /\ hub.at = "ask" /\ Ready
    /\ sup' = [sup EXCEPT !.at = "ending"]
    /\ taken' = TRUE
    /\ \/ Goto("release") /\ UNCHANGED tx
       \/ hub' = Idle /\ tx' = AfterSilence
    /\ UNCHANGED <<file, row, wanted, deaths>>

NotDelivered ==
    /\ hub.at = "ask"
    /\ hub' = Idle /\ tx' = AfterSilence
    /\ UNCHANGED <<file, row, sup, wanted, taken, deaths>>
-----------------------------------------------------------------------------
(* finishSessionUpdate, forward to the new manifest and back to the old;    *)
(* recoverAgentUpdates ends in the same way back.                           *)

(* A failure on the way forward is rolled back; on the way back it waits    *)
(* for recovery.                                                            *)
Fails ==
    /\ hub' = IF hub.to = "new" THEN [at |-> "stop", to |-> "old"] ELSE Idle
    /\ tx' = IF hub.to = "old" /\ hub.at \in {"launch", "wait"}
             THEN [tx EXCEPT !.tried = TRUE] ELSE tx

(* awaitSessionRelease.                                                     *)
Released ==
    /\ hub.at = "release" /\ sup.at = "none"
    /\ Goto("file")
    /\ UNCHANGED <<file, row, tx, sup, wanted, taken, deaths>>
ReleaseTimesOut ==
    /\ hub.at = "release" /\ sup.at # "none"
    /\ Fails
    /\ UNCHANGED <<file, row, sup, wanted, taken, deaths>>

(* saveAgentManifest.                                                       *)
SaveFile ==
    /\ hub.at = "file"
    /\ file' = hub.to
    /\ Goto("row")
    /\ UNCHANGED <<row, tx, sup, wanted, taken, deaths>>
SavedRow == hub.to
SaveRow ==
    /\ hub.at = "row"
    /\ row' = SavedRow
    /\ Goto("launch")
    /\ UNCHANGED <<file, tx, sup, wanted, taken, deaths>>

LaunchSession ==
    /\ hub.at = "launch" /\ MayLaunch
    /\ Launch(file)
    /\ Goto("wait")
    /\ UNCHANGED <<file, row, tx, wanted, taken, deaths>>
LaunchFails ==
    /\ hub.at = "launch"
    /\ Fails
    /\ UNCHANGED <<file, row, sup, wanted, taken, deaths>>

(* Only an initialised agent ends the transaction.                          *)
Fault_AnyAnswer == sup.at # "none"
Initialized == sup.at = "ready"
Launched ==
    /\ hub.at = "wait" /\ Initialized
    /\ tx' = NoTx
    /\ hub' = Idle
    /\ UNCHANGED <<file, row, sup, wanted, taken, deaths>>

(* The supervisor exited, or twenty seconds passed.                         *)
WaitFails ==
    /\ hub.at = "wait" /\ sup.at # "ready"
    /\ Fails
    /\ UNCHANGED <<file, row, sup, wanted, taken, deaths>>

(* The rollback stops whatever run was started, as far as it can be asked.  *)
StopForRollback ==
    /\ hub.at = "stop"
    /\ sup' = IF Answers THEN [sup EXCEPT !.at = "ending"] ELSE sup
    /\ Goto("release")
    /\ UNCHANGED <<file, row, tx, wanted, taken, deaths>>
-----------------------------------------------------------------------------
(* recoverAgentUpdates, every thirty seconds: a live session is left alone. *)
Recover ==
    /\ hub.at = "idle" /\ tx.on /\ ~tx.tried
    /\ \/ /\ sup.at = "ready"
          /\ tx' = NoTx
          /\ UNCHANGED hub
       \/ /\ sup.at \in {"none", "booting", "ending"}
          /\ tx' = [tx EXCEPT !.tried = TRUE]
          /\ hub' = [at |-> "release", to |-> "old"]
    /\ UNCHANGED <<file, row, sup, wanted, taken, deaths>>

DayPasses ==
    /\ hub.at = "idle" /\ tx.on /\ tx.tried
    /\ tx' = [tx EXCEPT !.tried = FALSE]
    /\ UNCHANGED <<file, row, sup, hub, wanted, taken, deaths>>

(* The daemon dies; a new one starts with what is on disk.                  *)
Dies ==
    /\ hub.at # "idle" /\ deaths < Deaths
    /\ deaths' = deaths + 1
    /\ hub' = Idle
    /\ UNCHANGED <<file, row, tx, sup, wanted, taken>>
-----------------------------------------------------------------------------
DaemonNext ==
    \/ Intend \/ Refused \/ StopsForUpdate \/ NotDelivered
    \/ Released \/ ReleaseTimesOut \/ SaveFile \/ SaveRow
    \/ LaunchSession \/ LaunchFails \/ Launched \/ WaitFails \/ StopForRollback

Next ==
    \/ Listens \/ Initialises \/ Ends \/ Works
    \/ Send \/ Stop \/ Resume
    \/ Probe \/ DaemonNext \/ Recover \/ DayPasses \/ Dies

Spec == Init /\ [][Next]_vars

(* The daemon's waits are bounded and its ticker runs; a supervisor that    *)
(* was told to stop ends; and launching the old agent works in the end.     *)
FairSpec ==
    /\ Spec
    /\ WF_vars(DaemonNext) /\ WF_vars(Recover) /\ WF_vars(DayPasses)
    /\ WF_vars(sup.at = "ending" /\ Ends) /\ WF_vars(Listens)
    /\ SF_vars(Initialises) /\ SF_vars(LaunchSession)
-----------------------------------------------------------------------------
(* A session that an update stopped is not forgotten: until an agent is up  *)
(* again, or the user stops it, the intent to bring it back is on disk,     *)
(* whatever was lost or died (update.go:126-140, 228-265).                  *)
NotForgotten == taken => tx.on

(* An update never ends a run in the middle of work, not between its probe  *)
(* and its stop either; and the rollback of a start it is unsure of never   *)
(* ends a run that works for the user, only what the agent took up by       *)
(* itself (update.go:129-140, 181-187, supervisor.go:760).                  *)
SparesWork ==
    [][sup.at \notin {"none", "ending"} /\ sup'.at = "ending"
       /\ hub.at # "idle"
       => \/ sup.work = "none"
          \/ hub.to = "old" /\ sup.work = "own"]_vars

(* With no update under way the two copies of the manifest and the agent    *)
(* that runs are of one version (update.go:42-52, 163-180).                 *)
Agrees ==
    hub.at = "idle" /\ ~tx.on
    => /\ file = row
       /\ sup.at \in {"booting", "starting", "ready"} => sup.ver = file

(* It comes back: an agent is up again, or the user stopped it, or the      *)
(* bound on the runs is reached (update.go:206-265).                        *)
ComesBack == taken ~> (~taken \/ sup.run = Runs)

(* "A stopped session is never started just to update it"                   *)
(* (docs/updates.md:134): once the user stopped a session, nothing but a    *)
(* resume starts it (update.go:228-265).                                    *)
StaysStopped == ~wanted => sup.at \in {"none", "ending"}
=============================================================================
