------------------------------- MODULE Server -------------------------------
(***************************************************************************)
(* The life of the server process: the bootstrap of the three services on  *)
(* one platform runtime, the start, the timers of the expiration workers,  *)
(* and the shutdown, which the cleanup of a failed start and the handler   *)
(* of a signal may carry out at the same time.                             *)
(*                                                                         *)
(* Assumed of what is not in the repository: a closed HTTP application     *)
(* cannot listen again, a stop succeeds, and a stop of the platform that   *)
(* overtakes its start leaves it started or stopped.  A signal before the  *)
(* handlers are registered ends the process, which needs no model.         *)
(***************************************************************************)
EXTENDS Integers, Sequences, FiniteSets

CONSTANTS
  AccessWorkers,  \* the workers that the Access runtime schedules
  Sweep           \* the worker that Membership schedules

VARIABLES
  main,        \* where main() is: bootstrap, start, or the end
  failed,      \* bootstrap or start has failed
  handling,    \* the signal handlers are registered
  stopping,    \* which of the three stops main and the handler are at
  app,         \* the HTTP application
  platform,    \* the platform runtime: database, engine, processing
  access,      \* lifecycleState.status of the Access runtime
  timers,      \* intervals that are set
  running,     \* executions in flight of each worker
  overtaken    \* history: a stop has found no Access runtime to stop

vars == <<main, failed, handling, stopping, app, platform, access, timers,
          running, overtaken>>

host      == <<main, failed, handling, stopping>>
resources == <<app, platform, access, timers, running>>

ASSUME SweepIsApart == Sweep \notin AccessWorkers

Workers == AccessWorkers \union {Sweep}

\* Mutations: the orders in which a shutdown could take things down as well.
PlatformFirst == <<"platform", "app", "access">>
AppLast       == <<"access", "platform", "app">>

\* The stops of the server, in order.
Stops == <<"app", "access", "platform">>

Finished == Len(Stops) + 1

\* What the bootstrap waits for: the platform, and then for each service its
\* indexes, between which and its routes everything else is put together.
Bootstraps ==
  {"platform", "identity indexes", "identity routes", "membership indexes",
   "membership routes", "access indexes", "access routes"}

\* main is "gone" once the process has died of a rejection nobody handles; no
\* worker works twice at a time, whatever its interval and its batch.
TypeOK ==
  /\ main \in Bootstraps
       \union {"start", "listen", "cleanup", "done", "gone"}
  /\ failed \in BOOLEAN /\ handling \in BOOLEAN /\ overtaken \in BOOLEAN
  /\ stopping \in [{"main", "signal"} -> 0..Finished]
  /\ app \in {"open", "listening", "closed"}
  /\ platform \in {"absent", "created", "started", "stopped"}
  /\ access \in {"none", "started", "stopping", "stopped"}
  /\ timers \subseteq Workers
  /\ running \in [Workers -> 0..1]

Init ==
  /\ main      = "platform"
  /\ failed    = FALSE
  /\ handling  = FALSE
  /\ stopping  = [c \in {"main", "signal"} |-> 0]
  /\ app       = "open"
  /\ platform  = "absent"
  /\ access    = "none"
  /\ timers    = {}
  /\ running   = [w \in Workers |-> 0]
  /\ overtaken = FALSE

-----------------------------------------------------------------------------
(* Bootstrap and start. *)

\* Mutation: what was started is left as it is.
GiveUp ==
  /\ main'   = "done"
  /\ failed' = TRUE
  /\ UNCHANGED <<handling, stopping, resources, overtaken>>

CleanUp ==
  /\ main'     = "cleanup"
  /\ failed'   = TRUE
  /\ stopping' = [stopping EXCEPT !["main"] = 1]
  /\ UNCHANGED <<handling, resources, overtaken>>

\* A part of the bootstrap succeeds, or everything so far is cleaned up.
Bootstrap(from, to) ==
  /\ main   = from
  /\ main'  = to
  /\ UNCHANGED <<failed, stopping, app, access, running, overtaken>>

CreatePlatformRuntime ==
  /\ Bootstrap("platform", "identity indexes")
  /\ platform' = "created"
  /\ UNCHANGED <<handling, timers>>

BootstrapIdentity ==
  /\ Bootstrap("identity indexes", "identity routes")
  /\ UNCHANGED <<handling, platform, timers>>

RegisterIdentityRoutes ==
  /\ Bootstrap("identity routes", "membership indexes")
  /\ UNCHANGED <<handling, platform, timers>>

\* The interval is set before the routes are registered.
BootstrapMembership ==
  /\ Bootstrap("membership indexes", "membership routes")
  /\ timers' = timers \union {Sweep}
  /\ UNCHANGED <<handling, platform>>

RegisterMembershipRoutes ==
  /\ Bootstrap("membership routes", "access indexes")
  /\ UNCHANGED <<handling, platform, timers>>

BootstrapAccess ==
  /\ Bootstrap("access indexes", "access routes")
  /\ UNCHANGED <<handling, platform, timers>>

\* Once the routes of Access are there, its decisions are bound to the other
\* services, the signal handlers are registered, and the start begins.
RegisterAccessRoutes ==
  /\ Bootstrap("access routes", "start")
  /\ handling' = TRUE
  /\ UNCHANGED <<platform, timers>>

BootstrapFails ==
  /\ main \in Bootstraps
  /\ CleanUp

\* The Access runtime starts without a pause: it schedules its workers and
\* runs each of them once.
StartAccess ==
  /\ access'  = "started"
  /\ timers'  = timers \union AccessWorkers
  /\ running' = [w \in Workers |->
                   running[w] + (IF w \in AccessWorkers THEN 1 ELSE 0)]

PlatformStarts ==
  /\ main  = "start"
  /\ main' = "listen"
  /\ platform' \in {"started"} \union ({platform} \ {"created"})
  /\ StartAccess
  /\ UNCHANGED <<failed, handling, stopping, app, overtaken>>

\* The start of the platform is outside of the block that cleans up.
PlatformFails ==
  /\ main = "start"
  /\ GiveUp

Listen ==
  /\ main  = "listen"
  /\ app   = "open"
  /\ main' = "done"
  /\ app'  = "listening"
  /\ UNCHANGED <<failed, handling, stopping, platform, access, timers,
                 running, overtaken>>

ListenFails ==
  /\ main = "listen"
  /\ CleanUp

-----------------------------------------------------------------------------
(* The workers. *)

\* Mutation: nobody looks whether the last execution has ended.
NeverOverlaps(w) == FALSE

\* An execution is skipped while the one before is in flight.
Overlaps(w) == running[w] > 0

Tick(w) ==
  /\ w \in timers
  /\ ~Overlaps(w)
  /\ running' = [running EXCEPT ![w] = @ + 1]
  /\ UNCHANGED <<host, app, platform, access, timers, overtaken>>

Finish(w) ==
  /\ running[w] > 0
  /\ running' = [running EXCEPT ![w] = @ - 1]
  /\ UNCHANGED <<host, app, platform, access, timers, overtaken>>

\* A sweep whose list cannot be read rejects, and nobody handles that.
Perish ==
  /\ running[Sweep] > 0
  /\ main'     = "gone"
  /\ app'      = "closed"
  /\ platform' = "stopped"
  /\ access'   = "stopped"
  /\ timers'   = {}
  /\ running'  = [w \in Workers |-> 0]
  /\ stopping' = [c \in {"main", "signal"} |->
                    IF stopping[c] = 0 THEN 0 ELSE Finished]
  /\ UNCHANGED <<failed, handling, overtaken>>

-----------------------------------------------------------------------------
(* Shutdown. *)

Signal ==
  /\ handling
  /\ main # "gone"
  /\ stopping["signal"] = 0
  /\ stopping' = [stopping EXCEPT !["signal"] = 1]
  /\ UNCHANGED <<main, failed, handling, resources, overtaken>>

At(c, stop) ==
  /\ stopping[c] \in DOMAIN Stops
  /\ Stops[stopping[c]] = stop

Proceed(c) ==
  /\ stopping' = [stopping EXCEPT ![c] = @ + 1]
  /\ main' = IF c = "main" /\ stopping[c] + 1 = Finished THEN "done" ELSE main
  /\ UNCHANGED <<failed, handling>>

\* Closing the application clears the interval of Membership; a sweep in
\* flight goes on.
StopApp(c) ==
  /\ At(c, "app")
  /\ app'    = "closed"
  /\ timers' = timers \ {Sweep}
  /\ Proceed(c)
  /\ UNCHANGED <<platform, access, running, overtaken>>

\* Mutation: the intervals stay.
KeptTimers == timers

ClearedTimers == timers \ AccessWorkers

\* The first to ask stops the runtime, and whoever asks waits for it.
BeginStopAccess(c) ==
  /\ At(c, "access")
  /\ access = "started"
  /\ access' = "stopping"
  /\ timers' = ClearedTimers
  /\ UNCHANGED <<host, app, platform, running, overtaken>>

DrainAccess ==
  /\ access = "stopping"
  /\ \A w \in AccessWorkers : running[w] = 0
  /\ access' = "stopped"
  /\ UNCHANGED <<host, app, platform, timers, running, overtaken>>

EndStopAccess(c) ==
  /\ At(c, "access")
  /\ access \in {"none", "stopped"}
  /\ overtaken' = (overtaken \/ access = "none")
  /\ Proceed(c)
  /\ UNCHANGED resources

StopPlatform(c) ==
  /\ At(c, "platform")
  /\ platform' = IF platform = "absent" THEN "absent" ELSE "stopped"
  /\ Proceed(c)
  /\ UNCHANGED <<app, access, timers, running, overtaken>>

Stop(c) ==
  \/ StopApp(c) \/ BeginStopAccess(c) \/ EndStopAccess(c) \/ StopPlatform(c)

Boots ==
  \/ CreatePlatformRuntime
  \/ BootstrapIdentity   \/ RegisterIdentityRoutes
  \/ BootstrapMembership \/ RegisterMembershipRoutes
  \/ BootstrapAccess     \/ RegisterAccessRoutes
  \/ BootstrapFails

Starts == PlatformStarts \/ PlatformFails \/ Listen \/ ListenFails

\* A server that serves waits for its timers and for a signal; one that has
\* ended stays ended.
Ended == main \in {"done", "gone"} /\ stopping["signal"] \in {0, Finished}

Next ==
  \/ Boots \/ Starts
  \/ \E w \in Workers : Tick(w) \/ Finish(w)
  \/ Perish \/ Signal \/ DrainAccess
  \/ \E c \in {"main", "signal"} : Stop(c)
  \/ Ended /\ UNCHANGED vars

\* Awaited calls return, and executions of workers end; nothing makes a
\* signal come or a timer fire.
Fairness ==
  /\ WF_vars(Boots \/ Starts)
  /\ WF_vars(DrainAccess)
  /\ \A w \in Workers : WF_vars(Finish(w))
  /\ \A c \in {"main", "signal"} : WF_vars(Stop(c))

Spec == Init /\ [][Next]_vars /\ Fairness

-----------------------------------------------------------------------------
(* Properties. *)

Quiet ==
  /\ app # "listening" /\ timers = {}
  /\ \A w \in AccessWorkers : running[w] = 0
  /\ platform \in {"absent", "stopped"}

\* What GET /health/ready asks of the platform and of the Access runtime.
Ready ==
  /\ platform = "started" /\ access = "started"
  /\ AccessWorkers \subseteq timers

\* A server that takes requests is ready: nothing it needs is taken down
\* before it has closed, and a start that a signal has overtaken does not
\* open it on top of what the handler has stopped.
ServesWhenReady == app = "listening" => Ready

\* The platform is not stopped under an execution of the Access workers that
\* the runtime has started, unless the signal came too early to find it.
DrainedBeforePlatform ==
  [][platform = "started" /\ platform' = "stopped" /\ main' # "gone" =>
       overtaken \/ \A w \in AccessWorkers : running[w] = 0]_platform

\* Wherever a signal lands in the start, nothing is left behind when both the
\* start and the handler have returned; and nothing is left of a bootstrap or
\* a start that has failed once the platform was running.
NothingIsLeftBehind ==
  main = "done" =>
    /\ stopping["signal"] = Finished => Quiet
    /\ stopping["main"] = Finished => Quiet

\* A shutdown waits for the executions in flight, and it ends.
ShutdownEnds == stopping["signal"] > 0 ~> stopping["signal"] = Finished
=============================================================================
