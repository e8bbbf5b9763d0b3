---------------------------- MODULE ServerProofs ----------------------------
(***************************************************************************)
(* Whatever workers the Access runtime schedules: a server that listens is *)
(* ready, a start or a shutdown that has returned leaves nothing behind,   *)
(* and the platform is not stopped under an execution.  The invariant says *)
(* how far each of the two shutdowns has come and, for the handler of a    *)
(* signal, what main() may still undo of it.                               *)
(***************************************************************************)
EXTENDS Server, TLAPS

LEMMA StopOrder ==
  /\ Finished = 4
  /\ DOMAIN Stops = 1..3
  /\ Stops[1] = "app" /\ Stops[2] = "access" /\ Stops[3] = "platform"
BY DEF Finished, Stops

\* Where a shutdown is by the number of its next stop.
LEMMA AtStop ==
  ASSUME TypeOK, NEW c \in {"main", "signal"}
  PROVE  /\ stopping[c] \in 0..4
         /\ At(c, "app") <=> stopping[c] = 1
         /\ At(c, "access") <=> stopping[c] = 2
         /\ At(c, "platform") <=> stopping[c] = 3
<1>1. stopping[c] \in 0..4
  BY StopOrder DEF TypeOK
<1>2. stopping[c] \in DOMAIN Stops => stopping[c] \in {1, 2, 3}
  BY <1>1, StopOrder
<1>3. stopping[c] \in {1, 2, 3} => stopping[c] \in DOMAIN Stops
  BY <1>1, StopOrder
<1>4. QED
  BY <1>1, <1>2, <1>3, StopOrder DEF At

-----------------------------------------------------------------------------
(* Where main() is. *)

\* Before the start begins nobody stops anything, and what there is to stop
\* has not been started.
MainIsInOrder ==
  /\ main \in Bootstraps =>
       /\ stopping["signal"] = 0
       /\ platform \in {"absent", "created"}
       /\ main # "platform" => platform = "created"
       /\ app = "open" /\ access = "none"
  /\ main = "start" => access = "none"
  /\ main \in {"start", "listen"} => app # "listening"
  /\ main = "start" /\ app = "open" => platform = "created"
  /\ stopping["main"] \in {1, 2, 3} => main = "cleanup"
  /\ main = "cleanup" => stopping["main"] \in {1, 2, 3}
  /\ stopping["main"] = 4 => main \in {"done", "gone"}

\* The handlers of the signals are not registered before the start begins.
HandlesInTime == handling => main \notin Bootstraps

\* What the timers and the workers of Access do by the status of its runtime.
AccessIsInOrder ==
  /\ access # "started" => timers \intersect AccessWorkers = {}
  /\ access \in {"none", "stopped"} =>
       \A w \in AccessWorkers : running[w] = 0

\* What a shutdown has stopped stays stopped, unless the start goes on after
\* the handler of a signal has been there.
StopsHaveHappened ==
  /\ \A c \in {"main", "signal"} :
       stopping[c] >= 2 => app = "closed" /\ Sweep \notin timers
  /\ stopping["main"] >= 3 => access \in {"none", "stopped"}
  /\ stopping["signal"] >= 3 =>
       /\ access = "stopped" \/ overtaken
       /\ access \in {"none", "stopped"} \/ main = "listen"
            \/ stopping["main"] \in {1, 2}
  /\ stopping["main"] = 4 => platform \in {"absent", "stopped"}
  /\ stopping["signal"] = 4 =>
       \/ platform \in {"absent", "stopped"} \/ main = "listen"
       \/ stopping["main"] \in {1, 2, 3}

\* A server about to listen is ready unless it has been closed.
OpensWhenReady == main = "listen" /\ app = "open" => Ready

Safe ==
  /\ TypeOK /\ HandlesInTime /\ MainIsInOrder /\ AccessIsInOrder /\ StopsHaveHappened
  /\ OpensWhenReady /\ ServesWhenReady

-----------------------------------------------------------------------------
(* Bootstrap and start. *)

LEMMA InitSafe == Init => Safe
<1> SUFFICES ASSUME Init PROVE Safe
  OBVIOUS
<1>1. TypeOK
  <2>1. 0 \in 0..Finished
    BY StopOrder
  <2>2. stopping \in [{"main", "signal"} -> 0..Finished]
    BY <2>1 DEF Init
  <2>3. failed \in BOOLEAN /\ handling \in BOOLEAN /\ overtaken \in BOOLEAN
    BY DEF Init
  <2>4. running \in [Workers -> 0..1]
    BY DEF Init
  <2>5. QED
    BY <2>2, <2>3, <2>4 DEF Init, TypeOK, Bootstraps
<1>2. HandlesInTime
  BY DEF Init, HandlesInTime
<1>3. MainIsInOrder /\ AccessIsInOrder /\ StopsHaveHappened
  BY DEF Init, MainIsInOrder, AccessIsInOrder, StopsHaveHappened, Bootstraps,
         Workers
<1>4. QED
  BY <1>1, <1>2, <1>3 DEF Safe, Init, OpensWhenReady, ServesWhenReady

\* A part of the bootstrap: nothing is started but the timer of Membership.
LEMMA BootStep ==
  ASSUME Safe,
         \/ CreatePlatformRuntime
         \/ BootstrapIdentity   \/ RegisterIdentityRoutes
         \/ BootstrapMembership \/ RegisterMembershipRoutes
         \/ BootstrapAccess     \/ RegisterAccessRoutes
  PROVE  Safe'
<1> USE DEF Safe
<1>1. /\ main \in Bootstraps /\ main' \in Bootstraps \union {"start"}
      /\ main' # "platform" /\ platform' = "created"
      /\ timers' \in {timers, timers \union {Sweep}}
      /\ UNCHANGED <<failed, stopping, app, access, running, overtaken>>
  BY DEF MainIsInOrder, Bootstraps, Bootstrap, CreatePlatformRuntime,
         BootstrapIdentity, RegisterIdentityRoutes, BootstrapMembership,
         RegisterMembershipRoutes, BootstrapAccess, RegisterAccessRoutes
<1>2. /\ app = "open" /\ access = "none"
      /\ stopping["signal"] = 0 /\ stopping["main"] = 0
  <2>1. stopping["main"] \in 0..4
    BY AtStop
  <2>2. main \in Bootstraps
    BY <1>1
  <2>3. app = "open" /\ access = "none" /\ stopping["signal"] = 0
    BY <2>2 DEF MainIsInOrder
  <2>4. main \notin {"cleanup", "done", "gone"}
    BY <2>2 DEF Bootstraps
  <2>5. stopping["main"] = 0
    BY <2>1, <2>4 DEF MainIsInOrder
  <2>6. QED
    BY <2>3, <2>5
<1>3. TypeOK'
  <2>1. handling' \in BOOLEAN
    BY DEF TypeOK, CreatePlatformRuntime, BootstrapIdentity,
           RegisterIdentityRoutes, BootstrapMembership,
           RegisterMembershipRoutes, BootstrapAccess, RegisterAccessRoutes
  <2>2. QED
    BY <1>1, <2>1 DEF TypeOK, Bootstraps, Workers
<1>4. MainIsInOrder'
  BY <1>1, <1>2 DEF MainIsInOrder, Bootstraps
<1>5. AccessIsInOrder'
  BY <1>1, <1>2, SweepIsApart DEF AccessIsInOrder
<1>6. StopsHaveHappened'
  BY <1>1, <1>2 DEF StopsHaveHappened
<1>7. OpensWhenReady' /\ ServesWhenReady'
  BY <1>1, <1>2 DEF OpensWhenReady, ServesWhenReady, Bootstraps
<1>8. HandlesInTime'
  <2>1. CASE RegisterAccessRoutes
    BY <2>1 DEF RegisterAccessRoutes, Bootstrap, HandlesInTime, Bootstraps
  <2>2. CASE ~RegisterAccessRoutes
    BY <1>1, <2>2 DEF HandlesInTime, CreatePlatformRuntime, BootstrapIdentity,
       RegisterIdentityRoutes, BootstrapMembership, RegisterMembershipRoutes,
       BootstrapAccess
  <2>3. QED
    BY <2>1, <2>2
<1>9. QED
  BY <1>3, <1>4, <1>5, <1>6, <1>7, <1>8

\* The cleanup of a failed bootstrap, or of a start whose listen has failed,
\* begins.
LEMMA CleanUpStep ==
  ASSUME Safe, main \in Bootstraps \/ main = "listen", CleanUp
  PROVE  Safe'
<1> USE DEF Safe
<1>1. /\ main' = "cleanup"
      /\ UNCHANGED <<app, platform, access, timers, running,
                     overtaken>>
  BY DEF CleanUp, resources
<1>2. /\ stopping'["main"] = 1
      /\ stopping'["signal"] = stopping["signal"]
  BY DEF CleanUp, TypeOK
<1>3. stopping["signal"] \in 0..4 /\ stopping["main"] \in 0..4
  BY AtStop
<1>4. TypeOK'
  BY <1>1, StopOrder DEF TypeOK, CleanUp
<1>5. MainIsInOrder'
  <2>1. main' \notin Bootstraps \union {"start", "listen"}
    BY <1>1 DEF Bootstraps
  <2>2. stopping'["main"] \in {1, 2, 3} /\ stopping'["main"] # 4
    BY <1>2
  <2>3. QED
    BY <1>1, <2>1, <2>2 DEF MainIsInOrder
<1>6. AccessIsInOrder'
  BY <1>1 DEF AccessIsInOrder
<1>7. StopsHaveHappened'
  BY <1>1, <1>2, <1>3 DEF StopsHaveHappened, MainIsInOrder
<1>8. OpensWhenReady' /\ ServesWhenReady'
  BY <1>1 DEF OpensWhenReady, ServesWhenReady, Ready
<1>9. HandlesInTime'
  BY <1>1 DEF HandlesInTime, Bootstraps
<1>10. QED
  BY <1>4, <1>5, <1>6, <1>7, <1>8, <1>9

\* The platform has started, or a stop has overtaken it, and so starts the
\* Access runtime, whatever the handler of a signal has done by then.
LEMMA PlatformStep ==
  ASSUME Safe, PlatformStarts
  PROVE  Safe'
<1> USE DEF Safe
<1>1. /\ main = "start" /\ main' = "listen"
      /\ platform' \in {"started"} \union ({platform} \ {"created"})
      /\ access = "none" /\ access' = "started"
      /\ timers' = timers \union AccessWorkers
      /\ UNCHANGED <<failed, handling, stopping, app, overtaken>>
  BY DEF PlatformStarts, StartAccess, MainIsInOrder
<1>2. stopping["signal"] \in 0..4 /\ stopping["main"] = 0
  BY <1>1, AtStop DEF MainIsInOrder
<1>3. running' \in [Workers -> 0..1]
  <2>1. \A w \in AccessWorkers : running[w] = 0
    BY <1>1 DEF AccessIsInOrder
  <2>2. \A w \in Workers :
          running[w] + (IF w \in AccessWorkers THEN 1 ELSE 0) \in 0..1
    BY <2>1 DEF TypeOK
  <2>3. QED
    BY <2>2 DEF PlatformStarts, StartAccess
<1>4. TypeOK'
  BY <1>1, <1>3 DEF TypeOK, Workers
<1>5. MainIsInOrder'
  BY <1>1, <1>2 DEF MainIsInOrder, Bootstraps
<1>6. AccessIsInOrder'
  BY <1>1 DEF AccessIsInOrder
<1>7. StopsHaveHappened'
  BY <1>1, <1>2, SweepIsApart DEF StopsHaveHappened
<1>8. OpensWhenReady' /\ ServesWhenReady'
  BY <1>1 DEF OpensWhenReady, ServesWhenReady, Ready, MainIsInOrder
<1>9. HandlesInTime'
  BY <1>1 DEF HandlesInTime, Bootstraps
<1>10. QED
  BY <1>4, <1>5, <1>6, <1>7, <1>8, <1>9

\* The start returns: it has failed before anything was started, or the
\* application, which no stop has closed, listens.
LEMMA ReturnStep ==
  ASSUME Safe, PlatformFails \/ Listen
  PROVE  Safe'
<1> USE DEF Safe
<1>1. /\ main' = "done"
      /\ UNCHANGED <<handling, stopping, platform, access, timers, running,
                     overtaken>>
  BY DEF PlatformFails, GiveUp, Listen, resources
<1>2. /\ main \in {"start", "listen"}
      /\ \/ main = "start" /\ app' = app
         \/ main = "listen" /\ app = "open" /\ app' = "listening"
  BY DEF PlatformFails, GiveUp, Listen, resources
<1>3. stopping["signal"] \in 0..4 /\ stopping["main"] = 0
  BY <1>2, AtStop DEF MainIsInOrder
<1>4. TypeOK'
  BY <1>1, <1>2 DEF TypeOK, PlatformFails, GiveUp, Listen
<1>5. MainIsInOrder'
  BY <1>1, <1>2, <1>3 DEF MainIsInOrder, Bootstraps
<1>6. AccessIsInOrder'
  BY <1>1 DEF AccessIsInOrder
<1>7. StopsHaveHappened'
  <2>1. CASE main = "start"
    BY <1>1, <1>2, <1>3, <2>1 DEF StopsHaveHappened, MainIsInOrder
  <2>2. CASE main = "listen"
    <3>1. stopping["signal"] < 2
      BY <1>2, <1>3, <2>2 DEF StopsHaveHappened
    <3>2. QED
      BY <1>1, <1>3, <3>1 DEF StopsHaveHappened
  <2>3. QED
    BY <1>2, <2>1, <2>2
<1>8. OpensWhenReady' /\ ServesWhenReady'
  BY <1>1, <1>2 DEF OpensWhenReady, ServesWhenReady, Ready, MainIsInOrder
<1>9. HandlesInTime'
  BY <1>1 DEF HandlesInTime, Bootstraps
<1>10. QED
  BY <1>4, <1>5, <1>6, <1>7, <1>8, <1>9

-----------------------------------------------------------------------------
(* Workers. *)

\* A timer fires, or an execution ends: none of Access once its runtime has
\* stopped.
LEMMA WorkStep ==
  ASSUME Safe, NEW w \in Workers, Tick(w) \/ Finish(w)
  PROVE  Safe'
<1> USE DEF Safe
<1>1. UNCHANGED <<main, failed, stopping, app, platform, access, timers,
                  overtaken>>
  BY DEF Tick, Finish, host
<1>2. handling' = handling
  BY DEF Tick, Finish, host
<1>3. running' \in [Workers -> 0..1]
  <2>1. running[w] \in 0..1 /\ running \in [Workers -> 0..1]
    BY DEF TypeOK
  <2>2. CASE Tick(w)
    BY <2>1, <2>2 DEF Tick, Overlaps
  <2>3. CASE Finish(w)
    BY <2>1, <2>3 DEF Finish
  <2>4. QED
    BY <2>2, <2>3
<1>4. handling' \in BOOLEAN
  BY <1>2 DEF TypeOK
<1>5. TypeOK'
  BY <1>1, <1>3, <1>4 DEF TypeOK
<1>6. AccessIsInOrder'
  <2>1. (access # "started" => timers \intersect AccessWorkers = {})'
    BY <1>1 DEF AccessIsInOrder
  <2>2. ASSUME access \in {"none", "stopped"}, NEW v \in AccessWorkers
        PROVE  running'[v] = 0
    <3>1. running[v] = 0 /\ v \notin timers
      BY <2>2 DEF AccessIsInOrder
    <3>2. w # v
      BY <3>1 DEF Tick, Finish
    <3>3. QED
      BY <3>1, <3>2 DEF Tick, Finish, TypeOK, Workers
  <2>3. QED
    BY <1>1, <2>1, <2>2 DEF AccessIsInOrder
<1>7. MainIsInOrder' /\ StopsHaveHappened'
  BY <1>1 DEF MainIsInOrder, StopsHaveHappened
<1>8. OpensWhenReady' /\ ServesWhenReady'
  BY <1>1 DEF OpensWhenReady, ServesWhenReady, Ready
<1>9. HandlesInTime'
  BY <1>1, <1>2 DEF HandlesInTime
<1>10. QED
  BY <1>5, <1>6, <1>7, <1>8, <1>9

\* The process dies and takes everything with it.
LEMMA PerishStep ==
  ASSUME Safe, Perish
  PROVE  Safe'
<1> USE DEF Safe
<1>1. /\ main' = "gone" /\ app' = "closed" /\ platform' = "stopped"
      /\ access' = "stopped" /\ timers' = {}
      /\ running' = [w \in Workers |-> 0]
      /\ UNCHANGED <<failed, overtaken>>
  BY DEF Perish
<1>2. handling' = handling
  BY DEF Perish
<1>3. stopping' = [c \in {"main", "signal"} |->
                    IF stopping[c] = 0 THEN 0 ELSE 4]
  BY StopOrder DEF Perish
<1>4. /\ stopping'["main"] \in {0, 4} /\ stopping'["signal"] \in {0, 4}
      /\ stopping' \in [{"main", "signal"} -> 0..4]
  BY <1>3
<1>5. handling' \in BOOLEAN
  BY <1>2 DEF TypeOK
<1>6. TypeOK'
  <2>1. running' \in [Workers -> 0..1] /\ timers' \subseteq Workers
    BY <1>1
  <2>2. QED
    BY <1>1, <1>4, <1>5, <2>1, StopOrder DEF TypeOK
<1>7. main' \notin Bootstraps \union {"start", "listen", "cleanup"}
  BY <1>1 DEF Bootstraps
<1>8. MainIsInOrder'
  BY <1>1, <1>4, <1>7 DEF MainIsInOrder
<1>9. AccessIsInOrder'
  BY <1>1 DEF AccessIsInOrder, Workers
<1>10. StopsHaveHappened'
  BY <1>1, <1>4 DEF StopsHaveHappened
<1>11. OpensWhenReady' /\ ServesWhenReady'
  BY <1>1 DEF OpensWhenReady, ServesWhenReady
<1>12. HandlesInTime'
  BY <1>7 DEF HandlesInTime
<1>13. QED
  BY <1>6, <1>8, <1>9, <1>10, <1>11, <1>12

-----------------------------------------------------------------------------
(* Shutdown. *)

\* A signal arrives once its handler is registered.
LEMMA SignalStep ==
  ASSUME Safe, Signal
  PROVE  Safe'
<1> USE DEF Safe
<1>1. UNCHANGED <<main, failed, app, platform, access, timers, running,
                  overtaken>>
  BY DEF Signal, resources
<1>2. handling /\ handling' = handling
  BY DEF Signal
<1>3. main \notin Bootstraps
  BY <1>2 DEF HandlesInTime
<1>4. /\ stopping'["main"] = stopping["main"]
      /\ stopping'["signal"] = 1
      /\ stopping' \in [{"main", "signal"} -> 0..4]
  BY StopOrder DEF Signal, TypeOK
<1>5. handling' \in BOOLEAN
  BY <1>2 DEF TypeOK
<1>6. TypeOK'
  BY <1>1, <1>4, <1>5, StopOrder DEF TypeOK
<1>7. MainIsInOrder'
  BY <1>1, <1>3, <1>4 DEF MainIsInOrder
<1>8. AccessIsInOrder'
  BY <1>1 DEF AccessIsInOrder
<1>9. StopsHaveHappened'
  BY <1>1, <1>4 DEF StopsHaveHappened
<1>10. OpensWhenReady' /\ ServesWhenReady'
  BY <1>1 DEF OpensWhenReady, ServesWhenReady, Ready
<1>11. HandlesInTime'
  BY <1>1, <1>3 DEF HandlesInTime
<1>12. QED
  BY <1>6, <1>7, <1>8, <1>9, <1>10, <1>11

\* A stop has returned and the next one is called: main() is done when the
\* last has, and the handler of a signal does not move it.
LEMMA ProceedStep ==
  ASSUME Safe, NEW c \in {"main", "signal"}, stopping[c] \in {1, 2, 3},
         Proceed(c)
  PROVE  /\ stopping'[c] = stopping[c] + 1
         /\ \A d \in {"main", "signal"} : d # c => stopping'[d] = stopping[d]
         /\ stopping' \in [{"main", "signal"} -> 0..4]
         /\ stopping["main"] \in 0..4 /\ stopping["signal"] \in 0..4
         /\ main \notin Bootstraps /\ main' \notin Bootstraps
         /\ c = "signal" => main' = main
         /\ c = "main" => main = "cleanup"
         /\ c = "main" => main' = IF stopping[c] = 3 THEN "done" ELSE "cleanup"
<1> USE DEF Safe
<1>1. stopping \in [{"main", "signal"} -> 0..4]
  BY StopOrder DEF TypeOK
<1>2. /\ stopping'[c] = stopping[c] + 1
      /\ \A d \in {"main", "signal"} : d # c => stopping'[d] = stopping[d]
      /\ stopping' \in [{"main", "signal"} -> 0..4]
  BY <1>1 DEF Proceed
<1>3. main \notin Bootstraps
  <2>1. "cleanup" \notin Bootstraps
    BY DEF Bootstraps
  <2>2. QED
    BY <2>1 DEF MainIsInOrder
<1>4. c = "main" => main = "cleanup"
  BY DEF MainIsInOrder
<1>5. /\ c = "signal" => main' = main
      /\ c = "main" => main' = IF stopping[c] = 3 THEN "done" ELSE "cleanup"
  BY <1>1, <1>4, StopOrder DEF Proceed
<1>6. main' \notin Bootstraps
  BY <1>3, <1>5 DEF Bootstraps
<1>7. QED
  BY <1>1, <1>2, <1>3, <1>4, <1>5, <1>6

\* What holds of main() when a stop has returned.
LEMMA ProceedKeepsOrder ==
  ASSUME Safe, NEW c \in {"main", "signal"}, stopping[c] \in {1, 2, 3},
         Proceed(c), app' = app \/ app' = "closed", access' = access,
         platform' = platform \/ stopping[c] = 3
  PROVE  MainIsInOrder' /\ HandlesInTime'
<1> USE DEF Safe
<1>1. /\ stopping'[c] = stopping[c] + 1
      /\ \A d \in {"main", "signal"} : d # c => stopping'[d] = stopping[d]
      /\ main' \notin Bootstraps
      /\ c = "signal" => main' = main
      /\ c = "main" => main' = IF stopping[c] = 3 THEN "done" ELSE "cleanup"
  BY ProceedStep
<1>2. HandlesInTime'
  BY <1>1 DEF HandlesInTime
<1>3. CASE c = "main"
  BY <1>1, <1>2, <1>3 DEF MainIsInOrder
<1>4. CASE c = "signal"
  <2>1. stopping'["main"] = stopping["main"] /\ main' = main
    BY <1>1, <1>4
  <2>2. stopping[c] = 3 => app = "closed"
    BY DEF StopsHaveHappened
  <2>3. QED
    BY <1>1, <1>2, <2>1, <2>2 DEF MainIsInOrder
<1>5. QED
  BY <1>3, <1>4

LEMMA StopAppStep ==
  ASSUME Safe, NEW c \in {"main", "signal"}, StopApp(c)
  PROVE  Safe'
<1> USE DEF Safe
<1>1. stopping[c] = 1
  BY AtStop DEF StopApp
<1>2. /\ app' = "closed" /\ timers' = timers \ {Sweep} /\ Proceed(c)
      /\ UNCHANGED <<failed, platform, access, running>>
  BY DEF StopApp, Proceed
<1>3. handling' = handling /\ overtaken' = overtaken
  BY DEF StopApp, Proceed
<1>4. /\ stopping'[c] = 2
      /\ \A d \in {"main", "signal"} : d # c => stopping'[d] = stopping[d]
      /\ stopping' \in [{"main", "signal"} -> 0..4]
      /\ main' = main
  BY <1>1, <1>2, ProceedStep
<1>5. TypeOK'
  <2>1. handling' \in BOOLEAN /\ overtaken' \in BOOLEAN
    BY <1>3 DEF TypeOK
  <2>2. QED
    BY <1>2, <1>4, <2>1, StopOrder DEF TypeOK
<1>6. MainIsInOrder' /\ HandlesInTime'
  BY <1>1, <1>2, ProceedKeepsOrder
<1>7. AccessIsInOrder'
  BY <1>2 DEF AccessIsInOrder
<1>8. StopsHaveHappened'
  <2>1. \A d \in {"main", "signal"} :
          /\ stopping'[d] >= 3 => stopping'[d] = stopping[d]
          /\ stopping[d] \in {1, 2, 3} => stopping'[d] \in {1, 2, 3}
          /\ stopping[d] \in {1, 2} => stopping'[d] \in {1, 2}
    BY <1>1, <1>4
  <2>2. QED
    BY <1>2, <1>3, <1>4, <2>1 DEF StopsHaveHappened
<1>9. OpensWhenReady' /\ ServesWhenReady'
  BY <1>2 DEF OpensWhenReady, ServesWhenReady
<1>10. QED
  BY <1>5, <1>6, <1>7, <1>8, <1>9

LEMMA BeginStopAccessStep ==
  ASSUME Safe, NEW c \in {"main", "signal"}, BeginStopAccess(c)
  PROVE  Safe'
<1> USE DEF Safe
<1>1. stopping[c] = 2
  BY AtStop DEF BeginStopAccess
<1>2. /\ access = "started" /\ access' = "stopping"
      /\ timers' = timers \ AccessWorkers
      /\ UNCHANGED <<main, failed, stopping, app, platform, running>>
  BY DEF BeginStopAccess, ClearedTimers, host
<1>3. handling' = handling /\ overtaken' = overtaken
  BY DEF BeginStopAccess, host
<1>4. app = "closed"
  BY <1>1 DEF StopsHaveHappened
<1>5. TypeOK'
  <2>1. handling' \in BOOLEAN /\ overtaken' \in BOOLEAN
    BY <1>3 DEF TypeOK
  <2>2. QED
    BY <1>2, <2>1 DEF TypeOK
<1>6. main \notin Bootstraps \union {"start"}
  BY <1>2 DEF MainIsInOrder
<1>7. MainIsInOrder' /\ HandlesInTime'
  BY <1>2, <1>3, <1>6 DEF MainIsInOrder, HandlesInTime
<1>8. AccessIsInOrder'
  BY <1>2 DEF AccessIsInOrder
<1>9. StopsHaveHappened'
  BY <1>2, <1>3 DEF StopsHaveHappened
<1>10. OpensWhenReady' /\ ServesWhenReady'
  BY <1>2, <1>4 DEF OpensWhenReady, ServesWhenReady
<1>11. QED
  BY <1>5, <1>7, <1>8, <1>9, <1>10

LEMMA DrainAccessStep ==
  ASSUME Safe, DrainAccess
  PROVE  Safe'
<1> USE DEF Safe
<1>1. /\ access = "stopping" /\ access' = "stopped"
      /\ \A w \in AccessWorkers : running[w] = 0
      /\ UNCHANGED <<main, failed, stopping, app, platform, timers, running>>
  BY DEF DrainAccess, host
<1>2. handling' = handling /\ overtaken' = overtaken
  BY DEF DrainAccess, host
<1>3. TypeOK'
  <2>1. handling' \in BOOLEAN /\ overtaken' \in BOOLEAN
    BY <1>2 DEF TypeOK
  <2>2. QED
    BY <1>1, <2>1 DEF TypeOK
<1>4. main \notin Bootstraps \union {"start"}
  BY <1>1 DEF MainIsInOrder
<1>5. MainIsInOrder' /\ HandlesInTime'
  BY <1>1, <1>2, <1>4 DEF MainIsInOrder, HandlesInTime
<1>6. AccessIsInOrder'
  BY <1>1 DEF AccessIsInOrder
<1>7. StopsHaveHappened'
  BY <1>1, <1>2 DEF StopsHaveHappened
<1>8. OpensWhenReady' /\ ServesWhenReady'
  BY <1>1 DEF OpensWhenReady, ServesWhenReady, Ready
<1>9. QED
  BY <1>3, <1>5, <1>6, <1>7, <1>8

LEMMA EndStopAccessStep ==
  ASSUME Safe, NEW c \in {"main", "signal"}, EndStopAccess(c)
  PROVE  Safe'
<1> USE DEF Safe
<1>1. stopping[c] = 2
  BY AtStop DEF EndStopAccess
<1>2. /\ access \in {"none", "stopped"} /\ Proceed(c)
      /\ UNCHANGED <<failed, app, platform, access, timers, running>>
  BY DEF EndStopAccess, Proceed, resources
<1>3. /\ handling' = handling
      /\ overtaken' = (overtaken \/ access = "none")
  BY DEF EndStopAccess, Proceed
<1>4. /\ stopping'[c] = 3
      /\ \A d \in {"main", "signal"} : d # c => stopping'[d] = stopping[d]
      /\ stopping' \in [{"main", "signal"} -> 0..4]
      /\ main' = main
  BY <1>1, <1>2, ProceedStep
<1>5. app = "closed" /\ Sweep \notin timers
  BY <1>1 DEF StopsHaveHappened
<1>6. TypeOK'
  <2>1. handling' \in BOOLEAN /\ overtaken' \in BOOLEAN
    BY <1>3 DEF TypeOK
  <2>2. QED
    BY <1>2, <1>4, <2>1, StopOrder DEF TypeOK
<1>7. MainIsInOrder' /\ HandlesInTime'
  BY <1>1, <1>2, ProceedKeepsOrder
<1>8. AccessIsInOrder'
  BY <1>2 DEF AccessIsInOrder
<1>9. StopsHaveHappened'
  <2>1. access = "stopped" \/ overtaken'
    BY <1>2, <1>3
  <2>2. \A d \in {"main", "signal"} :
          /\ stopping'[d] = 4 => stopping[d] = 4
          /\ stopping[d] \in {1, 2, 3} => stopping'[d] \in {1, 2, 3}
    BY <1>1, <1>4
  <2>3. QED
    BY <1>2, <1>4, <1>5, <2>1, <2>2 DEF StopsHaveHappened
<1>10. OpensWhenReady' /\ ServesWhenReady'
  BY <1>2, <1>5 DEF OpensWhenReady, ServesWhenReady
<1>11. QED
  BY <1>6, <1>7, <1>8, <1>9, <1>10

LEMMA StopPlatformStep ==
  ASSUME Safe, NEW c \in {"main", "signal"}, StopPlatform(c)
  PROVE  Safe'
<1> USE DEF Safe
<1>1. stopping[c] = 3
  BY AtStop DEF StopPlatform
<1>2. /\ platform' \in {"absent", "stopped"} /\ Proceed(c)
      /\ UNCHANGED <<failed, app, access, timers, running>>
  BY DEF StopPlatform, Proceed
<1>3. handling' = handling /\ overtaken' = overtaken
  BY DEF StopPlatform, Proceed
<1>4. /\ stopping'[c] = 4
      /\ \A d \in {"main", "signal"} : d # c => stopping'[d] = stopping[d]
      /\ stopping' \in [{"main", "signal"} -> 0..4]
      /\ c = "signal" => main' = main
      /\ c = "main" => main = "cleanup" /\ main' = "done"
  BY <1>1, <1>2, ProceedStep
<1>5. app = "closed" /\ Sweep \notin timers
  BY <1>1 DEF StopsHaveHappened
<1>6. TypeOK'
  <2>1. handling' \in BOOLEAN /\ overtaken' \in BOOLEAN
    BY <1>3 DEF TypeOK
  <2>2. main' \in Bootstraps
          \union {"start", "listen", "cleanup", "done", "gone"}
    BY <1>4 DEF TypeOK
  <2>3. QED
    BY <1>2, <1>4, <2>1, <2>2, StopOrder DEF TypeOK
<1>7. MainIsInOrder' /\ HandlesInTime'
  BY <1>1, <1>2, ProceedKeepsOrder
<1>8. AccessIsInOrder'
  BY <1>2 DEF AccessIsInOrder
<1>9. StopsHaveHappened'
  <2>1. CASE c = "main"
    BY <1>1, <1>2, <1>3, <1>4, <1>5, <2>1 DEF StopsHaveHappened
  <2>2. CASE c = "signal"
    BY <1>1, <1>2, <1>3, <1>4, <1>5, <2>2 DEF StopsHaveHappened
  <2>3. QED
    BY <2>1, <2>2
<1>10. OpensWhenReady' /\ ServesWhenReady'
  BY <1>2, <1>5 DEF OpensWhenReady, ServesWhenReady
<1>11. QED
  BY <1>6, <1>7, <1>8, <1>9, <1>10

-----------------------------------------------------------------------------
(* The theorems. *)

LEMMA NextStep ==
  ASSUME Safe, [Next]_vars
  PROVE  Safe'
<1>1. CASE Boots
  BY <1>1, BootStep, CleanUpStep DEF Boots, BootstrapFails
<1>2. CASE Starts
  BY <1>2, PlatformStep, ReturnStep, CleanUpStep DEF Starts, ListenFails
<1>3. CASE \E w \in Workers : Tick(w) \/ Finish(w)
  BY <1>3, WorkStep
<1>4. CASE Perish \/ Signal \/ DrainAccess
  BY <1>4, PerishStep, SignalStep, DrainAccessStep
<1>5. CASE \E c \in {"main", "signal"} : Stop(c)
  BY <1>5, StopAppStep, BeginStopAccessStep, EndStopAccessStep,
     StopPlatformStep DEF Stop
<1>6. CASE UNCHANGED vars
  BY <1>6 DEF vars, Safe, TypeOK, HandlesInTime, MainIsInOrder,
     AccessIsInOrder, StopsHaveHappened, OpensWhenReady, ServesWhenReady, Ready
<1>7. QED
  BY <1>1, <1>2, <1>3, <1>4, <1>5, <1>6 DEF Next

\* The invariant of the life of the server.
THEOREM ServerIsSafe == Spec => []Safe
  BY InitSafe, NextStep, PTL DEF Spec

\* No worker works twice at a time, and the variables have their types.
THEOREM ServerTypeCorrect == Spec => []TypeOK
<1>1. Safe => TypeOK
  BY DEF Safe
<1>2. QED
  BY <1>1, ServerIsSafe, PTL

\* A server that takes requests is ready to, wherever a signal lands.
THEOREM ServerServesWhenReady == Spec => []ServesWhenReady
<1>1. Safe => ServesWhenReady
  BY DEF Safe
<1>2. QED
  BY <1>1, ServerIsSafe, PTL

\* A start or a shutdown that has returned has left no timer, no execution of
\* an Access worker, no platform and no open application behind.
THEOREM NothingIsEverLeftBehind == Spec => []NothingIsLeftBehind
<1>1. Safe => NothingIsLeftBehind
  <2> SUFFICES ASSUME Safe, main = "done",
                      stopping["signal"] = 4 \/ stopping["main"] = 4
               PROVE  Quiet
    BY StopOrder DEF NothingIsLeftBehind
  <2>1. stopping["signal"] \in 0..4 /\ stopping["main"] \in 0..4
    BY AtStop DEF Safe
  <2>2. stopping["main"] \notin {1, 2, 3}
    BY DEF Safe, MainIsInOrder
  <2>3. app = "closed" /\ Sweep \notin timers
    BY DEF Safe, StopsHaveHappened
  <2>4. access \in {"none", "stopped"} /\ platform \in {"absent", "stopped"}
    BY <2>2 DEF Safe, StopsHaveHappened
  <2>5. /\ timers \intersect AccessWorkers = {}
        /\ \A w \in AccessWorkers : running[w] = 0
    BY <2>4 DEF Safe, AccessIsInOrder
  <2>6. timers = {}
    BY <2>3, <2>5 DEF Safe, TypeOK, Workers
  <2>7. QED
    BY <2>3, <2>4, <2>5, <2>6 DEF Quiet
<1>2. QED
  BY <1>1, ServerIsSafe, PTL

\* The platform is stopped under no execution of the Access workers, unless
\* a stop has come too early to find their runtime.
THEOREM PlatformStopsLast == Spec => DrainedBeforePlatform
<1> DEFINE Drained ==
      platform = "started" /\ platform' = "stopped" /\ main' # "gone" =>
        overtaken \/ \A w \in AccessWorkers : running[w] = 0
<1>1. ASSUME Safe, [Next]_vars
      PROVE  [Drained]_platform
  <2> SUFFICES ASSUME platform = "started", platform' = "stopped",
                      main' # "gone"
               PROVE  overtaken \/ \A w \in AccessWorkers : running[w] = 0
    OBVIOUS
  <2>1. PICK c \in {"main", "signal"} : StopPlatform(c)
    <3>1. ~Boots
      BY DEF Boots, CreatePlatformRuntime, BootstrapIdentity,
             RegisterIdentityRoutes, BootstrapMembership,
             RegisterMembershipRoutes, BootstrapAccess, RegisterAccessRoutes,
             BootstrapFails, CleanUp, resources
    <3>2. ~Starts
      BY DEF Starts, PlatformStarts, PlatformFails, GiveUp, Listen,
             ListenFails, CleanUp, resources
    <3>3. ~\E w \in Workers : Tick(w) \/ Finish(w)
      BY DEF Tick, Finish
    <3>4. ~Perish /\ ~Signal /\ ~DrainAccess /\ ~UNCHANGED vars
      BY DEF Perish, Signal, DrainAccess, vars, resources
    <3>5. \A c \in {"main", "signal"} :
            ~StopApp(c) /\ ~BeginStopAccess(c) /\ ~EndStopAccess(c)
      BY DEF StopApp, BeginStopAccess, EndStopAccess, resources
    <3>6. \E c \in {"main", "signal"} : Stop(c)
      BY <1>1, <3>1, <3>2, <3>3, <3>4 DEF Next
    <3>7. QED
      BY <3>5, <3>6 DEF Stop
  <2>2. stopping[c] = 3
    <3>1. TypeOK
      BY <1>1 DEF Safe
    <3>2. QED
      BY <2>1, <3>1, AtStop DEF StopPlatform
  <2>3. CASE overtaken
    BY <2>3
  <2>4. CASE ~overtaken
    <3>1. access \in {"none", "stopped"}
      BY <1>1, <2>2, <2>4 DEF Safe, StopsHaveHappened
    <3>2. QED
      BY <1>1, <3>1 DEF Safe, AccessIsInOrder
  <2>5. QED
    BY <2>3, <2>4
<1>2. QED
  BY <1>1, ServerIsSafe, PTL DEF Spec, DrainedBeforePlatform
=============================================================================
