------------------------------- MODULE BargeFleet ------------------------------
(* The process runtime of a barge fleet (barge.go, barge_register.go): one
   supervisor goroutine per barge starts a child, waits until it is ready,
   registers it with the load balancer, heartbeats, reaps it, deregisters it and
   starts it again; a signal ends them all. The same registrar serves a single
   server that registers itself (register_runtime.go): main's -mode decides which
   of the two a process runs.

   The load balancer is BackendLease, which LBManager implements; here it may
   also restart and forget every dynamic backend. Requests to it are a set of
   messages that are handled in any order, late, or never: a sender that gives up
   (10 s client timeout, cancelled context) leaves its request in the network. *)
EXTENDS Integers, FiniteSets

CONSTANTS
    Barges,       \* barges of the fleet
    Servers,      \* tunnel servers started with -register-lb
    MaxRestarts   \* -barge-max-restarts, 0 means unlimited

ASSUME FleetAssumption == /\ Barges \cap Servers = {}
                          /\ MaxRestarts \in Nat

VARIABLES
    mode,       \* -mode: "barge" runs the whole fleet, "server" one server
    registrar,  \* fleet.registrar # nil (-barge-lb)
    ctx,        \* "live" until SIGINT or SIGTERM, then "done"
    main,       \* runBargeProcess: "wait" (for the supervisors) or "stopped";
                \* a server does not wait for its registration goroutine
    pc,         \* where superviseBarge or runRegistrationLifecycle stands
    state,      \* bargeInstance.state
    restarts,   \* bargeInstance.restarts
    child,      \* the child process (for a server: the process itself)
    beating,    \* a heartbeat goroutine with a live context
    net,        \* requests on their way to the load balancer
    lease       \* the load balancer's view of each backend

supVars == <<pc, state, restarts>>
vars == <<mode, registrar, ctx, main, supVars, child, beating, net, lease>>

All == Barges \cup Servers
Ended == {"none", "saved", "crashed", "killed"}
Alive == {"booting", "healthy", "stopping"}

LB == INSTANCE BackendLease WITH Ids <- All, StaticIds <- {}

TypeOK ==
    /\ mode \in {"barge", "server"}
    /\ registrar \in BOOLEAN
    /\ ctx \in {"live", "done"}
    /\ main \in {"wait", "stopped"}
    /\ pc \in [All -> {"start", "ready", "register", "registering", "wait", "grace",
                       "expired", "deregister", "leaving", "decide", "sleep", "done", "off"}]
    /\ state \in [Barges -> {"starting", "running", "stopped"}]
    /\ restarts \in [Barges -> Nat]
    /\ child \in [All -> Ended \cup Alive]
    /\ beating \subseteq All
    /\ net \subseteq ({"register", "heartbeat", "deregister"} \X All)
    /\ LB!TypeOK

(* newBargeFleet: one instance per replica, each with ports of its own. *)
newBargeFleet ==
    /\ state = [b \in Barges |-> "stopped"]
    /\ restarts = [b \in Barges |-> 0]

Init ==
    /\ mode \in {"barge", "server"}
    /\ registrar \in IF mode = "barge" THEN BOOLEAN ELSE {TRUE}
    /\ ctx = "live"
    /\ main = IF mode = "barge" THEN "wait" ELSE "stopped"
    /\ \E started \in IF mode = "barge" THEN {Barges} ELSE {{s} : s \in Servers} :
         /\ pc = [b \in All |-> IF b \notin started THEN "off"
                                ELSE IF mode = "barge" THEN "start" ELSE "ready"]
         /\ child = [b \in All |-> IF b \in started \cap Servers THEN "booting" ELSE "none"]
    /\ newBargeFleet
    /\ beating = {}
    /\ net = {}
    /\ LB!Init

Goto(b, l) == pc' = [pc EXCEPT ![b] = l]

--------------------------------------------------------------------------------
(* superviseBarge and what it calls. *)

(* startBarge. The child is started under ctx; a start that fails is not counted
   in restarts. *)
StartBarge(b) ==
    /\ pc[b] = "start" /\ ctx = "live"
    /\ Goto(b, IF registrar THEN "ready" ELSE "wait")
    /\ state' = [state EXCEPT ![b] = "running"]
    /\ restarts' = [restarts EXCEPT ![b] = @ + 1]
    /\ child' = [child EXCEPT ![b] = "booting"]
    /\ UNCHANGED <<mode, registrar, ctx, main, beating, net, lease>>

StartFails(b) ==
    /\ pc[b] = "start" /\ ctx = "live"
    /\ Goto(b, "decide")
    /\ state' = [state EXCEPT ![b] = "stopped"]
    /\ UNCHANGED <<mode, registrar, ctx, main, restarts, child, beating, net, lease>>

(* waitReady: the public port answers, or 30 s pass, or ctx is cancelled. Without
   readiness a supervisor goes on to wait for the child, a server's registration
   goroutine ends. *)
Ready(b) ==
    /\ pc[b] = "ready"
    /\ \/ child[b] = "healthy" /\ Goto(b, "register")
       \/ Goto(b, IF b \in Barges THEN "wait" ELSE "done")
    /\ UNCHANGED <<mode, registrar, ctx, main, state, restarts, child, beating, net, lease>>

(* postAction. *)
Post(kind, b) == net' = net \cup {<<kind, b>>}

Register(b) ==
    /\ pc[b] = "register"
    /\ Post("register", b)
    /\ Goto(b, "registering")
    /\ UNCHANGED <<mode, registrar, ctx, main, state, restarts, child, beating, lease>>

(* The load balancer handles the request and its answer arrives. *)
RegisterOk(b) ==
    /\ pc[b] = "registering" /\ <<"register", b>> \in net
    /\ net' = net \ {<<"register", b>>}
    /\ LB!Renew(b)
    /\ beating' = beating \cup {b}
    /\ Goto(b, "wait")
    /\ UNCHANGED <<mode, registrar, ctx, main, state, restarts, child>>

(* No answer in time, an error, or a cancelled context: nobody tries again. *)
RegisterFails(b) ==
    /\ pc[b] = "registering"
    /\ Goto(b, IF b \in Barges THEN "wait" ELSE "done")
    /\ UNCHANGED <<mode, registrar, ctx, main, state, restarts, child, beating, net, lease>>

Heartbeat(b) ==
    /\ b \in beating
    /\ ctx = "live"
    /\ Post("heartbeat", b)
    /\ UNCHANGED <<mode, registrar, ctx, main, supVars, child, beating, lease>>

(* waitBarge: the child ends by itself, or ctx is done. In the second case the
   instance stays "running". *)
ChildReaped(b) ==
    /\ pc[b] = "wait" /\ b \in Barges /\ child[b] \in Ended
    /\ state' = [state EXCEPT ![b] = "stopped"]
    /\ Goto(b, "deregister")
    /\ UNCHANGED <<mode, registrar, ctx, main, restarts, child, beating, net, lease>>

(* signalGracefulStop *)
SignalStop(b) ==
    /\ pc[b] = "wait" /\ b \in Barges /\ ctx = "done"
    /\ child' = [child EXCEPT ![b] = IF @ \in Alive THEN "stopping" ELSE @]
    /\ Goto(b, "grace")
    /\ UNCHANGED <<mode, registrar, ctx, main, state, restarts, beating, net, lease>>

(* The child ends within 8 s, or it is killed. *)
GraceOver(b) ==
    /\ pc[b] = "grace"
    /\ Goto(b, IF child[b] \in Ended THEN "deregister" ELSE "expired")
    /\ UNCHANGED <<mode, registrar, ctx, main, state, restarts, child, beating, net, lease>>

GraceKill(b) ==
    /\ pc[b] = "expired"
    /\ child' = [child EXCEPT ![b] = IF @ \in Alive THEN "killed" ELSE @]
    /\ Goto(b, "deregister")
    /\ UNCHANGED <<mode, registrar, ctx, main, state, restarts, beating, net, lease>>

(* Mutant: regCancel is not called. *)
MutantDeregister(b) ==
    /\ pc[b] = "deregister"
    /\ IF registrar
         THEN Post("deregister", b) /\ Goto(b, "leaving")
         ELSE UNCHANGED net /\ Goto(b, "decide")
    /\ UNCHANGED <<mode, registrar, ctx, main, state, restarts, child, beating, lease>>

(* regCancel, then deregister with a context of its own. *)
Deregister(b) ==
    /\ pc[b] = "deregister"
    /\ beating' = beating \ {b}
    /\ IF registrar
         THEN Post("deregister", b) /\ Goto(b, "leaving")
         ELSE UNCHANGED net /\ Goto(b, "decide")
    /\ UNCHANGED <<mode, registrar, ctx, main, state, restarts, child, lease>>

(* The answer of the deregistration only matters to the log. *)
Left(b) ==
    /\ pc[b] = "leaving"
    /\ Goto(b, IF b \in Barges THEN "decide" ELSE "done")
    /\ UNCHANGED <<mode, registrar, ctx, main, state, restarts, child, beating, net, lease>>

(* Restart, unless the fleet stops or the limit is reached. *)
Decide(b) ==
    /\ pc[b] = "decide"
    /\ Goto(b, IF \/ ctx = "done"
                  \/ MaxRestarts > 0 /\ restarts[b] >= MaxRestarts
               THEN "done" ELSE "sleep")
    /\ UNCHANGED <<mode, registrar, ctx, main, state, restarts, child, beating, net, lease>>

(* Mutant: a plain sleep, and a loop that does not look at ctx. *)
MutantSleepOrDone(b) ==
    /\ pc[b] = "sleep"
    /\ Goto(b, "start")
    /\ UNCHANGED <<mode, registrar, ctx, main, state, restarts, child, beating, net, lease>>

(* sleepOrDone; the loop and startBarge look at ctx again. *)
SleepOrDone(b) ==
    /\ pc[b] = "sleep" \/ (pc[b] = "start" /\ ctx = "done")
    /\ Goto(b, IF ctx = "done" THEN "done" ELSE "start")
    /\ UNCHANGED <<mode, registrar, ctx, main, state, restarts, child, beating, net, lease>>

(* deregisterAll, once every supervisor has returned: again for the instances
   that ctx took out of waitBarge. *)
DeregisterAll ==
    /\ main = "wait" /\ ctx = "done"
    /\ \A b \in Barges : pc[b] = "done"
    /\ main' = "stopped"
    /\ net' = IF registrar
                THEN net \cup {<<"deregister", b>> : b \in {b \in Barges : state[b] = "running"}}
                ELSE net
    /\ UNCHANGED <<mode, registrar, ctx, supVars, child, beating, lease>>

Signal ==
    /\ ctx = "live"
    /\ ctx' = "done"
    /\ UNCHANGED <<mode, registrar, main, supVars, child, beating, net, lease>>

--------------------------------------------------------------------------------
(* runRegistrationLifecycle of a server: it shares the signal with the process it
   registers, and that process does not wait for it. *)

ServerDone(b) ==
    /\ pc[b] = "wait" /\ b \in Servers /\ ctx = "done"
    /\ Goto(b, "deregister")
    /\ UNCHANGED <<mode, registrar, ctx, main, state, restarts, child, beating, net, lease>>

(* The process ends: every goroutine with it, wherever it stands. *)
ServerExits(b, end) ==
    /\ b \in Servers /\ child[b] \in Alive
    /\ end = "saved" => ctx = "done"
    /\ child' = [child EXCEPT ![b] = end]
    /\ Goto(b, "done")
    /\ beating' = beating \ {b}
    /\ UNCHANGED <<mode, registrar, ctx, main, state, restarts, net, lease>>

--------------------------------------------------------------------------------
(* The children: tunnel servers, see TunnelServer. *)

Boot(b) ==
    /\ child[b] = "booting"
    /\ child' = [child EXCEPT ![b] = "healthy"]
    /\ UNCHANGED <<mode, registrar, ctx, main, supVars, beating, net, lease>>

(* A child that was told to stop writes its snapshot and exits. *)
SaveAndExit(b) ==
    /\ child[b] = "stopping" /\ b \in Barges
    /\ child' = [child EXCEPT ![b] = "saved"]
    /\ UNCHANGED <<mode, registrar, ctx, main, supVars, beating, net, lease>>

Crash(b) ==
    /\ child[b] \in {"booting", "healthy"} /\ b \in Barges
    /\ child' = [child EXCEPT ![b] = "crashed"]
    /\ UNCHANGED <<mode, registrar, ctx, main, supVars, beating, net, lease>>

(* exec.CommandContext kills the process as soon as its context is done. *)
ContextKill(b) ==
    /\ ctx = "done" /\ b \in Barges /\ child[b] \in Alive
    /\ child' = [child EXCEPT ![b] = "killed"]
    /\ UNCHANGED <<mode, registrar, ctx, main, supVars, beating, net, lease>>

--------------------------------------------------------------------------------
(* The load balancer and the network. *)

(* Mutant: a heartbeat of an unknown backend is refused. *)
MutantDeliver(m) ==
    /\ m \in net
    /\ net' = net \ {m}
    /\ \/ m[1] = "register" /\ LB!Renew(m[2])
       \/ m[1] = "heartbeat" /\ lease[m[2]] # "absent" /\ LB!Renew(m[2])
       \/ m[1] = "deregister" /\ LB!Leave(m[2])
       \/ m[1] # "register" /\ lease[m[2]] = "absent" /\ UNCHANGED lease
    /\ UNCHANGED <<mode, registrar, ctx, main, supVars, child, beating>>

(* A request is handled after its sender has stopped waiting, or the answer is
   lost. A heartbeat of an unknown backend registers it. *)
Deliver(m) ==
    /\ m \in net
    /\ net' = net \ {m}
    /\ \/ m[1] \in {"register", "heartbeat"} /\ LB!Renew(m[2])
       \/ m[1] = "deregister" /\ LB!Leave(m[2])
       \/ m[1] = "deregister" /\ lease[m[2]] = "absent" /\ UNCHANGED lease
    /\ UNCHANGED <<mode, registrar, ctx, main, supVars, child, beating>>

Lose(m) ==
    /\ m \in net
    /\ net' = net \ {m}
    /\ UNCHANGED <<mode, registrar, ctx, main, supVars, child, beating, lease>>

Lapse(b) == LB!Lapse(b) /\ UNCHANGED <<mode, registrar, ctx, main, supVars, child, beating, net>>

Evict(b) == /\ lease[b] = "stale"
            /\ LB!Evict /\ lease'[b] = "absent"
            /\ UNCHANGED <<mode, registrar, ctx, main, supVars, child, beating, net>>

(* The load balancer restarts: the dynamic pool is in memory only. *)
LBRestart ==
    /\ lease' = [b \in All |-> "absent"]
    /\ UNCHANGED <<mode, registrar, ctx, main, supVars, child, beating, net>>

--------------------------------------------------------------------------------
Supervise(b) ==
    \/ Ready(b) \/ Register(b) \/ RegisterOk(b) \/ RegisterFails(b)
    \/ ChildReaped(b) \/ SignalStop(b) \/ GraceOver(b) \/ GraceKill(b)
    \/ Deregister(b) \/ Left(b) \/ Decide(b) \/ SleepOrDone(b) \/ ServerDone(b)

Next ==
    \/ \E b \in Barges : StartBarge(b) \/ StartFails(b) \/ Crash(b) \/ ContextKill(b)
                         \/ SaveAndExit(b)
    \/ \E b \in All : Supervise(b) \/ Heartbeat(b) \/ Boot(b) \/ Lapse(b) \/ Evict(b)
    \/ \E b \in Servers, end \in {"saved", "crashed"} : ServerExits(b, end)
    \/ \E m \in net : Deliver(m) \/ Lose(m)
    \/ Signal \/ DeregisterAll \/ LBRestart

Spec == Init /\ [][Next]_vars

(* The goroutines run, the tickers tick, ctx kills what it was given, the pruner
   of the load balancer runs, and the network neither drops every heartbeat nor
   holds one for ever. Nothing is assumed of signals, crashes or boots. *)
Fairness ==
    /\ \A b \in All : /\ WF_vars(Supervise(b))
                      /\ WF_vars(Heartbeat(b))
                      /\ WF_vars(Lapse(b))
                      /\ WF_vars(Evict(b))
    /\ \A b \in Barges : /\ WF_vars(StartBarge(b) \/ StartFails(b))
                         /\ WF_vars(ContextKill(b))
    /\ \A m \in {"register", "heartbeat", "deregister"} \X All : SF_vars(Deliver(m))
    /\ WF_vars(DeregisterAll)

FairSpec == Spec /\ Fairness

--------------------------------------------------------------------------------
(* PROPERTIES *)

(* A signal ends the fleet, whatever every supervisor was doing, waiting for a
   child that never became ready or for an answer included: main stops and no
   child is left behind. *)
FleetStops == ctx = "done" ~> main = "stopped" /\ \A b \in Barges : child[b] \in Ended

(* A backend that is given up (its supervisor or its registration goroutine has
   returned, or its process has died) leaves the pool for good, though
   deregistrations are lost and late registrations and heartbeats put it back. *)
DeadLeavesPool == \A b \in All : pc[b] = "done" ~> [](lease[b] = "absent")

(* As long as the heartbeat goroutine of a barge runs, the barge is in the pool
   again and again: evictions, lost requests and restarts of the load balancer
   are all repaired by the next heartbeat. *)
HeartbeatRenews == \A b \in All : b \in beating ~> (lease[b] = "fresh" \/ b \notin beating)

(* "Prefer graceful stop so the child can write a barge snapshot before exit":
   a child is killed only after it was given its eight seconds. *)
KilledAfterGrace ==
    [][\A b \in Barges : child'[b] = "killed" /\ child[b] # "killed" => pc[b] = "expired"]_vars
================================================================================
