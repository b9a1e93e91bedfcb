------------------------------- MODULE Processes --------------------------------
(* main dispatches on -mode: a process is a barge supervisor or a self-registering
   server (BargeFleet), or a client (TunnelClient). The initial state chooses one,
   only that one takes steps, and the other stays where it starts. Fairness is
   assumed of the actions of the process that runs. *)
EXTENDS BargeFleet, Sequences

CONSTANTS ClientConfigs, Streams, MaxStreams    \* of TunnelClient

VARIABLES
    process,     \* "fleet" or "client"
    c_cfg, c_ctx, c_pc, c_link, c_active, c_watcher, c_entry, c_late, c_record, c_reg,
    c_st, c_conns, c_copiers, c_stalled

clientVars == <<c_cfg, c_ctx, c_pc, c_link, c_active, c_watcher, c_entry, c_late, c_record,
                c_reg, c_st, c_conns, c_copiers, c_stalled>>
allVars == <<process, vars, clientVars>>

Client == INSTANCE TunnelClient WITH
    Configs <- ClientConfigs,
    cfg <- c_cfg, ctx <- c_ctx, pc <- c_pc, link <- c_link, active <- c_active,
    watcher <- c_watcher, entry <- c_entry, late <- c_late, record <- c_record, reg <- c_reg,
    st <- c_st, conns <- c_conns, copiers <- c_copiers, stalled <- c_stalled

ASSUME ClientAssumption == Client!ClientConstants

--------------------------------------------------------------------------------
(* The process that does not run is in one of its initial states. *)
ProcessInit ==
    /\ process \in {"fleet", "client"}
    /\ Init /\ (process # "fleet" => mode = "barge" /\ registrar)
    /\ Client!Init /\ (process # "client" => c_cfg = CHOOSE c \in ClientConfigs : TRUE)

Run(p) == process = p /\ UNCHANGED process

ProcessNext ==
    \/ Run("fleet")  /\ Next        /\ UNCHANGED clientVars
    \/ Run("client") /\ Client!Next /\ UNCHANGED vars

Fleet(A) == process = "fleet" /\ A
Tunnel(A) == process = "client" /\ A

(* The fairness of BargeFleet and of TunnelClient, each while its process runs. *)
ProcessFairness ==
    /\ \A b \in All : /\ WF_vars(Fleet(Supervise(b))) /\ WF_vars(Fleet(Heartbeat(b)))
                      /\ WF_vars(Fleet(Lapse(b))) /\ WF_vars(Fleet(Evict(b)))
    /\ \A b \in Barges : /\ WF_vars(Fleet(StartBarge(b) \/ StartFails(b)))
                         /\ WF_vars(Fleet(ContextKill(b)))
    /\ \A m \in {"register", "heartbeat", "deregister"} \X All : SF_vars(Fleet(Deliver(m)))
    /\ WF_vars(Fleet(DeregisterAll))
    /\ WF_clientVars(Tunnel(Client!Client)) /\ WF_clientVars(Tunnel(Client!Watch))
    /\ WF_clientVars(Tunnel(Client!Publish)) /\ WF_clientVars(Tunnel(Client!Unpublish))
    /\ WF_clientVars(Tunnel(Client!Post)) /\ WF_clientVars(Tunnel(Client!Sleep))
    /\ WF_clientVars(Tunnel(Client!Registered \/ Client!PostFails))
    /\ SF_clientVars(Tunnel(Client!Registered))
    /\ \A s \in Streams : WF_clientVars(Tunnel(Client!Serve(s)))

ProcessSpec == ProcessInit /\ [][ProcessNext]_allVars /\ ProcessFairness

--------------------------------------------------------------------------------
(* PROPERTIES, next to those of BargeFleet *)

(* Both components keep their types. *)
ProcessTypeOK == TypeOK /\ Client!TypeOK

(* After the signal the client leaves runClient, wherever it stood: in particular
   when the watcher ran before the session it should have closed existed. *)
ClientStops == Client!ClientStops

(* A visitor who follows the public URL that the client shows reaches this client,
   whenever the flags of client and server are as Named asks: the key the server
   derives from the host is the key it has entered the tunnel under. *)
PublicURLReaches == Client!PublicURLReaches

(* While the tunnel stays up, the A record that a late handler of an earlier
   session has removed is there again in the end: the client's refresh puts it
   back. *)
RefreshRepairs == Client!RefreshRepairs

(* A relay whose visitor or application has gone away ends, and its slot is free
   again, unless from some point on whatever copier could notice is held in a Write:
   neither direction waits for ever to read from an end that nobody closes. *)
SlotsReturn == Client!SlotsReturn
================================================================================
