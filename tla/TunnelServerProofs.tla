--------------------------- MODULE TunnelServerProofs ---------------------------
(* Theorems about the tunnel server for every set of keys, connections and mesh
   names. *)
EXTENDS TunnelServer, TLAPS

(* The process that is down has no tunnels. *)
DownEmpty == phase = "down" => \A k \in Keys : tunnels[k] = None

(* The inductive invariant. OpenIsRoutable, PendingNotLive and NoLeakedRecord
   need no strengthening but NoOrphanEntry, without which a connection could be
   established while the table still holds it under another key, and DownEmpty
   for the restart. *)
ServerInv == /\ TypeOK
             /\ OpenIsRoutable
             /\ NoOrphanEntry
             /\ PendingNotLive
             /\ NoLeakedRecord
             /\ DownEmpty

LEMMA InitServerInv == Init => ServerInv
  BY NoneAssumption DEF Init, ServerInv, TypeOK, OpenIsRoutable, NoOrphanEntry,
     PendingNotLive, NoLeakedRecord, DownEmpty, liveKeys, tunnelSession

LEMMA TypeStep == TypeOK /\ [Next]_vars => TypeOK'
<1> SUFFICES ASSUME TypeOK, [Next]_vars PROVE TypeOK'
  OBVIOUS
<1> USE HostIDAssumption, NoneAssumption DEF TypeOK
<1>1. ASSUME NEW c \in Conns, NEW k \in Keys, Establish(c, k) PROVE TypeOK'
  BY <1>1 DEF Establish
<1>2. ASSUME NEW c \in Conns, SessionCloses(c) \/ Publish(c) \/ Remove(c) \/ Unpublish(c)
      PROVE  TypeOK'
  BY <1>2 DEF SessionCloses, Publish, Remove, Unpublish
<1>7. ASSUME NEW n \in Names, MeshRegister(n) \/ MeshDeregister(n) PROVE TypeOK'
  BY <1>7 DEF MeshRegister, MeshDeregister
<1>3. CASE TakeSnapshot \/ Sigterm \/ ShutdownSnapshot \/ closeAllTunnels
  BY <1>3 DEF TakeSnapshot, Sigterm, ShutdownSnapshot, closeAllTunnels, liveKeys
<1>4. CASE Exit \/ Crash
  BY <1>4 DEF Exit, Crash, ProcessEnds
<1>5. CASE Restart
  BY <1>5 DEF Restart
<1>6. CASE UNCHANGED vars
  BY <1>6 DEF vars
<1> QED BY <1>1, <1>2, <1>3, <1>4, <1>5, <1>6, <1>7 DEF Next, Handle

(* Every variable of the server keeps its type. *)
THEOREM TypeCorrect == Spec => []TypeOK
  BY InitServerInv, TypeStep, PTL DEF Spec, ServerInv

(* Taking a key over keeps the invariant. *)
LEMMA EstablishStep ==
    ASSUME ServerInv, NEW c \in Conns, NEW k \in Keys, Establish(c, k), TypeOK'
    PROVE  ServerInv'
<1> USE NoneAssumption DEF ServerInv, TypeOK, Establish
<1>1. OpenIsRoutable'
  BY DEF OpenIsRoutable, tunnelSession
<1>2. NoOrphanEntry'
  BY DEF NoOrphanEntry
<1>3. PendingNotLive'
  BY DEF PendingNotLive, liveKeys
<1>4. NoLeakedRecord'
  BY DEF NoLeakedRecord
<1>5. DownEmpty'
  BY DEF DownEmpty
<1> QED BY <1>1, <1>2, <1>3, <1>4, <1>5

(* The rest of a handler keeps the invariant. *)
LEMMA HandlerStep ==
    ASSUME ServerInv, NEW c \in Conns, SessionCloses(c) \/ Handle(c), TypeOK'
    PROVE  ServerInv'
<1> USE NoneAssumption DEF ServerInv, TypeOK
<1>1. CASE SessionCloses(c)
  BY <1>1 DEF SessionCloses, OpenIsRoutable, tunnelSession, NoOrphanEntry, PendingNotLive,
              liveKeys, NoLeakedRecord, DownEmpty
<1>2. CASE Publish(c)
  BY <1>2 DEF Publish, OpenIsRoutable, tunnelSession, NoOrphanEntry, PendingNotLive,
              liveKeys, NoLeakedRecord, DownEmpty
<1>3. CASE Remove(c)
  <2>1. OpenIsRoutable'
    BY <1>3 DEF Remove, OpenIsRoutable, tunnelSession
  <2>2. NoOrphanEntry'
    BY <1>3 DEF Remove, NoOrphanEntry
  <2>3. PendingNotLive'
    BY <1>3 DEF Remove, PendingNotLive, liveKeys
  <2>4. NoLeakedRecord' /\ DownEmpty'
    BY <1>3 DEF Remove, NoLeakedRecord, DownEmpty
  <2> QED BY <2>1, <2>2, <2>3, <2>4
<1>4. CASE Unpublish(c)
  <2>1. OpenIsRoutable'
    BY <1>4 DEF Unpublish, OpenIsRoutable, tunnelSession
  <2>2. NoOrphanEntry'
    BY <1>4 DEF Unpublish, NoOrphanEntry
  <2>3. PendingNotLive' /\ DownEmpty'
    BY <1>4 DEF Unpublish, PendingNotLive, liveKeys, DownEmpty
  <2>4. NoLeakedRecord'
    BY <1>4 DEF Unpublish, NoLeakedRecord
  <2> QED BY <2>1, <2>2, <2>3, <2>4
<1> QED BY <1>1, <1>2, <1>3, <1>4 DEF Handle

(* The registry's API keeps the invariant: what it adds is marked, and what it takes
   away nobody needs to answer for. *)
LEMMA RegistryStep ==
    ASSUME ServerInv, NEW n \in Names, MeshRegister(n) \/ MeshDeregister(n), TypeOK'
    PROVE  ServerInv'
<1>1. UNCHANGED <<phase, tunnels, pending, open, pc, key>>
  BY DEF MeshRegister, MeshDeregister
<1>2. OpenIsRoutable' /\ NoOrphanEntry' /\ PendingNotLive' /\ DownEmpty'
  BY <1>1 DEF ServerInv, OpenIsRoutable, tunnelSession, NoOrphanEntry, PendingNotLive,
              liveKeys, DownEmpty
<1>3. NoLeakedRecord'
  BY <1>1 DEF MeshRegister, MeshDeregister, ServerInv, NoLeakedRecord
<1> QED BY <1>2, <1>3 DEF ServerInv

(* Snapshots, shutdown, crash and restart keep the invariant. *)
LEMMA ProcessStep ==
    ASSUME ServerInv, TypeOK',
           TakeSnapshot \/ Sigterm \/ ShutdownSnapshot \/ closeAllTunnels
           \/ Exit \/ Crash \/ Restart \/ UNCHANGED vars
    PROVE  ServerInv'
<1> USE NoneAssumption DEF ServerInv, TypeOK
<1>1. CASE TakeSnapshot \/ Sigterm \/ ShutdownSnapshot \/ UNCHANGED vars
  BY <1>1 DEF TakeSnapshot, Sigterm, ShutdownSnapshot, vars, OpenIsRoutable, tunnelSession,
              NoOrphanEntry, PendingNotLive, liveKeys, NoLeakedRecord, DownEmpty
<1>2. CASE closeAllTunnels
  <2>1. OpenIsRoutable'
    BY <1>2 DEF closeAllTunnels, OpenIsRoutable, tunnelSession
  <2>2. NoOrphanEntry' /\ PendingNotLive' /\ DownEmpty'
    BY <1>2 DEF closeAllTunnels, NoOrphanEntry, PendingNotLive, liveKeys, DownEmpty
  <2>3. NoLeakedRecord'
    BY <1>2 DEF closeAllTunnels, NoLeakedRecord
  <2> QED BY <2>1, <2>2, <2>3
<1>3. CASE Exit \/ Crash
  BY <1>3 DEF Exit, Crash, ProcessEnds, OpenIsRoutable, tunnelSession, NoOrphanEntry,
              PendingNotLive, liveKeys, NoLeakedRecord, DownEmpty
<1>4. CASE Restart
  <2>1. OpenIsRoutable' /\ NoOrphanEntry' /\ DownEmpty'
    BY <1>4 DEF Restart, OpenIsRoutable, tunnelSession, NoOrphanEntry, DownEmpty
  <2>2. PendingNotLive'
    BY <1>4 DEF Restart, PendingNotLive, liveKeys, DownEmpty
  <2>3. NoLeakedRecord'
    BY <1>4 DEF Restart, NoLeakedRecord
  <2> QED BY <2>1, <2>2, <2>3
<1> QED BY <1>1, <1>2, <1>3, <1>4

LEMMA ServerInvariant == Spec => []ServerInv
<1>1. ServerInv /\ [Next]_vars => ServerInv'
  <2> SUFFICES ASSUME ServerInv, [Next]_vars PROVE ServerInv'
    OBVIOUS
  <2>1. TypeOK'
    BY TypeStep DEF ServerInv
  <2> QED BY <2>1, EstablishStep, HandlerStep, RegistryStep, ProcessStep DEF Next
<1> QED BY <1>1, InitServerInv, PTL DEF Spec

(* Public requests for a key always reach the client that connected last and is
   still connected. *)
THEOREM NewestClientServed == Spec => []OpenIsRoutable
<1>1. ServerInv => OpenIsRoutable
  BY DEF ServerInv
<1> QED BY <1>1, ServerInvariant, PTL

(* No record of the routing table outlives the handler that would remove it. *)
THEOREM NoOrphans == Spec => []NoOrphanEntry
<1>1. ServerInv => NoOrphanEntry
  BY DEF ServerInv
<1> QED BY <1>1, ServerInvariant, PTL

(* No tunnel is live and pending at once, across snapshots and restarts. *)
THEOREM PendingDisjoint == Spec => []PendingNotLive
<1>1. ServerInv => PendingNotLive
  BY DEF ServerInv
<1> QED BY <1>1, ServerInvariant, PTL

(* No handler leaves an A record behind but by a delete that fails, however its
   publish and unpublish, each of which may fail, interleave with those of other
   handlers, with the registry's API, with crashes and with restarts. *)
THEOREM RecordsAccountedFor == Spec => []NoLeakedRecord
<1>1. ServerInv => NoLeakedRecord
  BY DEF ServerInv
<1> QED BY <1>1, ServerInvariant, PTL
================================================================================
