----------------------------- MODULE ProcessesProofs -----------------------------
(* Proofs about Processes: types of the barge fleet and of the client, and the names
   under which a client is found, for any fleet, any number of streams and any
   configurations. *)
EXTENDS Processes, TLAPS

(* One step of the composition is a step of a component or leaves it alone. *)
LEMMA ProcessStep ==
    ASSUME [ProcessNext]_allVars
    PROVE  [Next]_vars /\ [Client!Next]_clientVars
  BY DEF ProcessNext, allVars, Run

--------------------------------------------------------------------------------
(* THE FLEET *)

LEMMA FleetTypeInit == Init => TypeOK
<1> SUFFICES ASSUME Init PROVE TypeOK
  OBVIOUS
<1>1. mode \in {"barge", "server"} /\ registrar \in BOOLEAN
  BY DEF Init
<1>2. LB!TypeOK
  BY DEF Init, LB!Init, LB!TypeOK, LB!Condition
<1> QED BY <1>1, <1>2 DEF Init, TypeOK, newBargeFleet, Ended, Alive, All

LEMMA FleetTypeStep ==
    ASSUME TypeOK, [Next]_vars
    PROVE  TypeOK'
<1> USE DEF TypeOK, LB!TypeOK, LB!Condition
<1>1. ASSUME NEW b \in Barges, StartBarge(b) \/ StartFails(b)
      PROVE  TypeOK'
  BY <1>1 DEF StartBarge, StartFails, Goto, All, Ended, Alive
<1>2. ASSUME NEW b \in Barges, Crash(b) \/ ContextKill(b) \/ SaveAndExit(b)
      PROVE  TypeOK'
  BY <1>2 DEF Crash, ContextKill, SaveAndExit, supVars, All, Ended, Alive
<1>3. ASSUME NEW b \in All, Ready(b) \/ RegisterFails(b) \/ GraceOver(b) \/ Left(b) \/ Decide(b)
                            \/ SleepOrDone(b) \/ ServerDone(b)
      PROVE  TypeOK'
  BY <1>3 DEF Ready, RegisterFails, GraceOver, Left, Decide, SleepOrDone, ServerDone, Goto
<1>4. ASSUME NEW b \in All, Register(b) \/ RegisterOk(b) \/ Deregister(b)
      PROVE  TypeOK'
  BY <1>4 DEF Register, RegisterOk, Deregister, Post, Goto, LB!Renew
<1>5. ASSUME NEW b \in All, ChildReaped(b) \/ SignalStop(b) \/ GraceKill(b)
      PROVE  TypeOK'
  BY <1>5 DEF ChildReaped, SignalStop, GraceKill, Goto, Ended, Alive
<1>6. ASSUME NEW b \in All, Heartbeat(b) \/ Boot(b) \/ Lapse(b) \/ Evict(b)
      PROVE  TypeOK'
  BY <1>6 DEF Heartbeat, Boot, Lapse, Evict, LB!Lapse, LB!Evict, Post, supVars, Ended, Alive
<1>7. ASSUME NEW b \in Servers, NEW end \in {"saved", "crashed"}, ServerExits(b, end)
      PROVE  TypeOK'
  BY <1>7 DEF ServerExits, Goto, All, Ended, Alive
<1>8. ASSUME NEW m \in net, Deliver(m) \/ Lose(m)
      PROVE  TypeOK'
  BY <1>8 DEF Deliver, Lose, LB!Renew, LB!Leave, supVars
<1>9. CASE Signal \/ DeregisterAll \/ LBRestart
  BY <1>9 DEF Signal, DeregisterAll, LBRestart, supVars, All
<1>10. CASE UNCHANGED vars
  BY <1>10 DEF vars, supVars
<1> QED BY <1>1, <1>2, <1>3, <1>4, <1>5, <1>6, <1>7, <1>8, <1>9, <1>10 DEF Next, Supervise

(* A supervisor is past waiting for its child only when the child has ended, so that
   the next start never gives a barge a second one. *)
NoChild == {"start", "deregister", "leaving", "decide", "sleep", "done", "off"}
ChildEnded == \A b \in Barges : pc[b] \in NoChild => child[b] \in Ended

(* A heartbeat goroutine exists only between the answer to the registration and the
   deregistration of the same turn of the loop. *)
BeatsWhileSupervised == \A b \in beating : pc[b] \in {"wait", "grace", "expired", "deregister"}

(* The fleet stops after all its supervisors. *)
StoppedLast == main = "stopped" => \A b \in Barges : pc[b] \in {"done", "off"}

FleetInv == TypeOK /\ ChildEnded /\ BeatsWhileSupervised /\ StoppedLast

(* What a fleet that has stopped leaves behind: no child and, as for every backend
   that is given up, no heartbeat that could put it back into the pool. *)
NothingLeft ==
    /\ main = "stopped" => \A b \in Barges : child[b] \in Ended
    /\ \A b \in All : pc[b] \in {"done", "off"} => b \notin beating

LEMMA FleetInvInit == Init => FleetInv
<1> SUFFICES ASSUME Init PROVE FleetInv
  OBVIOUS
<1>1. ChildEnded
  BY FleetAssumption DEF Init, ChildEnded, NoChild, Ended, All
<1>2. StoppedLast
  BY FleetAssumption DEF Init, StoppedLast, All
<1> QED BY <1>1, <1>2, FleetTypeInit DEF Init, FleetInv, BeatsWhileSupervised

LEMMA FleetInvStep ==
    ASSUME FleetInv, [Next]_vars
    PROVE  FleetInv'
<1>1. TypeOK'
  BY FleetTypeStep DEF FleetInv
<1> USE DEF FleetInv, TypeOK, ChildEnded, BeatsWhileSupervised, StoppedLast, NoChild, Ended, Alive
<1>2. ASSUME NEW b \in Barges, StartBarge(b) \/ StartFails(b)
      PROVE  FleetInv'
  BY <1>1, <1>2 DEF StartBarge, StartFails, Goto, All
<1>3. ASSUME NEW b \in Barges, Crash(b) \/ ContextKill(b) \/ SaveAndExit(b)
      PROVE  FleetInv'
  BY <1>1, <1>3 DEF Crash, ContextKill, SaveAndExit, supVars, All
<1>4. ASSUME NEW b \in All, Ready(b) \/ RegisterFails(b) \/ GraceOver(b) \/ Left(b)
      PROVE  FleetInv'
  BY <1>1, <1>4 DEF Ready, RegisterFails, GraceOver, Left, Goto, All
<1>5. ASSUME NEW b \in All, Decide(b) \/ SleepOrDone(b) \/ ServerDone(b)
      PROVE  FleetInv'
  BY <1>1, <1>5, FleetAssumption DEF Decide, SleepOrDone, ServerDone, Goto, All
<1>6. ASSUME NEW b \in All, Register(b) \/ RegisterOk(b) \/ Deregister(b)
      PROVE  FleetInv'
  BY <1>1, <1>6 DEF Register, RegisterOk, Deregister, Post, Goto, All
<1>7. ASSUME NEW b \in All, ChildReaped(b) \/ SignalStop(b) \/ GraceKill(b)
      PROVE  FleetInv'
  BY <1>1, <1>7 DEF ChildReaped, SignalStop, GraceKill, Goto, All
<1>8. ASSUME NEW b \in All, Heartbeat(b) \/ Boot(b) \/ Lapse(b) \/ Evict(b)
      PROVE  FleetInv'
  BY <1>1, <1>8 DEF Heartbeat, Boot, Lapse, Evict, supVars, All
<1>9. ASSUME NEW b \in Servers, NEW end \in {"saved", "crashed"}, ServerExits(b, end)
      PROVE  FleetInv'
  BY <1>1, <1>9, FleetAssumption DEF ServerExits, Goto, All
<1>10. CASE (\E m \in net : Deliver(m) \/ Lose(m)) \/ Signal \/ LBRestart \/ UNCHANGED vars
  BY <1>1, <1>10 DEF Deliver, Lose, Signal, LBRestart, supVars, vars
<1>11. CASE DeregisterAll
  BY <1>1, <1>11 DEF DeregisterAll, supVars
<1> QED BY <1>2, <1>3, <1>4, <1>5, <1>6, <1>7, <1>8, <1>9, <1>10, <1>11 DEF Next, Supervise

(* The safety of FleetStops and DeadLeavesPool, for any fleet: whatever was lost,
   killed or slow, a fleet that says it has stopped has no child left, and a backend
   that was given up is never heartbeated again. *)
THEOREM StoppedFleetLeavesNothing == ProcessSpec => []NothingLeft
<1>1. ProcessInit => FleetInv
  BY FleetInvInit DEF ProcessInit
<1>2. FleetInv /\ [ProcessNext]_allVars => FleetInv'
  BY ProcessStep, FleetInvStep
<1>3. FleetInv => NothingLeft
  BY DEF FleetInv, ChildEnded, StoppedLast, BeatsWhileSupervised, NoChild, NothingLeft
<1> QED BY <1>1, <1>2, <1>3, PTL DEF ProcessSpec

--------------------------------------------------------------------------------
(* THE CLIENT *)

(* The handler of a session is counted among the late ones only when the session
   ends: while it is there, there is room for it. *)
ClientInv ==
    /\ Client!TypeOK
    /\ c_entry # "none" => c_late < Client!MaxLate

LEMMA ClientInvInit == Client!Init => ClientInv
<1> SUFFICES ASSUME Client!Init PROVE ClientInv
  OBVIOUS
<1>1. /\ c_st \in [Streams -> {"idle", "check", "count", "dial", "relay"}]
      /\ c_conns \in [Streams -> SUBSET {"tunnel", "local"}]
      /\ c_copiers \in [Streams -> SUBSET {"tunnel", "local"}]
      /\ c_stalled \in [Streams -> SUBSET {"tunnel", "local"}]
  BY DEF Client!Init
<1>2. c_reg \in {"off", "post", "sent", "sleep", "done"}
  BY DEF Client!Init
<1>3. /\ c_cfg \in ClientConfigs /\ c_ctx = "live" /\ c_pc = "dial" /\ c_link = "none"
      /\ c_active \in BOOLEAN /\ c_watcher = "wait" /\ c_entry = "none" /\ c_late = 0 /\ c_record = {}
  BY DEF Client!Init
<1> QED BY <1>1, <1>2, <1>3 DEF ClientInv, Client!TypeOK, Client!MaxLate

LEMMA ClientInvStep ==
    ASSUME ClientInv, [Client!Next]_clientVars
    PROVE  ClientInv'
<1> USE DEF ClientInv, Client!TypeOK, Client!MaxLate, Client!conn, Client!server, Client!relay
<1>1. CASE Client!Dial \/ Client!SendAuth \/ Client!NewSession \/ Client!SetActive \/ Client!Loop
           \/ Client!AcceptFails \/ Client!Signal
  <2>1. CASE Client!Dial \/ Client!SendAuth
    BY <2>1 DEF Client!Dial, Client!SendAuth
  <2>2. CASE Client!NewSession \/ Client!SetActive \/ Client!Loop
    BY <2>2 DEF Client!NewSession, Client!SetActive, Client!Loop
  <2>3. CASE Client!AcceptFails \/ Client!Signal
    BY <2>3 DEF Client!AcceptFails, Client!Signal
  <2> QED BY <1>1, <2>1, <2>2, <2>3
<1>2. CASE Client!Exit \/ Client!Watch \/ Client!Break
  BY <1>2 DEF Client!Exit, Client!Watch, Client!Break
<1>3. CASE Client!Leave
  <2>1. c_late' \in 0 .. Client!MaxLate /\ c_entry' = "none"
    BY <1>3 DEF Client!Leave
  <2>2. c_conns' \in [Streams -> SUBSET {"tunnel", "local"}]
    BY <1>3 DEF Client!Leave
  <2>3. /\ UNCHANGED <<c_cfg, c_ctx, c_watcher, c_record, c_reg, c_st, c_copiers, c_stalled>>
        /\ c_active' = FALSE /\ c_link' = "none" /\ c_pc' = "dial"
    BY <1>3 DEF Client!Leave
  <2> QED BY <2>1, <2>2, <2>3 DEF Client!publishedID, Client!meshHostID, Client!normalizeNamespace
<1>4. CASE Client!Establish \/ Client!Publish \/ Client!Unpublish
  BY <1>4 DEF Client!Establish, Client!Publish, Client!Unpublish
<1>5. CASE Client!Post \/ Client!Registered \/ Client!PostFails \/ Client!Sleep
  BY <1>5 DEF Client!Post, Client!Registered, Client!PostFails, Client!Sleep
<1>6. ASSUME NEW s \in Streams, Client!Accept(s) \/ Client!Serve(s)
                                \/ \E e \in {"tunnel", "local"} : Client!Peer(s, e)
      PROVE  ClientInv'
  <2>1. CASE Client!Accept(s) \/ \E e \in {"tunnel", "local"} : Client!PeerCloses(s, e)
    BY <2>1 DEF Client!Accept, Client!PeerCloses
  <2>2. CASE \E e \in {"tunnel", "local"} : Client!CopyEnds(s, e) \/ Client!WriteFails(s, e)
    BY <2>2 DEF Client!CopyEnds, Client!WriteFails, Client!closeBoth
  <2>5. CASE \E e \in {"tunnel", "local"} : Client!Stall(s, e) \/ Client!PeerReads(s, e)
    BY <2>5 DEF Client!Stall, Client!PeerReads
  <2>3. CASE Client!CheckLimit(s) \/ Client!Count(s)
    BY <2>3 DEF Client!CheckLimit, Client!Count, Client!EndStream
  <2>4. CASE Client!DialLocal(s) \/ Client!RelayReturns(s)
    BY <2>4 DEF Client!DialLocal, Client!RelayReturns, Client!EndStream
  <2> QED BY <1>6, <2>1, <2>2, <2>3, <2>4, <2>5 DEF Client!Serve, Client!Peer
<1>7. CASE UNCHANGED clientVars
  BY <1>7 DEF clientVars
<1> QED BY <1>1, <1>2, <1>3, <1>4, <1>5, <1>6, <1>7 DEF Client!Next, Client!Client

(* Fleet and client keep their types, whatever the sizes: in particular never more
   than MaxLate handlers of earlier sessions are at work. *)
THEOREM ProcessTypeCorrect == ProcessSpec => []ProcessTypeOK
<1> DEFINE I == TypeOK /\ ClientInv
<1>1. ProcessInit => I
  BY FleetTypeInit, ClientInvInit DEF ProcessInit
<1>2. I /\ [ProcessNext]_allVars => I'
  BY ProcessStep, FleetTypeStep, ClientInvStep
<1>3. I => ProcessTypeOK
  BY DEF ClientInv, ProcessTypeOK
<1> HIDE DEF I
<1> QED BY <1>1, <1>2, <1>3, PTL DEF ProcessSpec

(* What a stream holds follows from where proxyStreamToLocal stands: nothing when it
   has returned, no local connection and no copier before the relay; and only a copier
   that runs is held in a Write. *)
StreamsHoldNoMore ==
    \A s \in Streams : /\ c_st[s] = "idle" => c_conns[s] = {}
                       /\ c_st[s] # "relay" => c_copiers[s] = {} /\ c_conns[s] \subseteq {"tunnel"}
                       /\ c_stalled[s] \subseteq c_copiers[s]

LEMMA StreamsStep ==
    ASSUME ClientInv, StreamsHoldNoMore, [Client!Next]_clientVars
    PROVE  StreamsHoldNoMore'
<1> USE DEF ClientInv, Client!TypeOK, StreamsHoldNoMore, Client!conn, Client!server, Client!relay
<1>1. CASE Client!Exit
  BY <1>1 DEF Client!Exit
<1>2. CASE Client!Leave \/ Client!Watch \/ Client!Break
  <2>1. /\ UNCHANGED <<c_st, c_copiers, c_stalled>>
        /\ \A s \in Streams : c_conns'[s] \subseteq c_conns[s]
    BY <1>2 DEF Client!Leave, Client!Watch, Client!Break
  <2> QED BY <2>1
<1>3. ASSUME NEW s \in Streams, Client!Accept(s) \/ Client!Serve(s)
                                \/ \E e \in {"tunnel", "local"} : Client!Peer(s, e)
      PROVE  StreamsHoldNoMore'
  <2>1. CASE Client!Accept(s) \/ \E e \in {"tunnel", "local"} : Client!PeerCloses(s, e)
    BY <2>1 DEF Client!Accept, Client!PeerCloses
  <2>2. CASE \E e \in {"tunnel", "local"} : Client!CopyEnds(s, e) \/ Client!WriteFails(s, e)
    BY <2>2 DEF Client!CopyEnds, Client!WriteFails, Client!closeBoth
  <2>5. CASE \E e \in {"tunnel", "local"} : Client!Stall(s, e) \/ Client!PeerReads(s, e)
    BY <2>5 DEF Client!Stall, Client!PeerReads
  <2>3. CASE Client!CheckLimit(s) \/ Client!Count(s)
    BY <2>3 DEF Client!CheckLimit, Client!Count, Client!EndStream
  <2>4. CASE Client!DialLocal(s) \/ Client!RelayReturns(s)
    BY <2>4 DEF Client!DialLocal, Client!RelayReturns, Client!EndStream
  <2> QED BY <1>3, <2>1, <2>2, <2>3, <2>4, <2>5 DEF Client!Serve, Client!Peer
<1>4. CASE UNCHANGED <<c_st, c_conns, c_copiers, c_stalled>>
  BY <1>4
<1>5. \/ Client!Exit \/ Client!Leave \/ Client!Watch \/ Client!Break
      \/ UNCHANGED <<c_st, c_conns, c_copiers, c_stalled>>
      \/ \E s \in Streams : Client!Accept(s) \/ Client!Serve(s)
                            \/ \E e \in {"tunnel", "local"} : Client!Peer(s, e)
  BY DEF Client!Next, Client!Client, Client!Dial, Client!SendAuth, Client!NewSession, Client!SetActive,
     Client!Loop, Client!AcceptFails, Client!Signal, Client!Establish, Client!Publish, Client!Unpublish,
     Client!Post, Client!Registered, Client!PostFails, Client!Sleep, clientVars
<1> QED BY <1>1, <1>2, <1>3, <1>4, <1>5

(* The safety of SlotsReturn, for any number of streams and any limit: whichever way
   a stream ends (refused, local dial failed, relay over, session or process gone),
   it leaves neither a connection nor a copying goroutine behind. *)
THEOREM StreamsLeaveNothing == ProcessSpec => []StreamsHoldNoMore
<1>1. ProcessInit => ClientInv /\ StreamsHoldNoMore
  BY ClientInvInit DEF ProcessInit, Client!Init, StreamsHoldNoMore
<1>2. ClientInv /\ StreamsHoldNoMore /\ [ProcessNext]_allVars => (ClientInv /\ StreamsHoldNoMore)'
  BY ProcessStep, ClientInvStep, StreamsStep
<1> QED BY <1>1, <1>2, PTL DEF ProcessSpec

--------------------------------------------------------------------------------
(* NAMES *)

(* A domain is a suffix of every name under it. *)
LEMMA UnderDomain ==
    ASSUME NEW S, NEW s \in Seq(S), NEW u \in Seq(S)
    PROVE  Client!IsSuffix(s, u \o s)
<1> DEFINE t == u \o s
<1>1. /\ t \in Seq(S) /\ Len(t) = Len(u) + Len(s)
      /\ \A i \in 1 .. Len(s) : t[(Len(t) - i) + 1] = s[(Len(s) - i) + 1]
  OBVIOUS
<1> HIDE DEF t
<1>2. /\ Client!Reverse(s) \in Seq(S) /\ Len(Client!Reverse(s)) = Len(s)
      /\ Client!Reverse(t) \in Seq(S) /\ Len(Client!Reverse(t)) = Len(t)
      /\ \A i \in 1 .. Len(s) : Client!Reverse(t)[i] = Client!Reverse(s)[i]
  BY <1>1 DEF Client!Reverse
<1> QED BY <1>1, <1>2 DEF Client!IsSuffix, Client!IsPrefix, t

(* Concatenation; then one label before a name, and two. *)
LEMMA Concatenated ==
    ASSUME NEW S, NEW u \in Seq(S), NEW s \in Seq(S)
    PROVE  /\ u \o s \in Seq(S) /\ Len(u \o s) = Len(u) + Len(s)
           /\ \A i \in 1 .. Len(u) : (u \o s)[i] = u[i]
  OBVIOUS

LEMMA OneLabel ==
    ASSUME NEW S, NEW x \in S, NEW s \in Seq(S)
    PROVE  /\ <<x>> \in Seq(S) /\ Len(<<x>>) = 1
           /\ <<x>> \o s \in Seq(S) /\ Len(<<x>> \o s) = 1 + Len(s) /\ (<<x>> \o s)[1] = x
<1>1. <<x>> \in Seq(S) /\ Len(<<x>>) = 1
  OBVIOUS
<1>2. <<x>> \o s \in Seq(S) /\ Len(<<x>> \o s) = 1 + Len(s)
  OBVIOUS
<1>3. (<<x>> \o s)[1] = x
  OBVIOUS
<1> QED BY <1>1, <1>2, <1>3

LEMMA TwoLabels ==
    ASSUME NEW S, NEW x \in S, NEW y \in S, NEW s \in Seq(S)
    PROVE  /\ <<x, y>> \in Seq(S) /\ Len(<<x, y>>) = 2
           /\ <<x, y>> \o s \in Seq(S) /\ Len(<<x, y>> \o s) = 2 + Len(s)
           /\ (<<x, y>> \o s)[1] = x /\ (<<x, y>> \o s)[2] = y
<1> DEFINE u == <<x, y>>
<1>1. u \in Seq(S) /\ Len(u) = 2 /\ u[1] = x /\ u[2] = y
  <2>1. u \in Seq(S)
    OBVIOUS
  <2> QED BY <2>1
<1> HIDE DEF u
<1>2. /\ u \o s \in Seq(S) /\ Len(u \o s) = Len(u) + Len(s)
      /\ \A i \in 1 .. Len(u) : (u \o s)[i] = u[i]
  BY <1>1, Concatenated
<1>3. (u \o s)[1] = x /\ (u \o s)[2] = y /\ Len(u \o s) = 2 + Len(s)
  BY <1>1, <1>2
<1> QED BY <1>1, <1>2, <1>3 DEF u

(* The key that the server finds for a host of the given labels under its domain: the
   first label, in the namespace before the domain. *)
LEMMA KeyUnderDomain ==
    ASSUME NEW srv, NEW S, NEW ns \in S, NEW sub \in S,
           srv.domain \in Seq(S), srv.domain # <<>>, ~srv.direct
    PROVE  /\ Client!tunnelKeyFromHost(srv, <<sub>> \o srv.domain)
                = Client!composeTunnelKey(srv.direct, "default", sub)
           /\ Client!tunnelKeyFromHost(srv, <<sub, ns>> \o srv.domain)
                = Client!composeTunnelKey(srv.direct, ns, sub)
<1>1. /\ Client!IsSuffix(srv.domain, <<sub>> \o srv.domain)
      /\ Client!IsSuffix(srv.domain, <<sub, ns>> \o srv.domain)
  BY UnderDomain, OneLabel, TwoLabels
<1>2. ASSUME NEW host \in Seq(S), Client!IsSuffix(srv.domain, host), host[1] = sub,
             Len(host) > Len(srv.domain)
      PROVE  Client!tunnelKeyFromHost(srv, host)
               = Client!composeTunnelKey(srv.direct, IF Len(host) - Len(srv.domain) = 1 THEN "default"
                                                     ELSE host[Len(host) - Len(srv.domain)], sub)
  <2>1. host # <<>> /\ host # srv.domain
    BY <1>2
  <2> QED BY <1>2, <2>1 DEF Client!tunnelKeyFromHost, Client!Default
<1> DEFINE one == <<sub>> \o srv.domain
           two == <<sub, ns>> \o srv.domain
<1>3. one \in Seq(S) /\ Len(one) = 1 + Len(srv.domain) /\ one[1] = sub
  BY OneLabel
<1>4. two \in Seq(S) /\ Len(two) = 2 + Len(srv.domain) /\ two[1] = sub /\ two[2] = ns
  BY TwoLabels
<1>5. Len(srv.domain) \in Nat
  OBVIOUS
<1> HIDE DEF one, two
<1>6. Client!tunnelKeyFromHost(srv, one) = Client!composeTunnelKey(srv.direct, "default", sub)
  <2>1. Client!IsSuffix(srv.domain, one) /\ Len(one) > Len(srv.domain) /\ Len(one) - Len(srv.domain) = 1
    BY <1>1, <1>3, <1>5 DEF one
  <2> QED BY <1>2, <1>3, <2>1
<1>7. Client!tunnelKeyFromHost(srv, two) = Client!composeTunnelKey(srv.direct, ns, sub)
  <2>1. Client!IsSuffix(srv.domain, two) /\ Len(two) > Len(srv.domain) /\ Len(two) - Len(srv.domain) = 2
    BY <1>1, <1>4, <1>5 DEF two
  <2> QED BY <1>2, <1>4, <2>1
<1> QED BY <1>6, <1>7 DEF one, two

(* For a host that is not under the domain it is the label after the first, if there
   are three or more. *)
LEMMA KeyOutsideDomain ==
    ASSUME NEW srv, NEW S, NEW host \in Seq(S), Len(host) >= 2,
           host[1] \notin {"localhost", "127", "0"}, ~srv.direct,
           srv.domain \in Seq(S), srv.domain = <<>> \/ ~Client!IsSuffix(srv.domain, host)
    PROVE  Client!tunnelKeyFromHost(srv, host)
             = Client!composeTunnelKey(srv.direct, IF Len(host) >= 3 THEN host[2] ELSE "default", host[1])
<1>1. host # <<>>
  OBVIOUS
<1>2. srv.domain # <<>> => host # srv.domain
  <2> SUFFICES ASSUME host = srv.domain PROVE Client!IsSuffix(srv.domain, host)
    OBVIOUS
  <2>1. Client!Reverse(host) \in Seq(S)
    BY DEF Client!Reverse
  <2> QED BY <2>1 DEF Client!IsSuffix, Client!IsPrefix
<1> QED BY <1>1, <1>2 DEF Client!tunnelKeyFromHost, Client!Default

LEMMA URLReaches ==
    ASSUME NEW c \in ClientConfigs, Client!Named(c)
    PROVE  Client!publicHandler(c.srv, Client!publicURL(c)) = Client!tunnelKey(c)
<1> DEFINE S == STRING \cup {"default", "localhost"}
           srv == c.srv
           ns == Client!normalizeNamespace(c.ns)
           base == Client!urlBase(c)
           url == Client!publicURL(c)
<1>1. /\ c.ns \in S /\ c.sub \in S /\ c.domain \in Seq(S) /\ c.server \in Seq(S)
      /\ srv.domain \in Seq(S)
  <2>1. /\ c.ns \in STRING /\ c.sub \in STRING /\ c.domain \in Seq(STRING) /\ c.server \in Seq(STRING)
        /\ srv.domain \in Seq(STRING)
    BY ClientAssumption DEF Client!ClientConstants
  <2> QED BY <2>1
<1>2. /\ Client!publicHandler(srv, url) = Client!tunnelKeyFromHost(srv, url)
      /\ \/ srv.direct /\ Client!normalizeNamespace(srv.ns) = ns
         \/ /\ ~srv.direct /\ ~c.direct
            /\ \/ srv.domain # <<>> /\ base = srv.domain
               \/ /\ srv.domain = <<>> \/ ~Client!IsSuffix(srv.domain, url)
                  /\ c.sub \notin {"localhost", "127", "0"}
                  /\ ns # "default" \/ Len(base) = 1
  BY DEF Client!Named, Client!publicHandler, Client!Default
<1>3. CASE srv.direct /\ Client!normalizeNamespace(srv.ns) = ns
  BY <1>2, <1>3 DEF Client!tunnelKeyFromHost, Client!composeTunnelKey, Client!tunnelKey
<1>4. CASE ~srv.direct /\ ~c.direct
  <2>1. ns \in S /\ ns # ""
    BY <1>1 DEF Client!normalizeNamespace, Client!Default
  <2>2. url = IF ns = "default" THEN <<c.sub>> \o base ELSE <<c.sub, ns>> \o base
    BY <1>4 DEF Client!publicURL, Client!Default
  <2>3. base \in Seq(S) /\ base # <<>>
    <3>1. <<"localhost">> \in Seq(S) /\ <<"localhost">> # <<>>
      OBVIOUS
    <3> QED BY <1>1, <3>1 DEF Client!urlBase
  <2>4. /\ Client!tunnelKey(c) = <<ns, c.sub>>
        /\ Client!composeTunnelKey(srv.direct, "default", c.sub) = <<"default", c.sub>>
    BY <1>4 DEF Client!tunnelKey, Client!composeTunnelKey, Client!normalizeNamespace, Client!Default
  <2>5. Client!composeTunnelKey(srv.direct, ns, c.sub) = <<ns, c.sub>>
    BY <1>4, <2>1 DEF Client!composeTunnelKey, Client!normalizeNamespace
  <2> HIDE DEF S, ns, base, url, srv
  <2>6. CASE srv.domain # <<>> /\ base = srv.domain
    <3>1. Client!tunnelKeyFromHost(srv, url) = <<ns, c.sub>>
      BY <1>1, <1>4, <2>1, <2>2, <2>4, <2>5, <2>6, KeyUnderDomain
    <3> QED BY <1>2, <2>4, <3>1 DEF srv, url
  <2>7. CASE /\ srv.domain = <<>> \/ ~Client!IsSuffix(srv.domain, url)
             /\ c.sub \notin {"localhost", "127", "0"}
             /\ ns # "default" \/ Len(base) = 1
    <3>1. Len(base) \in Nat /\ Len(base) >= 1
      BY <2>3
    <3>2. CASE ns = "default"
      <4>1. url \in Seq(S) /\ Len(url) = 2 /\ url[1] = c.sub
        <5>1. /\ <<c.sub>> \o base \in Seq(S) /\ Len(<<c.sub>> \o base) = 1 + Len(base)
              /\ (<<c.sub>> \o base)[1] = c.sub
          BY <1>1, <2>3, OneLabel
        <5>2. url = <<c.sub>> \o base /\ Len(base) = 1
          BY <2>2, <2>7, <3>2
        <5> QED BY <5>1, <5>2
      <4>2. Client!tunnelKeyFromHost(srv, url) = Client!composeTunnelKey(srv.direct, "default", c.sub)
        <5>1. Len(url) >= 2 /\ ~(Len(url) >= 3) /\ ~srv.direct
          BY <1>4, <4>1 DEF srv
        <5>2. Client!tunnelKeyFromHost(srv, url)
                = Client!composeTunnelKey(srv.direct, IF Len(url) >= 3 THEN url[2] ELSE "default", url[1])
          BY <1>1, <2>7, <4>1, <5>1, KeyOutsideDomain
        <5> QED BY <4>1, <5>1, <5>2
      <4> QED BY <1>2, <2>4, <3>2, <4>2 DEF srv, url
    <3>3. CASE ns # "default"
      <4>1. url \in Seq(S) /\ Len(url) >= 3 /\ url[1] = c.sub /\ url[2] = ns
        <5>1. /\ <<c.sub, ns>> \o base \in Seq(S) /\ Len(<<c.sub, ns>> \o base) = 2 + Len(base)
              /\ (<<c.sub, ns>> \o base)[1] = c.sub /\ (<<c.sub, ns>> \o base)[2] = ns
          <6>1. c.sub \in S /\ ns \in S /\ base \in Seq(S)
            BY <1>1, <2>1, <2>3
          <6> QED BY ONLY <6>1, TwoLabels
        <5>2. url = <<c.sub, ns>> \o base
          BY <2>2, <3>3
        <5> QED BY <3>1, <5>1, <5>2
      <4>2. Client!tunnelKeyFromHost(srv, url) = Client!composeTunnelKey(srv.direct, ns, c.sub)
        BY <1>1, <1>4, <2>7, <4>1, KeyOutsideDomain
      <4> QED BY <1>2, <2>4, <2>5, <4>2 DEF srv, url
    <3> QED BY <3>2, <3>3
  <2> QED BY <1>2, <1>4, <2>6, <2>7
<1> QED BY <1>2, <1>3, <1>4

(* A visitor who follows the URL that a client shows reaches it, with any subdomain
   and namespace and any flags of client and server that are as Named asks. *)
THEOREM PublicURLsReach == ProcessSpec => []PublicURLReaches
<1>1. ProcessInit => ClientInv
  BY ClientInvInit DEF ProcessInit
<1>2. ClientInv /\ [ProcessNext]_allVars => ClientInv'
  BY ProcessStep, ClientInvStep
<1>3. ClientInv => PublicURLReaches
  BY URLReaches DEF ClientInv, Client!TypeOK, PublicURLReaches, Client!PublicURLReaches
<1> QED BY <1>1, <1>2, <1>3, PTL DEF ProcessSpec
================================================================================
