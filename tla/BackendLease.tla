------------------------------ MODULE BackendLease ------------------------------
(* What the load balancer promises about the membership of a backend,
   independently of slices, pointers and locks: every backend id is in exactly
   one of four conditions, and the only ways between them are the ones below.
   In particular a backend that is not stale leaves the pool only by its own
   deregistration, and a configured (static) backend leaves it never, unless a
   barge took the entry over by registering under the same id.

   LBManager implements this specification (see the instance Lease there). *)

CONSTANTS
    Ids,        \* backend ids, host:control
    StaticIds   \* ids configured with -backends, a subset of Ids

VARIABLE lease  \* lease[i]: the membership of backend i

Condition == {"absent", "static", "fresh", "stale"}

TypeOK == lease \in [Ids -> Condition]

Init == lease = [i \in Ids |-> IF i \in StaticIds THEN "static" ELSE "absent"]

(* A registration or a heartbeat (re)starts the lease, whatever it was. *)
Renew(i) == lease' = [lease EXCEPT ![i] = "fresh"]

(* The barge goes away and says so. *)
Leave(i) == /\ lease[i] \in {"fresh", "stale"}
            /\ lease' = [lease EXCEPT ![i] = "absent"]

(* The TTL elapses without a heartbeat. *)
Lapse(i) == /\ lease[i] = "fresh"
            /\ lease' = [lease EXCEPT ![i] = "stale"]

(* The pruner evicts any number of lapsed backends at once, and nobody else. *)
Evict == \E S \in SUBSET {i \in Ids : lease[i] = "stale"} :
            lease' = [i \in Ids |-> IF i \in S THEN "absent" ELSE lease[i]]

Next == \/ \E i \in Ids : Renew(i) \/ Leave(i) \/ Lapse(i)
        \/ Evict

Spec == Init /\ [][Next]_lease
================================================================================
