------------------------------ MODULE MCLBManager ------------------------------
(* TLC instances of LBManager: a static backend "s", a dynamic one "d" with two
   possible struct addresses, so that a re-registered backend can differ from
   the pointer that routes and handlers still hold. *)
EXTENDS LBManager, TLC

CONSTANTS s, d, e, n1, n2

MCIds == {s, d}
MCObjs == {"s0", "d0", "d1"}
MCIdOf == [o \in MCObjs |-> IF o = "s0" THEN s ELSE d]
MCStatics == {"s0"}
MCRegNs == [i \in {s, d} |-> {n1}]
MCKeys == {"k"}
MCKeyNs == [k \in MCKeys |-> n1]

(* Two namespaces and no static backend, one address for each backend: e serves
   n2, and d moves between n1 and n2. The key of n1 can only go to d. *)
NSIds == {d, e}
NSObjs == {"d0", "e0"}
NSIdOf == [o \in NSObjs |-> IF o = "e0" THEN e ELSE d]
NSRegNs == [i \in NSIds |-> IF i = e THEN {n2} ELSE {n1, n2}]
NSKeys == {"k", "q"}
NSKeyNs == [k \in NSKeys |-> IF k = "q" THEN n2 ELSE n1]

ConnSymmetry == Permutations(Conns)
================================================================================
