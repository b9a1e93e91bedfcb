------------------------------ MODULE MCK3sFleet ------------------------------
(* Two pods and two images; controllers started by tag, pinned, publishing a
   local image first, and with cleanup at the end; some hold the first pod back. *)
EXTENDS K3sFleet

CONSTANTS d1, d2

MCDigests == {d1, d2}

ByTag == [image |-> Tag, partition |-> 1, publish |-> None, publishOnly |-> FALSE,
          hub |-> TRUE, pull |-> TRUE, cleanup |-> FALSE]
MCFlags == {[ByTag EXCEPT !.image = d2, !.pull = FALSE, !.hub = FALSE, !.partition = 0],
            [ByTag EXCEPT !.publish = d1, !.publishOnly = TRUE],
            [ByTag EXCEPT !.publish = d2, !.cleanup = TRUE]}
===============================================================================
