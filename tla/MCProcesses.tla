------------------------------ MODULE MCProcesses ------------------------------
(* Values of the constants of Processes for model checking. *)
EXTENDS Processes, TLC

(* Clients with and without a namespace, a domain, the mesh; direct routing; and
   servers with other flags than their clients', with which some URLs lead nowhere. *)
Domain == <<"example", "com">>
Srv == [ns |-> "", domain |-> <<>>, direct |-> FALSE, vhosts |-> {}]
C == [ns |-> "", sub |-> "myapp", domain |-> <<>>, server |-> <<"127", "0", "0", "1">>,
      direct |-> FALSE, mesh |-> TRUE, meshHost |-> "", visits |-> {}, srv |-> Srv]
Quiet == [C EXCEPT !.mesh = FALSE, !.domain = Domain, !.srv.domain = Domain]
MCClientConfigs ==
    {C,
     [C EXCEPT !.ns = "team", !.domain = Domain, !.srv.domain = Domain],
     [Quiet EXCEPT !.ns = "team", !.domain = <<>>, !.server = <<"10", "0", "0", "7">>],
     [Quiet EXCEPT !.server = <<"tug", "example", "com">>],
     [Quiet EXCEPT !.direct = TRUE, !.ns = "team", !.visits = Streams,
                   !.srv = [Srv EXCEPT !.direct = TRUE, !.ns = "team"]],
     [Quiet EXCEPT !.ns = "team", !.srv.direct = TRUE],
     [Quiet EXCEPT !.srv.domain = <<>>],
     [Quiet EXCEPT !.srv.vhosts = {<<"myapp", "example", "com">>}]}

(* All but the last three are Named; the URLs of those three do not lead to them. *)
ASSUME NamedAssumption == Cardinality({c \in MCClientConfigs : Client!Named(c)}) = 5
================================================================================
