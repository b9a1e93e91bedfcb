---------------------------- MODULE MCAnycastEdge ----------------------------
(* Two prefixes, the second a part of the first, and ROAs that make them     *)
(* valid, too long, another network's, private or unknown; every setting of  *)
(* the other gates.                                                          *)
EXTENDS AnycastEdge

MCPrefixes == {<<1, 0>>, <<1, 0, 1>>}
MCPrivateBlocks == {<<1, 0, 1>>}

roa(p, asn, max) == [prefix |-> p, asn |-> asn, maxLength |-> max]
validator(enabled, requireValid, allowPrivate, roas) ==
  [enabled |-> enabled, requireValid |-> requireValid, allowPrivate |-> allowPrivate,
   roas |-> roas]

Short == {roa(<<1, 0>>, 1, 0)}
Validators ==
  {validator(FALSE, FALSE, FALSE, {}),
   validator(TRUE, TRUE, FALSE, {roa(<<1>>, 1, 4), roa(<<1, 0>>, 2, 0)}),
   validator(TRUE, TRUE, FALSE, Short),
   validator(TRUE, FALSE, FALSE, Short \cup {roa(<<1, 0>>, 2, 3)}),
   validator(TRUE, TRUE, TRUE, Short),
   validator(TRUE, FALSE, FALSE, {})}

AllConfigs == {c \in [failClosed : BOOLEAN, requireSign : BOOLEAN, signer : BOOLEAN,
                      rov : Validators] : newSucceeds(c.rov)}
=============================================================================
