-------------------------- MODULE OriginValidation --------------------------
(***************************************************************************)
(* Route origin validation (anycast/rov) beside its definition in RFC      *)
(* 6811. A prefix is the sequence of its bits, of one address family; its  *)
(* network address has zeros after them.                                   *)
(***************************************************************************)
EXTENDS Naturals, Sequences

CONSTANTS AddressBits,     \* the length of an address
          PrivateASNs,     \* RFC 6996
          PrivateBlocks    \* RFC 1918, 5737: the blocks isDocumentationOrPrivate knows

Prefix == Seq({0, 1})
ROA == [prefix : Prefix, asn : Nat, maxLength : Nat]
Validator == [enabled : BOOLEAN, requireValid : BOOLEAN, allowPrivate : BOOLEAN,
              roas : SUBSET ROA]

\* net.IPNet.Contains, for the network address of p.
Contains(block, p) ==
  \A i \in 1..Len(block) : block[i] = IF i <= Len(p) THEN p[i] ELSE 0

isDocumentationOrPrivate(p, asn) ==
  asn \in PrivateASNs \/ \E b \in PrivateBlocks : Contains(b, p)

\* compileROAs: max_length defaults to the length of the prefix ...
maxLength(roa) == IF roa.maxLength = 0 THEN Len(roa.prefix) ELSE roa.maxLength

\* ... and a ROA that makes no sense is an error.
compiles(roa) ==
  roa.asn # 0 /\ Len(roa.prefix) <= maxLength(roa) /\ maxLength(roa) <= AddressBits

\* New returns a Validator, not an error.
newSucceeds(v) ==
  v.enabled => /\ \A roa \in v.roas : compiles(roa)
               /\ v.roas = {} => v.allowPrivate \/ ~v.requireValid

\* Not subject to validation at all.
exempt(v, p, asn) ==
  \/ ~v.enabled
  \/ v.roas = {} /\ ~v.requireValid
  \/ v.allowPrivate /\ isDocumentationOrPrivate(p, asn)

MutantConsidered(v, p) ==       \* max_length is not compared
  {roa \in v.roas : Contains(roa.prefix, p) /\ Len(roa.prefix) <= Len(p)}

\* The ROAs that the loop of ValidateOrigin does not pass over.
considered(v, p) ==
  {roa \in v.roas : /\ Contains(roa.prefix, p)
                    /\ Len(roa.prefix) <= Len(p) /\ Len(p) <= maxLength(roa)}

ValidateOrigin(v, p, asn) ==
  IF exempt(v, p, asn) \/ (\E roa \in considered(v, p) : roa.asn = asn) THEN "valid"
  ELSE IF considered(v, p) # {} THEN "invalid" ELSE "not_found"

\* Validator.AllowAnnounce
AllowAnnounce(v, p, asn) ==
  \/ ValidateOrigin(v, p, asn) = "valid"
  \/ ValidateOrigin(v, p, asn) = "not_found" /\ ~v.requireValid

-----------------------------------------------------------------------------
\* RFC 6811, section 2: a ROA covers a route when its prefix is a prefix of the
\* route's, and matches it when, besides, the route is not longer than max_length
\* and has the same origin. Covered and unmatched is invalid.
Covers(roa, p) ==
  /\ Len(roa.prefix) <= Len(p)
  /\ \A i \in 1..Len(roa.prefix) : roa.prefix[i] = p[i]

Matches(roa, p, asn) == Covers(roa, p) /\ Len(p) <= maxLength(roa) /\ roa.asn = asn

RFC6811(roas, p, asn) ==
  IF \E roa \in roas : Matches(roa, p, asn) THEN "valid"
  ELSE IF \E roa \in roas : Covers(roa, p) THEN "invalid" ELSE "not_found"
=============================================================================
