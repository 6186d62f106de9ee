---------------------------- MODULE MCDelegatedFlow ----------------------------
(* Finite instances of DelegatedFlow for TLC: the proofs clients may present. *)
EXTENDS DelegatedFlow, TLC

CONSTANTS r1, r2

Proof(kind, id, iat, exp, about, says) ==
  [kind |-> kind, id |-> id, iat |-> iat, exp |-> exp, about |-> about, says |-> says]

\* Two requests of one client, sharing the replay table; the second request
\* statement and client assertion are optional, so statements may be repeated.
PairProofs == {
  Proof("request", 1, 0, 3, None, None),
  Proof("request", 2, 0, 2, None, None),
  Proof("approval", 1, 0, 2, r1, "approve"),
  Proof("approval", 2, 0, 3, r1, "deny"),
  Proof("approval", 1, 0, 3, r2, "approve"),
  Proof("client-auth", 1, 0, 3, None, None),
  Proof("client-auth", 2, 0, 2, None, None),
  Proof("dpop", 1, 0, 0, r1, "token"),
  Proof("dpop", 1, 2, 0, r2, "token"),
  Proof("dpop", 2, 1, 0, r1, "execute"),
  Proof("dpop", 3, 1, 0, r1, "execute"),
  Proof("review", 1, 0, 2, r1, None),
  Proof("result", 1, 1, 3, r1, None)}

================================================================================
