---------------------------- MODULE OneUseAuthority ----------------------------
(***************************************************************************)
(* What every one-shot grant of the broker promises, whatever database,    *)
(* thread or message carries it: an authority is issued once, it is spent  *)
(* by one party or voided but never both, and that party alone may cause   *)
(* the effect, once, after it spent the authority.                         *)
(***************************************************************************)
EXTENDS Naturals

CONSTANTS Grants, Parties

VARIABLES
  stage,      \* the life of each grant, seen from outside
  spenders,   \* who was told that it has spent the grant
  uses        \* how often the provider saw the approved request

authority == <<stage, spenders, uses>>

Stages == {"new", "live", "spent", "used", "void"}

Init ==
  /\ stage = [g \in Grants |-> "new"]
  /\ spenders = [g \in Grants |-> {}]
  /\ uses = [g \in Grants |-> 0]

Move(g, from, to) ==
  /\ stage[g] = from
  /\ stage' = [stage EXCEPT ![g] = to]

\* Issuing one grant also clears away others that expired unspent.
Issue(g, expired) ==
  /\ stage[g] = "new"
  /\ \A h \in expired : stage[h] = "live"
  /\ stage' = [h \in Grants |-> CASE h = g         -> "live"
                                  [] h \in expired -> "void"
                                  [] OTHER         -> stage[h]]
  /\ UNCHANGED <<spenders, uses>>

\* The durable point of no return; nothing has happened outside yet.  A second
\* party cannot spend what is no longer live.
Spend(g, p) ==
  /\ Move(g, "live", "spent")
  /\ spenders' = [spenders EXCEPT ![g] = @ \cup {p}]
  /\ UNCHANGED uses

\* The one effect: the credential leaves with the approved request.
Use(g, p) ==
  /\ p \in spenders[g]
  /\ Move(g, "spent", "used")
  /\ uses' = [uses EXCEPT ![g] = @ + 1]
  /\ UNCHANGED spenders

\* Revoked or expired before anyone spent it.
Void(g) == Move(g, "live", "void") /\ UNCHANGED <<spenders, uses>>

Next ==
  \E g \in Grants :
    \/ \E expired \in SUBSET (Grants \ {g}) : Issue(g, expired)
    \/ \E p \in Parties : Spend(g, p) \/ Use(g, p)
    \/ Void(g)

Spec == Init /\ [][Next]_authority

================================================================================
