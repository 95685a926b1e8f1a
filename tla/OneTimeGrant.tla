---------------------------- MODULE OneTimeGrant ----------------------------
(***************************************************************************)
(* What a store of one-time credentials promises, with none of its         *)
(* machinery: a grant is opened once, and closes once, either because one  *)
(* request redeemed it or because it was withdrawn.  A closed grant never  *)
(* changes again, so no grant is redeemed by two requests.                 *)
(*                                                                         *)
(* The authorization codes (TokenEndpoint) and the links for resets and    *)
(* verifications (MailedLinks) are shown to implement it.                  *)
(***************************************************************************)

CONSTANTS Grants,     \* the codes, or the links
          Redeemers,  \* the requests that present them
          Nobody      \* "redeemed by nobody"

VARIABLES phase,      \* phase[g]: "unissued", "open" or "closed"
          redeemer    \* redeemer[g]: the request that redeemed g, or Nobody

vars == <<phase, redeemer>>

Init == /\ phase = [g \in Grants |-> "unissued"]
        /\ redeemer = [g \in Grants |-> Nobody]

Open(g) == /\ phase[g] = "unissued"
           /\ phase' = [phase EXCEPT ![g] = "open"]
           /\ UNCHANGED redeemer

Redeem(g, r) == /\ phase[g] = "open"
                /\ phase' = [phase EXCEPT ![g] = "closed"]
                /\ redeemer' = [redeemer EXCEPT ![g] = r]

\* One statement withdraws every open grant of an account.
Withdraw(S) == /\ \A g \in S : phase[g] = "open"
               /\ phase' = [g \in Grants |-> IF g \in S THEN "closed" ELSE phase[g]]
               /\ UNCHANGED redeemer

Next == \/ \E g \in Grants : Open(g) \/ \E r \in Redeemers : Redeem(g, r)
        \/ \E S \in SUBSET Grants : Withdraw(S)

Spec == Init /\ [][Next]_vars
=============================================================================
