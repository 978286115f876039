----------------------------- MODULE RefreshPort -----------------------------
(***************************************************************************)
(* What a refresh-token ledger promises: the RefreshTokenStore interface   *)
(* of internal/application/auth/ports.go.  "Rotate must behave as one      *)
(* indivisible read-decide-write": a live token is exchanged for a new one *)
(* of its family in one step, a token that is not live is not exchanged,   *)
(* and a revocation ends whatever is live in the family.  Expiry is the    *)
(* caller's concern here: it ends no token's life, and lets a call refuse. *)
(***************************************************************************)
EXTENDS Naturals

CONSTANT Tokens

VARIABLES
    issued,      \* rows: [token, family], a family named by its first token
    live         \* tokens neither replaced nor revoked

refreshVars == <<issued, live>>

Fresh(t) == \A k \in issued : k.token # t

RefreshInit ==
    /\ issued = {}
    /\ live = {}

\* Create: the first token of a new family.
Issue(t) ==
    /\ Fresh(t)
    /\ issued' = issued \union {[token |-> t, family |-> t]}
    /\ live' = live \union {t}

\* Rotate, of an active token.
Exchange(k, next) ==
    /\ k.token \in live
    /\ Fresh(next)
    /\ issued' = issued \union {[token |-> next, family |-> k.family]}
    /\ live' = (live \ {k.token}) \union {next}

\* RevokeFamily, and Rotate of a token that was used before.
Revoke(f) ==
    /\ live' = {t \in live : \A k \in issued : k.token = t => k.family # f}
    /\ UNCHANGED issued

RefreshNext ==
    \/ \E t \in Tokens : Issue(t)
    \/ \E k \in issued, t \in Tokens : Exchange(k, t)
    \/ \E k \in issued : Revoke(k.family)

RefreshSpec == RefreshInit /\ [][RefreshNext]_refreshVars

-----------------------------------------------------------------------------
\* What a caller may conclude from the port alone: a family is one chain, of
\* which at most the last token can be exchanged.
FamilyIsOneSession ==
    \A j, k \in issued :
        j.token \in live /\ k.token \in live /\ j.family = k.family => j = k

=============================================================================
