------------------------------ MODULE MCCheckout ------------------------------
(* Two buyers after one seat: each may hold it, pay for it and confirm it.    *)
EXTENDS Checkout, TLC

CONSTANTS s1, s2, front, ann, bob

MCSeatOf == [s \in Sessions |-> front]
MCUserOf == (s1 :> ann @@ s2 :> bob)

\* The buyers, each with the session minted for it, differ in nothing but name.
BuyersSwapped == s1 :> s2 @@ s2 :> s1 @@ ann :> bob @@ bob :> ann

CheckoutSymmetry ==
    {BuyersSwapped} \union Permutations(Intents) \union Permutations(Calls)

=============================================================================
