----------------------------- MODULE MCHoldStore -----------------------------
(* Two seats, two users: three sessions compete for the front seat, two of   *)
(* them minted for the same user, who also wants the back seat.              *)
EXTENDS HoldStore, TLC

CONSTANTS s1, s2, s3, front, back, ann, bob

MCSeatOf == (s1 :> front @@ s2 :> front @@ s3 :> back)
MCUserOf == (s1 :> ann @@ s2 :> bob @@ s3 :> ann)

=============================================================================
