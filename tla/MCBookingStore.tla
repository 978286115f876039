---------------------------- MODULE MCBookingStore ----------------------------
(* Three confirm calls; two sessions after the same seat and one after        *)
(* another: replays of one session, races for a seat, and bystanders.         *)
EXTENDS Adapters, TLC

CONSTANTS s1, s2, s3, front, back, ann, bob

MCSeatOf == (s1 :> front @@ s2 :> front @@ s3 :> back)
MCUserOf == (s1 :> ann @@ s2 :> bob @@ s3 :> ann)

=============================================================================
