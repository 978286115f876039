--------------------------- MODULE MCBookingService ---------------------------
(* Two sessions of two users, minted for the same seat: holds that follow one *)
(* another, confirms that race, confirms of one session sent twice, and a     *)
(* client that renders the seat map again and again meanwhile.                *)
EXTENDS SeatMap, TLC

CONSTANTS s1, s2, front, ann, bob

MCSeatOf == [s \in Sessions |-> front]
MCUserOf == [s \in Sessions |-> IF s = s2 THEN bob ELSE ann]

\* The calls differ in nothing but their names.
CallSymmetry == Permutations(Calls)

=============================================================================
