--------------------------- MODULE MCListingWrites ---------------------------
(***************************************************************************)
(* Instances of ListingWrites for TLC.                                     *)
(***************************************************************************)
EXTENDS ListingWrites, TLC

Nights(i, o) == [checkIn |-> i, checkOut |-> o]
TwoNights == {Nights(0, 1), Nights(0, 2)}
TouchingNights == {Nights(0, 1), Nights(1, 2), Nights(0, 2)}

Symmetric == Permutations(Worker) \cup Permutations(BlockId) \cup Permutations(Host)
=============================================================================
