----------------------------- MODULE MCUpdates -----------------------------
(***************************************************************************)
(* Instances of Updates for TLC.  The account starts at pts 1; an update   *)
(* stands for one pts or for two.                                          *)
(***************************************************************************)
EXTENDS Updates, TLC

ThreeEvents   == {2, 4, 5}
ThreeCounts   == 2 :> 1 @@ 4 :> 2 @@ 5 :> 1
ThreeNumbered == {4, 5}

TwoEvents   == {2, 4}
TwoCounts   == 2 :> 1 @@ 4 :> 2
TwoNumbered == {4}

FetcherSymmetry == Permutations(Fetchers)

=============================================================================
