---------------------------- MODULE MCScan2Drive ----------------------------
(***************************************************************************)
(* Small instances of Scan2Drive for TLC.  The .cfg files choose the       *)
(* scans, their pages and the bounds; scans, goroutines and ingesters are  *)
(* model values.                                                           *)
(***************************************************************************)
EXTENDS Scan2Drive, TLC

CONSTANTS s1, s2, u1, u2, i1, i2

\* How many pages the scans have.
MCAllPages == [s \in Scan |-> MaxPages]
MCTwoAndOne == [s \in Scan |-> IF s = s1 THEN 2 ELSE 1]

\* Which pages are blank, or cannot be decoded.
MCNoPage == {}
MCFirstPage == {<<s1, 1>>}
MCSecondScan == {<<s2, 1>>}

\* The goroutines that upload originals are interchangeable.
MCSymmetry == Permutations(Upload)
=============================================================================
