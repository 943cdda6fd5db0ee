--------------------------- MODULE MCRaceService ---------------------------
(***************************************************************************)
(* Instances of RaceService for TLC.  Together: the race pages and the     *)
(* telemetry threads in one process with one user, the assumption of the   *)
(* documents.  Apart: the race pages in a Streamlit process of their own,  *)
(* as README.md deploys them.                                              *)
(***************************************************************************)
EXTENDS RaceService, TLC

CONSTANTS u1, u2, main, ui, c1, c2, t1, t2

Together     == {main}
Apart        == {main, ui}
HomeTogether == u1 :> main
HomeApart    == u1 :> ui
HomeApart2   == u1 :> ui @@ u2 :> ui

OneCar    == {c1}
TwoCars   == {c1, c2}
OneTime    == {t1}
NoTime     == {}
TwoTimes   == {t1, t2}

\* Cars and time stamps are only compared, and the users of one process are
\* alike, so their names may be exchanged.
Symmetry == Permutations(Car) \cup Permutations(CuTime) \cup Permutations(User)
=============================================================================
