--------------------------- MODULE MCLanternWidget ---------------------------
(* Instances of LanternWidget for TLC. *)
EXTENDS LanternWidget

CONSTANTS t1, t2

MCTypes == {t1, t2}

\* Both sides of every boundary of InitWidget and VerticalTextSet.
MCLengths == {0, 1, 8, 9, 16, 17, 24, 25, 31, 32, 33}
=============================================================================
