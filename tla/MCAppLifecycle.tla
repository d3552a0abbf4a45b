--------------------------- MODULE MCAppLifecycle ---------------------------
(***************************************************************************)
(* Instances of AppLifecycle for TLC.                                      *)
(***************************************************************************)
EXTENDS AppLifecycle, TLC

\* Resolving the second singleton constructs the first; resolving the first, the last.
NeedsEarlier == [s \in 1 .. N |-> IF s = 2 THEN {1, 2} ELSE {s}]
NeedsLater == [s \in 1 .. N |-> IF s = 1 THEN {1, N} ELSE {s}]
=============================================================================
