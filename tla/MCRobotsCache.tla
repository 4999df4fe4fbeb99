--------------------------- MODULE MCRobotsCache ---------------------------
(* Instances of RobotsCache for TLC: three pages, two of one host, and two *)
(* files.                                                                  *)
EXTENDS RobotsCache

CONSTANTS a1, a2, b1, A, B, strict, slow

ThreePages == {a1, a2, b1}
TwoHosts == {A, B}
HostOfPage == [p \in ThreePages |-> IF p = b1 THEN B ELSE A]
TwoFiles == {strict, slow}
FileDelays == [f \in TwoFiles |-> IF f = slow THEN {1, 2} ELSE {}]
FileRefuses == [f \in TwoFiles |-> IF f = strict THEN ThreePages ELSE {a2}]
(* a1 redirects to the page of the other host.                             *)
ToOtherHost == [p \in ThreePages |-> IF p = a1 THEN {b1} ELSE {}]
=============================================================================
