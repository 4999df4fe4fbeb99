----------------------------- MODULE MCFetcher -----------------------------
(* Instances of Fetcher for TLC: three URLs of two hosts and one without.  *)
EXTENDS Fetcher

CONSTANTS u1, u2, u3, mailto, A, B

HostOfUrl == [u \in {u1, u2, u3} |-> IF u = u3 THEN B ELSE A]
=============================================================================
