----------------------------- MODULE MCGateway -----------------------------
(***************************************************************************)
(* Gateway for requests of two addresses, four of them from one.           *)
(***************************************************************************)
EXTENDS Gateway

Addresses == <<"a", "b", "a", "a", "a">>

FewAddresses == <<"a", "b", "b">>
=============================================================================
