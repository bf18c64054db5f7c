----------------------------- MODULE MCOpening -----------------------------
(* Every kind of resource, three endpoints, three attempts with a delay that *)
(* doubles and then meets its bound, and two owned connections that are     *)
(* lost.                                                                   *)
EXTENDS Opening

MCKinds == AllKinds
=============================================================================
