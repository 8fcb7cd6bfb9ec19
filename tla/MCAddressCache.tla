--------------------------- MODULE MCAddressCache ---------------------------
(***************************************************************************)
(* Instances of AddressCache for TLC: two connections share the cache of   *)
(* an IPv4 upstream whose name moves from one address to another, and may  *)
(* lose all that are of its family.                                        *)
(***************************************************************************)
EXTENDS AddressCache

CONSTANTS c1, c2, a4, b4, a6

MovingZones == {{a4, a6}, {b4}, {a6}}
=============================================================================
