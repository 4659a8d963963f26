------------------------- MODULE MCServiceDiscovery -------------------------
(* Two gRPC connections to one service that changes once, and one instance  *)
(* (i3) without a usable endpoint.                                          *)
EXTENDS ServiceDiscovery

CONSTANTS w1, w2, i1, i2, i3

MCResolvers == {w1, w2}
MCInstances == {i1, i2, i3}
MCUsable    == {i1, i2}
MCLists     == {{}, {i1}, {i3}, {i2, i3}}
=============================================================================
