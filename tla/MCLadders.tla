----------------------------- MODULE MCLadders ------------------------------
(***************************************************************************)
(* The smaller harnesses, for TLC.                                         *)
(***************************************************************************)
EXTENDS LaddersTimely, LaddersAuth, LaddersSeal, LaddersLink, LaddersHub,
        LaddersBound, LaddersMesh

AllHarnesses == AuthHarnesses @@ SealHarnesses @@ LinkHarnesses
    @@ HubHarnesses @@ BoundHarnesses @@ MeshHarnesses
=============================================================================
