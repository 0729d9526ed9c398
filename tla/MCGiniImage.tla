---------------------------- MODULE MCGiniImage -----------------------------
(* Bounds for GiniImage: two images, whose files are two levels apart. *)
EXTENDS GiniImage, TLC
CONSTANTS d1, d2, A, B
MCDecoders == {d1, d2}
MCImages == {A, B}
MCNear == <<"east", "image">>
MCFar == <<"east", "4km", "ir", "image">>
MCPaths == {MCNear, MCFar}
MCStanding == {}
MCFailing == {d1}
MCFileOf == (A :> MCFar) @@ (B :> MCNear)
MCProgOf == (A :> "png") @@ (B :> "zlib")
=============================================================================
