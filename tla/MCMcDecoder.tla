---------------------------- MODULE MCMcDecoder -----------------------------
(* Bounds for McDecoder: one name that begins another, a table of two. *)
EXTENDS McDecoder
CONSTANTS MDXX1, MDXX10, SCHEMA
MCBegins == {<<n, n>> : n \in {MDXX1, MDXX10, SCHEMA}} \cup {<<MDXX1, MDXX10>>}
MCNames == {MDXX1, MDXX10, SCHEMA}
MCDataBytes == {6, 240}
MCDataAt(i) == {IF i % 2 = 0 THEN 6 ELSE 240}
MCSentKinds == {HEADER_PKT, TRAILER_PKT, DATA_PKT}
MCNoiseUnits == {6, 51, 768}
=============================================================================
