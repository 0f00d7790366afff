----------------------------- MODULE MCPictures -----------------------------
(* Pictures with two snapshotters that may overlap.                        *)
EXTENDS Pictures
=============================================================================
