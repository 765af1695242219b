---------------------------- MODULE MCAssetScan -----------------------------
(* Two monitors and one asset, for TLC. *)
EXTENDS AssetScan
=============================================================================
