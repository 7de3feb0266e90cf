----------------------------- MODULE MCMediaPatch -----------------------------
(* A pattern of three bytes for TLC: like the real one it has no border.        *)
EXTENDS MediaPatch

MCPattern == <<1, 2, 3>>
===============================================================================
