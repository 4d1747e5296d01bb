-------------------------- MODULE MCMediaPipeline --------------------------
(* MediaPipeline on a small instance: a photo and a film, and two posts    *)
(* that may want both.                                                     *)
EXTENDS MediaPipeline

CONSTANTS photo, film, p1, p2
=============================================================================
