---------------------------- MODULE MCMediaCache ----------------------------
(* TLC instances of MediaCache. *)
EXTENDS MediaCache, TLC

\* Two small photos and one of three chunks.
Thumbs == <<1, 1, 3>>

\* Photos of one and two chunks.
TwoThumbs == <<1, 2>>

\* Requests are interchangeable.
ThreadSymmetry == Permutations(Threads)
=============================================================================
