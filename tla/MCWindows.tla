----------------------------- MODULE MCWindows -----------------------------
(* Small instances of Windows for TLC. *)
EXTENDS Windows, TLC

\* Canvases are interchangeable: nothing orders them.
CanvasSymmetry == Permutations(Canvas)

=============================================================================
