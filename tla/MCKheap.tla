------------------------------ MODULE MCKheap ------------------------------
(* A heap over two pages of 26 units: a header takes 4, an arena header 2. *)
EXTENDS Kheap, TLC

MCPage == 1 .. 2
MCRequest == {1, 7, 22}

=============================================================================
