----------------------------- MODULE MCDesktop -----------------------------
(* Small instances of Desktop for TLC: notes.c, calc.c, hello.c and a text. *)
EXTENDS Desktop

MCApp == {"notes", "calc", "hello", "txt"}
MCProgram == [notes |-> "yielding", calc |-> "hogging", hello |-> "finishing",
              txt |-> "no image"]

=============================================================================
