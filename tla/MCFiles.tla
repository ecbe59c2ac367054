------------------------------ MODULE MCFiles ------------------------------
(* A ramdisk of four files for TLC, two of one name. *)
EXTENDS Files, TLC

MCFileName == << "txt", "pts", "txt", "hi" >>
MCFileLength == << 2, 0, 1, 1 >>
MCPath == {"dev", "initrd", "txt", "pts"}
MCImage == {0, 2}
MCReadSize == {0, 1, 3}
MCDirRoom == {0, 2}
ProgramSymmetry == Permutations(Program)

=============================================================================
