------------------------------ MODULE MCLibrary ------------------------------
(* The functions without state of their own for TLC: any of them is called     *)
(* once.                                                                       *)
EXTENDS Strings, Printing, Loader, Layout, Boundaries, Applications

MCTexts == {<<>>, <<"a">>, <<"a","b">>, <<"a","newline","b">>, <<"newline","a","b">>}
MCPlaces == {-4, -1, 0, 2, 6}
MCParts == {-1, 0, 1, 100, 128, 255, 256, 257}
MCModLists == UNION {[1 .. n -> {0, 1, 2}] : n \in 0 .. 4}
MCModes ==
    {[w |-> 402, h |-> 168, pitch |-> 1608], [w |-> 640, h |-> 480, pitch |-> 2560],
     [w |-> 801, h |-> 601, pitch |-> 3328]}

MCTypings ==
    UNION {[1 .. n -> {"x", "e", "c", " ", "backspace", "newline"}] : n \in 0 .. 4}
      \cup {a \o <<"newline">> : a \in [1 .. 4 -> {"x", "e", " ", "backspace"}]}
      \cup {a \o b \o <<"newline">> : a \in [1 .. 4 -> {"e", " "}], b \in [1 .. 3 -> {"x", " "}]}
      \cup {[i \in 1 .. n |-> "x"] : n \in 5 .. 12}

MCKeyLists ==
    {a \o b : a \in UNION {[1 .. n -> {"0", "7", "+", "-", "*", "/", "=", "C"}] : n \in 0 .. 4},
              b \in {<<>>, <<"7", "=">>, <<"=", "+", "7", "=">>}}

LibraryNext ==
    /\ call = NoCall
    /\ \/ PicturesNext \/ StringsNext \/ PrintingNext
       \/ LoaderNext \/ MachineNext \/ ApplicationsNext

LibrarySpec == InvocationInit /\ [][LibraryNext]_invocationVars

\* What libc.c does with strings: bytes end up where the C standard has them, but
\* for the end of a string behind strcpy() and the pointer strtok() goes on from,
\* and numbers are printed as one reads them, as far as they fit the int that
\* prints them; the programs do with what is typed what a user of a calculator, of
\* notes and of a shell expects.
TextExact == StringsExact /\ PrintsExact /\ ApplicationsExact

=============================================================================
