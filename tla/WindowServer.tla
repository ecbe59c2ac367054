---------------------------- MODULE WindowServer ----------------------------
(***************************************************************************)
(* What the compositor promises an application, which knows its window by  *)
(* its canvas: a window it opens gets a canvas no other open window has    *)
(* and an empty inbox; events are appended and received from the front, so *)
(* none is lost once in the inbox, repeated or reordered; closing a window *)
(* disturbs no other.                                                      *)
(***************************************************************************)
EXTENDS Integers, Sequences

CONSTANT Canvas     \* the memory blocks a canvas may be

VARIABLE inbox      \* the undelivered events of each open window, by canvas

Open == DOMAIN inbox

Init == inbox = [c \in {} |-> << >>]

OpenWindow(c) ==
    /\ c \in Canvas \ Open
    /\ inbox' = [b \in Open \cup {c} |-> IF b = c THEN << >> ELSE inbox[b]]

Receive(c) ==
    /\ c \in Open /\ inbox[c] # << >>
    /\ inbox' = [inbox EXCEPT ![c] = Tail(@)]

\* s is the beginning of t.
Begins(s, t) == Len(s) <= Len(t) /\ \A i \in 1 .. Len(s) : s[i] = t[i]

\* A frame of the compositor: windows close, the others get events.
Frame ==
    /\ DOMAIN inbox' \subseteq Open
    /\ \A c \in DOMAIN inbox' : Begins(inbox[c], inbox'[c])

Next == Frame \/ \E c \in Canvas : OpenWindow(c) \/ Receive(c)

Spec == Init /\ [][Next]_inbox

=============================================================================
