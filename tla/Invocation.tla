------------------------------ MODULE Invocation ------------------------------
(***************************************************************************)
(* One call of a function without state of its own: with what it was       *)
(* called and what it answered or did.  The modules about such functions   *)
(* have one action per function, and their properties relate the two.      *)
(***************************************************************************)

VARIABLES call, answer

invocationVars == <<call, answer>>

NoCall == [fn |-> "none"]

InvocationInit == call = NoCall /\ answer = NoCall

Invoked(c, a) == call = NoCall /\ call' = c /\ answer' = a

Called(fn) == call.fn = fn

=============================================================================
