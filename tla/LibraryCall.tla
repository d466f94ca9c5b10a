----------------------------- MODULE LibraryCall -----------------------------
(***************************************************************************)
(* A function of a library that keeps no state is called, with arguments   *)
(* from a set, and returns; what it promises is said of the call.          *)
(***************************************************************************)
VARIABLE call  \* the name of the function and its arguments, or <<>>

Idle == call = <<>>
Calling(name, args) == Idle /\ call' \in {<<name, a>> : a \in args}
Return == ~Idle /\ call' = <<>>

Called(name) == ~Idle /\ call[1] = name
=============================================================================
