------------------------------- MODULE Calls -------------------------------
(***************************************************************************)
(* Straight-line C as data: a function is the sequence of the calls it     *)
(* makes, and `todo' holds what is left of the running command.  An action *)
(* takes the call at its head; a call that can fail names the sequence its *)
(* caller falls back on, and how much of the rest the failure skips.       *)
(***************************************************************************)
EXTENDS Naturals, Sequences

CONSTANT MaxSlips  \* bound: the calls of one command that fail

VARIABLES
  todo,   \* the calls the running command still has to make
  slips   \* how many of its calls have failed

\* A call is a tuple: what it does, its argument, skip, else.
OrElse(f, x, skip, els) == <<f, x, skip, els>>
Call(f, x)      == OrElse(f, x, 0, <<>>)
Do(f)           == Call(f, 0)
Note(f, x, els) == OrElse(f, x, 0, els)            \* noted, and on with the rest
Everything      == 100
Try(f, x, els)  == OrElse(f, x, Everything, els)   \* the rest is given up

Rest   == todo = <<>>                      \* no command is running
Now(f) == todo # <<>> /\ Head(todo)[1] = f
Arg    == Head(todo)[2]
Leave(p)   == todo' = p /\ UNCHANGED slips       \* the command goes on with p alone
Done       == Leave(Tail(todo))
Instead(p) == Leave(p \o Tail(todo))            \* the call is itself these calls
Failed     ==
  /\ slips < MaxSlips /\ slips' = slips + 1
  /\ todo' = Head(todo)[4]
             \o (IF Head(todo)[3] = Everything THEN <<>>
                 ELSE SubSeq(todo, 2 + Head(todo)[3], Len(todo)))
Begin(p)   == Rest /\ todo' = p /\ slips' = 0
=============================================================================
