--------------------------- MODULE SnapshotStream ---------------------------
(***************************************************************************)
(* What "stream grab" promises (capture.h:237-243, sigproc.h:33-46): while *)
(* the stream goes on completing halves, the taker gets the two halves     *)
(* completed last - at most three completions after it asked - and keeps   *)
(* exactly those two until it lets go of them.                             *)
(***************************************************************************)
EXTENDS Integers, Sequences

CONSTANT W         \* halves are numbered modulo W

VARIABLES
  booked,   \* number of the half completed last
  phase,    \* "idle", "asked", "held"
  asked,    \* booked when the taker asked
  pair,     \* the two halves held
  sent      \* those of them handed out so far

vars == <<booked, phase, asked, pair, sent>>

Init ==
  /\ booked = 0 /\ phase = "idle" /\ asked = 0 /\ pair = <<>> /\ sent = <<>>

Next1 == (booked + 1) % W

Complete == booked' = Next1 /\ UNCHANGED <<phase, asked, pair, sent>>

AskFor ==
  /\ phase = "idle" /\ phase' = "asked"
  /\ asked' = booked
  /\ UNCHANGED <<booked, pair, sent>>

(* The pair's second half completes: the pair is the taker's. *)
Take ==
  /\ phase = "asked" /\ phase' = "held"
  /\ booked' = Next1
  /\ (booked' - asked) % W \in {2, 3}
  /\ pair' = <<booked, booked'>>
  /\ UNCHANGED <<asked, sent>>

HandOut ==
  /\ phase = "held" /\ Len(sent) < 2
  /\ sent' = Append(sent, pair[Len(sent) + 1])
  /\ UNCHANGED <<booked, phase, asked, pair>>

(* Let go - also before both are handed out, or without having got any. *)
Release ==
  /\ phase # "idle" /\ phase' = "idle"
  /\ asked' = 0 /\ pair' = <<>> /\ sent' = <<>>
  /\ UNCHANGED booked

Next == Complete \/ AskFor \/ Take \/ HandOut \/ Release

Spec == Init /\ [][Next]_vars
=============================================================================
