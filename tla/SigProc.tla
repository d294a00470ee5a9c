------------------------------ MODULE SigProc ------------------------------
(***************************************************************************)
(* The signal processing of the stream: sigproc.c (a filter, a Goertzel),  *)
(* app/impact.c hooked into it (the impact counter), and the part of       *)
(* capture.c that hands it the completed halves.  The console changes the  *)
(* settings between two blocks, streams come and go, halves are missed.    *)
(*                                                                         *)
(* A block is the squared magnitude the counter's resonator has at its end *)
(* (one evaluation per block, the amplitude of the Goertzel too); a        *)
(* filter's state is the block it was left at.                             *)
(***************************************************************************)
EXTENDS Integers, Sequences

CONSTANTS
  Filters,      \* the filters besides "off"
  Levels,       \* magnitudes
  Thresholds,   \* the counter's thresholds, squared
  MaxBlocks,    \* bound: halves that complete
  MaxTyped      \* bound: commands typed

ASSUME SigProcAssumption ==
  /\ "off" \notin Filters /\ Levels \cup Thresholds \subseteq Nat
  /\ 0 \in Levels /\ Thresholds # {} /\ {MaxBlocks, MaxTyped} \subseteq Nat

VARIABLES
  filter, restart, st,   \* sigproc.c: the filter, its state
  gz_on, gz_thr, gz,     \* the Goertzel
  cn,                    \* impact.c: the counter
  sigproc_on, sp_fresh, sp_last_seq, missed, seq, stream,      \* capture.c
  typed,                 \* commands typed
  filtered, resonated,   \* history: the state filter and counter went on from
  heard                  \* history: the magnitudes since the counter's reset

sigprocVars == <<filter, restart, st, gz_on, gz_thr, gz, cn, sigproc_on, sp_fresh,
                 sp_last_seq, missed, seq, stream, typed,
                 filtered, resonated, heard>>
hooks  == <<filter, restart, st, gz_on, gz_thr, gz>>

Never   == <<"never", 0, 0>>
Settled == <<"settled", 0, 0>>
Unused  == <<"unused", 0, 0>>

----------------------------------------------------------------------------
(* impact.c.  m * 49 > 100 * n: n has fallen below 0.7^2 of m.             *)
Below(n, m) == 49 * m > 100 * n

\* cnt_setup(): the resonator starts from rest, on the configured threshold.
cnt_setup(c) ==
  IF c.fs THEN [c EXCEPT !.dirty = FALSE, !.ready = TRUE, !.thr2 = c.thr, !.q = 0]
          ELSE [c EXCEPT !.dirty = FALSE, !.ready = FALSE]

\* MUTANT: the counter comes out of a reset armed.
ResetArmed(c, info) ==
  [c EXCEPT !.reset = FALSE, !.count = 0, !.missed0 = info.missed, !.armed = TRUE, !.pk = 0]

\* What rings right now is not an impact of the new count.
cnt_reset(c, info) ==
  [c EXCEPT !.reset = FALSE, !.count = 0, !.missed0 = info.missed, !.armed = FALSE,
            !.pk = IF c.ready THEN c.q ELSE 0]

cnt_evaluate(c, m) ==
  LET tr == IF m < c.tr THEN m ELSE c.tr
      pk == IF m > c.pk THEN m ELSE c.pk
      d  == [c EXCEPT !.q = m]
  IN  IF c.armed
      THEN IF m > c.thr2 /\ Below(tr, m)
           THEN [d EXCEPT !.count = @ + 1, !.armed = FALSE, !.pk = m, !.tr = tr]
           ELSE [d EXCEPT !.tr = tr]
      ELSE IF Below(m, pk) \/ 4 * m < c.thr2
           THEN [d EXCEPT !.armed = TRUE, !.tr = m, !.pk = pk]
           ELSE [d EXCEPT !.pk = pk]

Configured(c, info) ==
  LET s == IF c.dirty THEN cnt_setup(c) ELSE c
  IN  IF s.reset THEN cnt_reset(s, info) ELSE s

cnt_block(m, info) ==
  LET c == Configured(cn, info)
      r == IF cn.dirty \/ info.gap THEN [c EXCEPT !.q = 0, !.at = Settled] ELSE c
      e == [cnt_evaluate(r, m) EXCEPT !.missed = info.missed - c.missed0,
                                      !.at = <<"cnt", stream, info.seq>>]
      start == [m |-> IF c.ready THEN c.q ELSE 0, thr |-> c.thr2, counted |-> TRUE]
      entry == [m |-> m, thr |-> c.thr2, counted |-> e.count > c.count]
  IN  /\ cn' = IF c.ready THEN e ELSE c
      /\ resonated' = IF c.ready THEN r.at ELSE Unused
      /\ heard' = (IF cn.reset THEN <<start>> ELSE heard) \o (IF c.ready THEN <<entry>> ELSE <<>>)

----------------------------------------------------------------------------
(* sigproc.c.                                                              *)
goertzel(m) ==
  gz' = IF gz_on
        THEN [detected |-> m >= gz_thr, valid |-> TRUE]
        ELSE gz

sigproc_app_block(m, info) ==
  IF cn.on THEN cnt_block(m, info) ELSE resonated' = Unused /\ UNCHANGED <<cn, heard>>

\* The state the block before left, or settled on this one's first sample.
filter_block(info) ==
  IF filter = "off" THEN filtered' = Unused /\ UNCHANGED <<restart, st>>
  ELSE /\ filtered' = IF info.gap \/ restart THEN Settled ELSE st
       /\ restart' = FALSE
       /\ st' = <<filter, stream, info.seq>>

sigproc_block(m, info) ==
  goertzel(m) /\ sigproc_app_block(m, info) /\ filter_block(info)

----------------------------------------------------------------------------
(* capture.c: service_once() after a half, or some, have completed.        *)
Gap(s) == sp_fresh \/ s # sp_last_seq + 1

ServiceBlock ==
  \E k \in 1..2, m \in Levels :
    /\ seq + k <= MaxBlocks                                          \* bound
    /\ seq' = seq + k /\ missed' = missed + k - 1
    /\ IF sigproc_on
       THEN /\ sigproc_block(m, [seq |-> seq', missed |-> missed', gap |-> Gap(seq')])
            /\ sp_last_seq' = seq' /\ sp_fresh' = FALSE
       ELSE /\ filtered' = Unused /\ resonated' = Unused
            /\ UNCHANGED <<restart, st, gz, cn, heard, sp_last_seq, sp_fresh>>
    /\ UNCHANGED <<filter, gz_on, gz_thr, sigproc_on, stream, typed>>

\* A stream starts: the counters are cleared - the halves' number is not -
\* and the counter is told the rate: the first or another one sets it up anew.
NewStream ==
  /\ seq + 1 < MaxBlocks /\ stream < 2                               \* bound
  /\ stream' = stream + 1 /\ sp_fresh' = TRUE /\ missed' = 0
  /\ \E other \in BOOLEAN : cn' = [cn EXCEPT !.fs = TRUE, !.dirty = @ \/ ~cn.fs \/ other]
  /\ UNCHANGED <<hooks, sigproc_on, sp_last_seq, seq, typed, filtered, resonated, heard>>

----------------------------------------------------------------------------
(* "sigproc ...": the setting, then capture_sigproc_enable() with what is  *)
(* active now.                                                             *)
capture_sigproc_enable(on) ==
  /\ sp_fresh' = (sp_fresh \/ (on /\ ~sigproc_on))
  /\ sigproc_on' = on

Typed ==
  /\ typed < MaxTyped /\ typed' = typed + 1                          \* bound
  /\ capture_sigproc_enable(filter' # "off" \/ gz_on' \/ cn'.on)
  /\ UNCHANGED <<st, sp_last_seq, missed, seq, stream, filtered, resonated, heard>>

\* MUTANT: only a filter switched on from "off" starts afresh.
RestartFromOff(f) == restart' = (restart \/ filter = "off") /\ filter' = f

sigproc_set_filter(f) == restart' = (restart \/ f # filter) /\ filter' = f
SetFilter ==
  \E f \in Filters \cup {"off"} :
    sigproc_set_filter(f) /\ UNCHANGED <<gz_on, gz_thr, gz, cn>> /\ Typed

SetGoertzel ==
  \E on \in BOOLEAN :
    /\ gz' = [gz EXCEPT !.valid = @ /\ ~(on /\ ~gz_on)] /\ gz_on' = on
    /\ UNCHANGED <<filter, restart, gz_thr, cn>> /\ Typed

SetThreshold ==
  \E t \in Levels \ {0} : gz_thr' = t /\ UNCHANGED <<filter, restart, gz_on, gz, cn>> /\ Typed

SetCounter ==
  /\ \/ \E on \in BOOLEAN :
          LET first == on /\ ~cn.on
          IN  cn' = [cn EXCEPT !.on = on, !.dirty = @ \/ first, !.reset = @ \/ first]
     \/ cn' = [cn EXCEPT !.reset = TRUE]
     \/ \E t \in Thresholds : cn' = [cn EXCEPT !.thr = t, !.dirty = TRUE]
  /\ UNCHANGED <<filter, restart, gz_on, gz_thr, gz>> /\ Typed

SigProcInit ==
  /\ filter = "off" /\ restart = TRUE /\ st = Never
  /\ gz_on = FALSE /\ gz_thr = 100
  /\ gz = [detected |-> FALSE, valid |-> FALSE]
  /\ cn = [on |-> FALSE, dirty |-> FALSE, reset |-> FALSE, fs |-> FALSE, ready |-> FALSE,
           thr |-> CHOOSE t \in Thresholds : TRUE, thr2 |-> 0, q |-> 0, at |-> Never,
           armed |-> TRUE, pk |-> 0, tr |-> 0, count |-> 0, missed0 |-> 0, missed |-> 0]
  /\ sigproc_on = FALSE /\ sp_fresh = TRUE /\ sp_last_seq = 0 /\ missed = 0 /\ seq = 0
  /\ stream = 0 /\ typed = 0 /\ filtered = Unused /\ resonated = Unused /\ heard = <<>>

SigProcNext == ServiceBlock \/ NewStream \/ SetFilter \/ SetGoertzel \/ SetThreshold \/ SetCounter
SigProcSpec == SigProcInit /\ [][SigProcNext]_sigprocVars

----------------------------------------------------------------------------
\* A filter, and the counter's resonator, go on from the state they left at
\* the end of the block directly before, of the same stream, left there by
\* the same filter - or start afresh: never across halves that were missed,
\* another stream, a time they were off or another filter's state
\* (sigproc.c, settle(); impact.c, the gap).
Follows(state, kind) == state \in {Unused, Settled, <<kind, stream, seq - 1>>}
FilterContinues ==
  [][seq' # seq => Follows(filtered, filter)' /\ Follows(resonated, "cnt")']_sigprocVars

\* Since its reset the counter has counted exactly the magnitudes above the
\* threshold that rose to it, by 1/0.7, after the one counted before - or
\* what rang at the reset - had fallen to 0.7 of its peak or below half of
\* the threshold (impact.c, the head comment's rule).
Fell(i, k) ==
  \/ \E p \in i..k : Below(heard[k].m, heard[p].m)
  \/ 4 * heard[k].m < heard[k].thr
Impact(i, j) ==
  /\ heard[j].m > heard[j].thr
  /\ \E k \in (i + 1)..(j - 1) : Fell(i, k) /\ \E l \in k..(j - 1) : Below(heard[l].m, heard[j].m)
ImpactsExact ==
  \A j \in 2..Len(heard) :
    LET i == CHOOSE p \in 1..(j - 1) : heard[p].counted /\ \A o \in (p + 1)..(j - 1) : ~heard[o].counted
    IN  heard[j].counted <=> Impact(i, j)
=============================================================================
