--------------------------- MODULE PairStreamInv ----------------------------
(***************************************************************************)
(* The inductive invariant behind PairStill, NoFalseTimeout and            *)
(* GrabIsSnapshot, for a DMA interrupt that runs within a half period and  *)
(* a stream that keeps its nominal rate.  Checked with TLC in the run      *)
(* "grab", proved inductive in PairStream_proofs.                          *)
(***************************************************************************)
EXTENDS PairStream

(* What the types rest on: the brake bounds overrun_run, and a reading of  *)
(* blocks_done, a slot to send, a frame to add to exist where needed.      *)
NeedInv ==
  /\ armed => overrun_run < OverrunLimit
  /\ \A x \in Ctx : svc[x].pc = "book" => svc[x].num \in Half
  /\ cpc = "last" => pair_frozen # NoSlot
  /\ Sending => win # NoSlot
  /\ cpc = "send" => Len(frame) < 2
  /\ ~Sending => frame = <<>>

TypeInv == TypeOK /\ NeedInv

Loop == {"check", "wait", "time"}        \* the loop of capture_pair_freeze()

(* At most one half awaits its booking, and it is the other channel's. *)
BookingInv ==
  armed => \/ stat = {}
           \/ stat = {0} /\ chan = 1 /\ irq # {}
           \/ stat = {1} /\ chan = 0 /\ irq # {}

(* Where the channels are directed: both into the pair, or, between the    *)
(* two steps of a move, channel 0 ahead into the other one.                *)
TargetInv ==
  armed => /\ dst[1] = pair_base + 1
           /\ dst[0] = IF pair_moving THEN Other(pair_base) ELSE pair_base
           /\ pair_moving => \/ chan = 1 /\ stat = {}
                             \/ chan = 0 /\ stat = {1}

(* What the pair in use holds. *)
ContentInv ==
  armed => /\ hwseq \in Half /\ stamp[dst[chan]] = hwseq
           /\ chan = 1 => /\ stamp[pair_base] # Torn
                          /\ hwseq = Plus(stamp[pair_base], 1)
           /\ pair_moving /\ stat = {1} => Whole(pair_base)

(* A grab that has its pair: the stream is in the other one, and nothing   *)
(* asks for a further move.                                                *)
Held == cpc = "last" \/ Sending \/ (cpc \in Loop /\ pair_frozen # NoSlot)

HeldInv ==
  /\ Held => /\ pair_frozen \in {0, 2} /\ pair_frozen # pair_base
             /\ dst[0] = pair_base /\ dst[1] = pair_base + 1
             /\ ~pair_req /\ ~pair_moving
             /\ Whole(pair_frozen)
  /\ Sending => win = pair_frozen
  /\ cpc = "ask" => pair_frozen = NoSlot

(* A grab that waits for its pair: where the stream is in its cycle says   *)
(* how many halves have completed since it asked, at most three.           *)
WaitInv ==
  /\ armed /\ cpc \notin Loop => ~pair_req /\ ~pair_moving
  /\ armed /\ cpc \in Loop /\ pair_frozen = NoSlot =>
       /\ pair_req
       /\ IF pair_moving THEN elapsed <= (IF chan = 1 THEN 2 ELSE 3)
          ELSE IF chan = 0 THEN elapsed <= 1
          ELSE elapsed <= (IF stat = {} THEN 0 ELSE 2)

(* The channels are armed only while the trigger runs, up to "stream off". *)
TriggerInv ==
  armed => trig \/ cpc \in {"off_run", "off_mode", "off_dma"}

(* A stream that says it runs has its channels armed. *)
LiveInv ==
  /\ run_enabled => armed
  /\ cpc \in {"off_mode", "off_dma"} => ~run_enabled

(* How far the count of the halves booked is behind the half in flight,    *)
(* which two are in the pair that is about to be the grab's, and how many  *)
(* a waiting grab has seen booked since it asked.                          *)
CountInv ==
  /\ armed => hwseq = Plus(blocks_done, IF stat = {} THEN 1 ELSE 2)
  /\ armed /\ pair_moving /\ stat = {1} => hwseq = Plus(stamp[pair_base + 1], 1)
  /\ armed /\ cpc \in Loop /\ pair_frozen = NoSlot =>
       Minus(blocks_done, asked) \in
         IF pair_moving THEN {1, 2}
         ELSE IF chan = 0 <=> stat = {} THEN {0, 1} ELSE {0}

(* The inductive invariant: where the channels are directed, what the pairs *)
(* hold and how far a waiting grab is (dma0_event(), capture.c:501-534).   *)
IInv == TypeInv /\ BookingInv /\ TargetInv /\ ContentInv /\ HeldInv /\ WaitInv
        /\ TriggerInv /\ LiveInv /\ CountInv
=============================================================================
