--------------------------- MODULE Console_proofs ---------------------------
(***************************************************************************)
(* The console's two directions, which share no state.                     *)
(*                                                                         *)
(* Receive: that the parser is given the bytes in the order they arrived,  *)
(* each once, and that no command starts inside capture_service(): proved  *)
(* for any depth of the FIFO and of the hold-back buffer and any number of *)
(* bytes.                                                                  *)
(*                                                                         *)
(* Transmit, for rings and FIFOs of every size: no byte is left without an *)
(* interrupt to come for it, a measurement is quiet, a command's reply     *)
(* loses nothing - after any failure, too - and, unless a trap strikes,    *)
(* every byte leaves in the order it was written.                          *)
(***************************************************************************)
EXTENDS UartTx, ConsoleRx, TLAPS

ByteTypes ==
  /\ arrived \in Nat /\ parsed \in Nat /\ byte \in Nat /\ fed \in Nat
  /\ held \in Seq(Nat) /\ rx_fifo \in Seq(Nat)
  /\ busy \in BOOLEAN /\ rxie \in BOOLEAN /\ passed \subseteq Nat

(* The loop that hands on runs with the interrupt masked, and only it has  *)
(* an index other than 0.                                                  *)
MaskedAt == {"feed", "command", "clear", "restore"}
FeedInv ==
  /\ fed <= Len(held)
  /\ mpc \notin {"feed", "command", "clear"} => fed = 0
  /\ mpc = "clear" => fed = Len(held)
  /\ mpc \in MaskedAt => ~rxie /\ rx_isr = "idle"
  /\ byte # NoByte <=> rx_isr = "hook"

(* capture_service() runs with busy set, and no command then.              *)
ServiceInv == mpc = "served" => busy /\ rx_isr # "command"

(* Held back, taken, in the FIFO: each group in order, and in this order.  *)
ToFeed  == (fed + 1) .. Len(held)
InFifo  == 1 .. Len(rx_fifo)
ArrivalInv ==
  /\ parsed <= arrived
  /\ \A n \in passed : n <= arrived
  /\ \A i \in ToFeed : parsed < held[i] /\ held[i] <= arrived
  /\ \A i, j \in ToFeed : i < j => held[i] < held[j]
  /\ byte # NoByte => /\ parsed < byte /\ byte <= arrived
                      /\ \A i \in ToFeed : held[i] < byte
  /\ \A k \in InFifo : /\ parsed < rx_fifo[k] /\ byte < rx_fifo[k] /\ rx_fifo[k] <= arrived
                       /\ \A i \in ToFeed : held[i] < rx_fifo[k]
  /\ \A k, l \in InFifo : k < l => rx_fifo[k] < rx_fifo[l]

(* A byte is on its way to the parser exactly if it came after the last    *)
(* one parsed and was not dropped.                                         *)
ToCome(n) == \/ \E i \in ToFeed : held[i] = n
             \/ byte # NoByte /\ byte = n
             \/ \E k \in InFifo : rx_fifo[k] = n
SetInv == \A n \in Nat : ToCome(n) <=> parsed < n /\ n <= arrived /\ n \notin passed

RxInv == ByteTypes /\ FeedInv /\ ServiceInv /\ ArrivalInv /\ SetInv

(* Before the first byte every place is empty.                             *)
LEMMA RxInitial == RxInit => RxInv
<1> SUFFICES ASSUME RxInit PROVE RxInv
  OBVIOUS
<1>1. /\ arrived = 0 /\ parsed = 0 /\ byte = NoByte /\ NoByte = 0 /\ fed = 0 /\ passed = {}
      /\ held = <<>> /\ rx_fifo = <<>> /\ mpc = "serve" /\ rx_isr = "idle"
      /\ busy = FALSE /\ rxie = TRUE
  BY DEF RxInit, NoByte
<1>2. ByteTypes
  <2>1. held \in Seq(Nat) /\ rx_fifo \in Seq(Nat)
    BY <1>1
  <2>2. arrived \in Nat /\ parsed \in Nat /\ byte \in Nat /\ fed \in Nat /\ passed \subseteq Nat
    BY <1>1
  <2>3. busy \in BOOLEAN /\ rxie \in BOOLEAN
    BY <1>1
  <2> QED
    BY <2>1, <2>2, <2>3 DEF ByteTypes
<1>3. FeedInv /\ ServiceInv
  BY <1>1 DEF FeedInv, MaskedAt, ServiceInv
<1>4. ToFeed = {} /\ InFifo = {}
  BY <1>1 DEF ToFeed, InFifo
<1>5. ArrivalInv
  BY <1>1, <1>4 DEF ArrivalInv
<1>6. SetInv
  BY <1>1, <1>4 DEF SetInv, ToCome
<1> QED
  BY <1>2, <1>3, <1>5, <1>6 DEF RxInv

(* Steps that leave the bytes where they are.                              *)
LEMMA RxSame ==
  ASSUME RxInv, UNCHANGED <<arrived, rx_fifo, held, byte, fed, parsed, passed>>,
         busy' \in BOOLEAN, rxie' \in BOOLEAN, FeedInv', ServiceInv'
  PROVE  RxInv'
<1>1. ByteTypes'
  BY DEF RxInv, ByteTypes
<1>2. ArrivalInv' /\ SetInv'
  BY DEF RxInv, ArrivalInv, SetInv, ToCome, ToFeed, InFifo
<1> QED
  BY <1>1, <1>2 DEF RxInv

(* A byte arrives: at the end of the FIFO, or it is lost.                  *)
LEMMA RxArrive == ASSUME RxInv, Arrive PROVE RxInv'
<1>1. /\ arrived' = arrived + 1
      /\ \/ rx_fifo' = Append(rx_fifo, arrived') /\ passed' = passed
         \/ rx_fifo' = rx_fifo /\ passed' = passed \cup {arrived'}
      /\ UNCHANGED <<rxie, held, busy, rx_isr, byte, mpc, fed, parsed>>
  BY DEF Arrive
<1>2. /\ arrived \in Nat /\ parsed \in Nat /\ byte \in Nat /\ fed \in Nat
      /\ held \in Seq(Nat) /\ rx_fifo \in Seq(Nat) /\ Len(rx_fifo) \in Nat /\ Len(held) \in Nat
      /\ \A i \in ToFeed : held[i] \in Nat
      /\ \A k \in InFifo : rx_fifo[k] \in Nat
  BY DEF RxInv, ByteTypes, ToFeed, InFifo
<1>3. ByteTypes' /\ FeedInv' /\ ServiceInv'
  <2>1. ByteTypes'
    <3>1. arrived' \in Nat /\ rx_fifo' \in Seq(Nat)
      <4>1. arrived' \in Nat
        BY <1>1, <1>2
      <4>2. Append(rx_fifo, arrived') \in Seq(Nat)
        BY <1>2, <4>1
      <4> QED
        BY <1>1, <1>2, <4>1, <4>2
    <3>2. passed' \subseteq Nat
      BY <1>1, <3>1 DEF RxInv, ByteTypes
    <3> QED
      BY <1>1, <3>1, <3>2 DEF RxInv, ByteTypes
  <2>2. FeedInv' /\ ServiceInv'
    BY <1>1 DEF RxInv, FeedInv, ServiceInv
  <2> QED
    BY <2>1, <2>2
<1>4. CASE rx_fifo' = Append(rx_fifo, arrived') /\ passed' = passed
  <2>1. /\ InFifo' = InFifo \cup {Len(rx_fifo) + 1} /\ ToFeed' = ToFeed
        /\ \A k \in InFifo : rx_fifo'[k] = rx_fifo[k]
        /\ rx_fifo'[Len(rx_fifo) + 1] = arrived + 1
        /\ \A k \in InFifo : k < Len(rx_fifo) + 1
    <3>1. rx_fifo' = Append(rx_fifo, arrived + 1) /\ arrived + 1 \in Nat
      BY <1>1, <1>2, <1>4
    <3>2. Len(rx_fifo') = Len(rx_fifo) + 1 /\ rx_fifo'[Len(rx_fifo) + 1] = arrived + 1
          /\ \A k \in 1 .. Len(rx_fifo) : rx_fifo'[k] = rx_fifo[k]
      BY <1>2, <3>1
    <3> QED
      BY <1>1, <1>2, <3>2 DEF InFifo, ToFeed
  <2>2. ArrivalInv'
    <3>1. ArrivalInv
      BY DEF RxInv
    <3>2. /\ parsed' <= arrived' /\ \A n \in passed' : n <= arrived'
          /\ \A i \in ToFeed' : parsed' < held'[i] /\ held'[i] <= arrived'
          /\ \A i, j \in ToFeed' : i < j => held'[i] < held'[j]
      BY <1>1, <1>2, <1>4, <2>1, <3>1 DEF ArrivalInv, RxInv, ByteTypes
    <3>3. byte' # NoByte => /\ parsed' < byte' /\ byte' <= arrived'
                            /\ \A i \in ToFeed' : held'[i] < byte'
      BY <1>1, <1>2, <2>1, <3>1 DEF ArrivalInv
    <3>4. ASSUME NEW k \in InFifo'
          PROVE  /\ parsed' < rx_fifo'[k] /\ byte' < rx_fifo'[k] /\ rx_fifo'[k] <= arrived'
                 /\ \A i \in ToFeed' : held'[i] < rx_fifo'[k]
      <4>1. CASE k \in InFifo
        BY <1>1, <1>2, <2>1, <3>1, <4>1 DEF ArrivalInv
      <4>2. CASE k = Len(rx_fifo) + 1
        BY <1>1, <1>2, <2>1, <3>1, <4>2 DEF ArrivalInv, NoByte
      <4> QED
        BY <2>1, <4>1, <4>2
    <3>5. ASSUME NEW k \in InFifo', NEW l \in InFifo', k < l PROVE rx_fifo'[k] < rx_fifo'[l]
      <4>1. k \in InFifo
        BY <1>2, <2>1, <3>5, SMTT(30) DEF InFifo
      <4>2. CASE l \in InFifo
        BY <2>1, <3>1, <3>5, <4>1, <4>2 DEF ArrivalInv
      <4>3. CASE l = Len(rx_fifo) + 1
        BY <1>2, <2>1, <3>1, <4>1, <4>3 DEF ArrivalInv
      <4> QED
        BY <2>1, <4>2, <4>3
    <3> QED
      BY <3>2, <3>3, <3>4, <3>5 DEF ArrivalInv
  <2>3. SetInv'
    <3> SUFFICES ASSUME NEW n \in Nat
                 PROVE  ToCome(n)' <=> parsed' < n /\ n <= arrived' /\ n \notin passed'
      BY DEF SetInv
    <3>1. ToCome(n)' <=> ToCome(n) \/ n = arrived + 1
      BY <1>1, <2>1 DEF ToCome
    <3>2. ToCome(n) <=> parsed < n /\ n <= arrived /\ n \notin passed
      BY DEF RxInv, SetInv
    <3>3. arrived + 1 \notin passed
      BY <1>2 DEF RxInv, ArrivalInv, ByteTypes
    <3> QED
      BY <1>1, <1>2, <1>4, <3>1, <3>2, <3>3 DEF RxInv, ArrivalInv
  <2> QED
    BY <1>3, <2>2, <2>3 DEF RxInv
<1>5. CASE rx_fifo' = rx_fifo /\ passed' = passed \cup {arrived'}
  <2>1. ArrivalInv'
    <3>1. ArrivalInv /\ ToFeed' = ToFeed /\ InFifo' = InFifo /\ passed \subseteq Nat
      BY <1>1, <1>5 DEF RxInv, ByteTypes, ToFeed, InFifo
    <3>2. /\ parsed' <= arrived' /\ \A n \in passed' : n <= arrived'
          /\ \A i \in ToFeed' : parsed' < held'[i] /\ held'[i] <= arrived'
          /\ \A i, j \in ToFeed' : i < j => held'[i] < held'[j]
      BY <1>1, <1>2, <1>5, <3>1 DEF ArrivalInv
    <3>3. byte' # NoByte => /\ parsed' < byte' /\ byte' <= arrived'
                            /\ \A i \in ToFeed' : held'[i] < byte'
      BY <1>1, <1>2, <3>1 DEF ArrivalInv
    <3>4. /\ \A k \in InFifo' : /\ parsed' < rx_fifo'[k] /\ byte' < rx_fifo'[k]
                                 /\ rx_fifo'[k] <= arrived'
                                 /\ \A i \in ToFeed' : held'[i] < rx_fifo'[k]
          /\ \A k, l \in InFifo' : k < l => rx_fifo'[k] < rx_fifo'[l]
      BY <1>1, <1>2, <1>5, <3>1 DEF ArrivalInv
    <3> QED
      BY <3>2, <3>3, <3>4 DEF ArrivalInv
  <2>2. SetInv'
    BY <1>1, <1>2, <1>5 DEF RxInv, ArrivalInv, SetInv, ToCome, ToFeed, InFifo
  <2> QED
    BY <1>3, <2>1, <2>2 DEF RxInv
<1> QED
  BY <1>1, <1>4, <1>5

(* What is left of the FIFO when its first byte is taken.                  *)
LEMMA FifoTail ==
  ASSUME RxInv, rx_fifo # <<>>, rx_fifo' = Tail(rx_fifo)
  PROVE  /\ rx_fifo' \in Seq(Nat) /\ Head(rx_fifo) = rx_fifo[1] /\ 1 \in InFifo
         /\ \A k \in InFifo' : k + 1 \in InFifo /\ k \in Nat /\ k >= 1 /\ rx_fifo'[k] = rx_fifo[k + 1]
         /\ \A k \in InFifo : k = 1 \/ (k - 1 \in InFifo' /\ rx_fifo'[k - 1] = rx_fifo[k])
         /\ \A k \in InFifo : rx_fifo[k] \in Nat
<1>1. rx_fifo \in Seq(Nat) /\ Len(rx_fifo) \in Nat /\ Len(rx_fifo) >= 1
  BY DEF RxInv, ByteTypes
<1>2. /\ rx_fifo' \in Seq(Nat) /\ Len(rx_fifo') = Len(rx_fifo) - 1
      /\ \A k \in 1 .. (Len(rx_fifo) - 1) : rx_fifo'[k] = rx_fifo[k + 1]
  BY <1>1
<1> QED
  BY <1>1, <1>2 DEF InFifo

(* The interrupt takes the FIFO's first byte.                              *)
LEMMA RxTake == ASSUME RxInv, IsrTake PROVE RxInv'
<1>1. CASE rx_fifo = <<>>
  <2>1. /\ rx_isr = "loop" /\ rx_isr' = "idle"
        /\ UNCHANGED <<arrived, rx_fifo, held, byte, fed, parsed, passed, busy, rxie, mpc>>
    BY <1>1 DEF IsrTake
  <2>2. FeedInv' /\ ServiceInv'
    BY <2>1 DEF RxInv, FeedInv, ServiceInv
  <2> QED
    BY <2>1, <2>2, RxSame DEF RxInv, ByteTypes
<1>2. CASE rx_fifo # <<>>
  <2>1. /\ rx_isr = "loop" /\ rx_isr' = "hook"
        /\ byte' = Head(rx_fifo) /\ rx_fifo' = Tail(rx_fifo)
        /\ UNCHANGED <<arrived, held, fed, parsed, passed, busy, rxie, mpc>>
    BY <1>2 DEF IsrTake
  <2>2. /\ rx_fifo' \in Seq(Nat) /\ Head(rx_fifo) = rx_fifo[1] /\ 1 \in InFifo
        /\ \A k \in InFifo' : k + 1 \in InFifo /\ k \in Nat /\ k >= 1 /\ rx_fifo'[k] = rx_fifo[k + 1]
        /\ \A k \in InFifo : k = 1 \/ (k - 1 \in InFifo' /\ rx_fifo'[k - 1] = rx_fifo[k])
        /\ \A k \in InFifo : rx_fifo[k] \in Nat
    BY <1>2, <2>1, FifoTail
  <2>3. /\ ArrivalInv /\ byte = NoByte /\ ToFeed' = ToFeed /\ byte' = rx_fifo[1] /\ byte' \in Nat
        /\ parsed \in Nat /\ parsed < byte' /\ NoByte = 0
    BY <2>1, <2>2 DEF RxInv, FeedInv, ToFeed, ArrivalInv, ByteTypes, NoByte
  <2>4. ByteTypes' /\ FeedInv' /\ ServiceInv'
    BY <2>1, <2>2, <2>3 DEF RxInv, ByteTypes, FeedInv, ServiceInv, MaskedAt
  <2>5. ArrivalInv'
    <3>1. /\ parsed' <= arrived' /\ \A n \in passed' : n <= arrived'
          /\ \A i \in ToFeed' : parsed' < held'[i] /\ held'[i] <= arrived'
          /\ \A i, j \in ToFeed' : i < j => held'[i] < held'[j]
          /\ parsed' < byte' /\ byte' <= arrived'
          /\ \A i \in ToFeed' : held'[i] < byte'
      BY <2>1, <2>2, <2>3 DEF ArrivalInv
    <3>2. ASSUME NEW k \in InFifo'
          PROVE  /\ parsed' < rx_fifo'[k] /\ byte' < rx_fifo'[k] /\ rx_fifo'[k] <= arrived'
                 /\ \A i \in ToFeed' : held'[i] < rx_fifo'[k]
      <4>1. k + 1 \in InFifo /\ 1 < k + 1 /\ rx_fifo'[k] = rx_fifo[k + 1]
        BY <2>2
      <4> QED
        BY <2>1, <2>2, <2>3, <4>1 DEF ArrivalInv
    <3>3. ASSUME NEW k \in InFifo', NEW l \in InFifo', k < l PROVE rx_fifo'[k] < rx_fifo'[l]
      <4>1. k + 1 \in InFifo /\ l + 1 \in InFifo /\ k + 1 < l + 1
        BY <2>2, <3>3
      <4> QED
        BY <2>2, <2>3, <4>1 DEF ArrivalInv
    <3> QED
      BY <3>1, <3>2, <3>3 DEF ArrivalInv
  <2>6. SetInv'
    <3> SUFFICES ASSUME NEW n \in Nat PROVE ToCome(n)' <=> ToCome(n)
      BY <2>1 DEF RxInv, SetInv
    <3>1. byte' # NoByte
      BY <2>3
    <3>2. (\E k \in InFifo : rx_fifo[k] = n) <=> byte' = n \/ \E k \in InFifo' : rx_fifo'[k] = n
      BY <2>2, <2>3, SMTT(30)
    <3> QED
      BY <2>1, <2>3, <3>1, <3>2 DEF ToCome
  <2> QED
    BY <2>4, <2>5, <2>6 DEF RxInv
<1> QED
  BY <1>1, <1>2

(* uart_rx_hook() holds a byte back, or drops it.                          *)
LEMMA RxHold == ASSUME RxInv, HookHold PROVE RxInv'
<1>1. /\ rx_isr = "hook" /\ rx_isr' = "loop" /\ byte' = NoByte /\ byte # NoByte
      /\ UNCHANGED <<arrived, rx_fifo, rxie, busy, mpc, fed, parsed>>
      /\ \/ held' = Append(held, byte) /\ passed' = passed
         \/ held' = held /\ passed' = passed \cup {byte}
  BY DEF HookHold, uartVars, RxInv, FeedInv
<1>2. /\ ArrivalInv /\ fed = 0 /\ mpc \notin MaskedAt /\ InFifo' = InFifo
      /\ held \in Seq(Nat) /\ Len(held) \in Nat /\ byte \in Nat /\ NoByte = 0
      /\ \A i \in ToFeed : held[i] \in Nat
      /\ \A k \in InFifo : rx_fifo[k] \in Nat
      /\ ToFeed = 1 .. Len(held) /\ passed \subseteq Nat /\ arrived \in Nat /\ parsed \in Nat
  BY <1>1 DEF RxInv, FeedInv, MaskedAt, InFifo, ToFeed, ByteTypes, NoByte
<1>3. CASE held' = Append(held, byte) /\ passed' = passed
  <2>1. /\ held' \in Seq(Nat) /\ Len(held') = Len(held) + 1 /\ held'[Len(held) + 1] = byte
        /\ \A i \in 1 .. Len(held) : held'[i] = held[i]
    BY <1>2, <1>3
  <2>2. /\ ToFeed' = ToFeed \cup {Len(held) + 1}
        /\ \A i \in ToFeed : i < Len(held) + 1 /\ held'[i] = held[i]
    BY <1>1, <1>2, <2>1 DEF ToFeed
  <2>3. ByteTypes'
    BY <1>1, <1>2, <1>3, <2>1 DEF RxInv, ByteTypes
  <2>4. FeedInv' /\ ServiceInv'
    BY <1>1, <1>2, <2>1 DEF RxInv, FeedInv, ServiceInv, MaskedAt
  <2>5. ArrivalInv'
    <3>1. /\ parsed' <= arrived' /\ \A n \in passed' : n <= arrived'
          /\ \A i \in ToFeed' : parsed' < held'[i] /\ held'[i] <= arrived'
      BY <1>1, <1>2, <1>3, <2>1, <2>2 DEF ArrivalInv
    <3>2. ASSUME NEW i \in ToFeed', NEW j \in ToFeed', i < j PROVE held'[i] < held'[j]
      <4>1. i \in ToFeed
        BY <1>2, <2>2, <3>2
      <4>2. CASE j \in ToFeed
        BY <2>2, <1>2, <3>2, <4>1, <4>2 DEF ArrivalInv
      <4>3. CASE j = Len(held) + 1
        BY <1>1, <2>1, <2>2, <1>2, <4>1, <4>3 DEF ArrivalInv
      <4> QED
        BY <2>2, <4>2, <4>3
    <3>3. ASSUME NEW k \in InFifo'
          PROVE  /\ parsed' < rx_fifo'[k] /\ byte' < rx_fifo'[k] /\ rx_fifo'[k] <= arrived'
                 /\ \A i \in ToFeed' : held'[i] < rx_fifo'[k]
      BY <1>1, <1>2, <2>1, <2>2 DEF ArrivalInv
    <3>4. \A k, l \in InFifo' : k < l => rx_fifo'[k] < rx_fifo'[l]
      BY <1>1, <1>2 DEF ArrivalInv
    <3> QED
      BY <1>1, <3>1, <3>2, <3>3, <3>4 DEF ArrivalInv
  <2>6. SetInv'
    <3> SUFFICES ASSUME NEW n \in Nat PROVE ToCome(n)' <=> ToCome(n)
      BY <1>1, <1>3 DEF RxInv, SetInv
    <3>1. (\E i \in ToFeed' : held'[i] = n) <=> byte = n \/ \E i \in ToFeed : held[i] = n
      BY <2>1, <2>2
    <3> QED
      BY <1>1, <1>2, <3>1 DEF ToCome
  <2> QED
    BY <2>3, <2>4, <2>5, <2>6 DEF RxInv
<1>4. CASE held' = held /\ passed' = passed \cup {byte}
  <2>1. ByteTypes' /\ FeedInv' /\ ServiceInv' /\ ToFeed' = ToFeed
    BY <1>1, <1>2, <1>4 DEF RxInv, ByteTypes, FeedInv, ServiceInv, MaskedAt, ToFeed
  <2>2. ArrivalInv'
    BY <1>1, <1>2, <1>4, <2>1 DEF ArrivalInv
  <2>3. SetInv'
    <3> SUFFICES ASSUME NEW n \in Nat
                 PROVE  ToCome(n)' <=> parsed < n /\ n <= arrived /\ n \notin passed /\ n # byte
      BY <1>1, <1>4 DEF SetInv
    <3>1. ToCome(n) <=> parsed < n /\ n <= arrived /\ n \notin passed
      BY DEF RxInv, SetInv
    <3>2. ToCome(n)' <=> ToCome(n) /\ n # byte
      BY <1>1, <1>2, <1>4, <2>1 DEF ToCome, ArrivalInv
    <3> QED
      BY <3>1, <3>2
  <2> QED
    BY <2>1, <2>2, <2>3 DEF RxInv
<1> QED
  BY <1>1, <1>3, <1>4

(* uart_rx_hook() hands a byte on: nothing is held back before it.         *)
LEMMA RxParse == ASSUME RxInv, HookParse PROVE RxInv'
<1>1. /\ rx_isr = "hook" /\ rx_isr' \in {"loop", "command"} /\ ~busy /\ held = <<>>
      /\ parsed' = byte /\ byte' = NoByte /\ byte # NoByte
      /\ UNCHANGED <<arrived, rx_fifo, rxie, held, busy, mpc, fed, passed>>
  BY DEF HookParse, Holds, uartVars, RxInv, FeedInv
<1>2. /\ ArrivalInv /\ fed = 0 /\ mpc \notin MaskedAt /\ InFifo' = InFifo /\ NoByte = 0
      /\ byte \in Nat /\ \A k \in InFifo : rx_fifo[k] \in Nat
      /\ arrived \in Nat /\ parsed \in Nat
  BY <1>1 DEF RxInv, FeedInv, MaskedAt, InFifo, ByteTypes, NoByte
<1>3. ToFeed = {} /\ ToFeed' = {}
  BY <1>1, <1>2 DEF ToFeed
<1>4. ByteTypes' /\ FeedInv' /\ ServiceInv'
  BY <1>1, <1>2 DEF RxInv, ByteTypes, FeedInv, ServiceInv, MaskedAt
<1>5. ArrivalInv'
  BY <1>1, <1>2, <1>3 DEF ArrivalInv
<1>6. SetInv'
  <2> SUFFICES ASSUME NEW n \in Nat
               PROVE  ToCome(n)' <=> byte < n /\ n <= arrived /\ n \notin passed
    BY <1>1 DEF SetInv
  <2>1. ToCome(n) <=> parsed < n /\ n <= arrived /\ n \notin passed
    BY DEF RxInv, SetInv
  <2>2. ToCome(n)' <=> ToCome(n) /\ n # byte
    BY <1>1, <1>2, <1>3 DEF ToCome, ArrivalInv
  <2>3. ToCome(n) => byte <= n
    BY <1>1, <1>2, <1>3 DEF ToCome, ArrivalInv
  <2>4. parsed < byte
    BY <1>1, <1>2 DEF ArrivalInv
  <2> QED
    BY <1>2, <2>1, <2>2, <2>3, <2>4
<1> QED
  BY <1>4, <1>5, <1>6 DEF RxInv

(* What a command does: console_yield() drops the FIFO's first byte.       *)
LEMMA RxCommand == ASSUME RxInv, IsrCommand \/ MainCommand PROVE RxInv'
<1>1. /\ CommandStep
      /\ rx_isr = "command" \/ mpc = "command"
      /\ UNCHANGED <<arrived, rxie, held, rx_isr, byte, mpc, fed, parsed>>
  BY DEF IsrCommand, MainCommand, Reached
<1>2. byte = NoByte /\ NoByte = 0
  BY <1>1 DEF RxInv, FeedInv, MaskedAt, NoByte
<1>3. mpc # "served" /\ busy' \in BOOLEAN
  BY <1>1 DEF RxInv, ServiceInv, CommandStep, ByteTypes
<1>4. FeedInv' /\ ServiceInv'
  BY <1>1, <1>3 DEF RxInv, FeedInv, ServiceInv
<1>5. CASE UNCHANGED <<rx_fifo, passed>>
  BY <1>1, <1>3, <1>4, <1>5, RxSame DEF RxInv, ByteTypes
<1>6. CASE /\ rx_fifo # <<>> /\ rx_fifo' = Tail(rx_fifo)
           /\ passed' = passed \cup {Head(rx_fifo)} /\ busy' = busy
  <2>1. /\ rx_fifo' \in Seq(Nat) /\ Head(rx_fifo) = rx_fifo[1] /\ 1 \in InFifo
        /\ \A k \in InFifo' : k + 1 \in InFifo /\ k \in Nat /\ k >= 1 /\ rx_fifo'[k] = rx_fifo[k + 1]
        /\ \A k \in InFifo : k = 1 \/ (k - 1 \in InFifo' /\ rx_fifo'[k - 1] = rx_fifo[k])
        /\ \A k \in InFifo : rx_fifo[k] \in Nat
    BY <1>6, FifoTail
  <2>2. /\ ArrivalInv /\ ToFeed' = ToFeed /\ rx_fifo[1] \in Nat /\ passed \subseteq Nat
        /\ passed' = passed \cup {rx_fifo[1]} /\ rx_fifo[1] <= arrived
    BY <1>1, <1>6, <2>1 DEF RxInv, ToFeed, ByteTypes, ArrivalInv
  <2>3. ByteTypes'
    BY <1>1, <1>3, <2>1, <2>2 DEF RxInv, ByteTypes
  <2>4. ArrivalInv'
    <3>1. /\ parsed' <= arrived' /\ \A n \in passed' : n <= arrived'
          /\ \A i \in ToFeed' : parsed' < held'[i] /\ held'[i] <= arrived'
          /\ \A i, j \in ToFeed' : i < j => held'[i] < held'[j]
          /\ byte' = NoByte
      BY <1>1, <1>2, <2>1, <2>2 DEF ArrivalInv
    <3>2. \A k \in InFifo' : /\ parsed' < rx_fifo'[k] /\ byte' < rx_fifo'[k] /\ rx_fifo'[k] <= arrived'
                              /\ \A i \in ToFeed' : held'[i] < rx_fifo'[k]
      BY <1>1, <1>2, <2>1, <2>2 DEF ArrivalInv
    <3>3. ASSUME NEW k \in InFifo', NEW l \in InFifo', k < l PROVE rx_fifo'[k] < rx_fifo'[l]
      <4>1. k + 1 \in InFifo /\ l + 1 \in InFifo /\ k + 1 < l + 1
        BY <2>1, <3>3
      <4> QED
        BY <2>1, <2>2, <4>1 DEF ArrivalInv
    <3> QED
      BY <3>1, <3>2, <3>3 DEF ArrivalInv
  <2>5. SetInv'
    <3> SUFFICES ASSUME NEW n \in Nat
                 PROVE  ToCome(n)' <=> parsed < n /\ n <= arrived /\ n \notin passed /\ n # rx_fifo[1]
      BY <1>1, <2>2 DEF SetInv
    <3>1. ToCome(n) <=> parsed < n /\ n <= arrived /\ n \notin passed
      BY DEF RxInv, SetInv
    <3>2. (\E k \in InFifo' : rx_fifo'[k] = n) <=> (\E k \in InFifo : rx_fifo[k] = n) /\ n # rx_fifo[1]
      <4>1. ASSUME NEW k \in InFifo' PROVE rx_fifo'[k] # rx_fifo[1]
        <5>1. k + 1 \in InFifo /\ 1 < k + 1 /\ rx_fifo'[k] = rx_fifo[k + 1]
          BY <2>1
        <5> QED
          BY <2>1, <2>2, <5>1 DEF ArrivalInv
      <4> QED
        BY <2>1, <4>1
    <3>3. \A i \in ToFeed : held[i] # rx_fifo[1]
      BY <2>1, <2>2 DEF RxInv, ArrivalInv, ByteTypes, ToFeed
    <3> QED
      BY <1>1, <1>2, <2>2, <3>1, <3>2, <3>3 DEF ToCome
  <2> QED
    BY <1>4, <2>3, <2>4, <2>5 DEF RxInv
<1> QED
  BY <1>1, <1>5, <1>6 DEF CommandStep

(* console_rx_resume() hands one held byte on.                             *)
LEMMA RxFeed == ASSUME RxInv, Feed PROVE RxInv'
<1>1. /\ mpc = "feed" /\ rx_isr = "idle"
      /\ UNCHANGED <<arrived, rx_fifo, rxie, held, busy, rx_isr, byte, passed>>
  BY DEF Feed, Reached, uartVars
<1>2. /\ fed \in Nat /\ held \in Seq(Nat) /\ Len(held) \in Nat /\ fed <= Len(held)
      /\ byte = NoByte /\ NoByte = 0 /\ ArrivalInv /\ ~rxie
      /\ \A i \in ToFeed : held[i] \in Nat
      /\ \A k \in InFifo : rx_fifo[k] \in Nat
      /\ parsed \in Nat /\ arrived \in Nat /\ InFifo' = InFifo
  BY <1>1 DEF RxInv, ByteTypes, FeedInv, MaskedAt, NoByte, ToFeed, InFifo
<1>3. CASE fed < Len(held)
  <2>1. parsed' = held[fed + 1] /\ fed' = fed + 1 /\ mpc' \in {"feed", "command"}
    BY <1>1, <1>3 DEF Feed
  <2>2. /\ ToFeed = ToFeed' \cup {fed + 1} /\ fed + 1 \in ToFeed
        /\ \A i \in ToFeed' : fed + 1 < i /\ i \in ToFeed
    BY <1>1, <1>2, <1>3, <2>1 DEF ToFeed
  <2>3. ByteTypes' /\ FeedInv' /\ ServiceInv'
    <3>1. parsed' \in Nat /\ fed' \in Nat /\ fed' <= Len(held)
      BY <1>2, <1>3, <2>1, <2>2
    <3> QED
      BY <1>1, <1>2, <2>1, <3>1 DEF RxInv, ByteTypes, FeedInv, ServiceInv, MaskedAt
  <2>4. ArrivalInv'
    BY <1>1, <1>2, <2>1, <2>2 DEF ArrivalInv
  <2>5. SetInv'
    <3> SUFFICES ASSUME NEW n \in Nat
                 PROVE  ToCome(n)' <=> parsed' < n /\ n <= arrived /\ n \notin passed
      BY <1>1 DEF SetInv
    <3>1. ToCome(n) <=> parsed < n /\ n <= arrived /\ n \notin passed
      BY DEF RxInv, SetInv
    <3>2. ToCome(n)' <=> ToCome(n) /\ n # parsed'
      BY <1>1, <1>2, <2>1, <2>2 DEF ToCome, ArrivalInv
    <3>3. ToCome(n) => parsed' <= n
      BY <1>1, <1>2, <2>1, <2>2 DEF ToCome, ArrivalInv
    <3>4. parsed < parsed' /\ parsed' \in Nat
      BY <1>2, <2>1, <2>2 DEF ArrivalInv
    <3> QED
      BY <1>2, <3>1, <3>2, <3>3, <3>4
  <2> QED
    BY <2>3, <2>4, <2>5 DEF RxInv
<1>4. CASE ~(fed < Len(held))
  <2>1. mpc' = "clear" /\ UNCHANGED <<parsed, fed>> /\ fed = Len(held)
    BY <1>2, <1>4 DEF Feed
  <2>2. FeedInv' /\ ServiceInv'
    BY <1>1, <2>1 DEF RxInv, FeedInv, ServiceInv, MaskedAt
  <2> QED
    BY <1>1, <2>1, <2>2, RxSame DEF RxInv, ByteTypes
<1> QED
  BY <1>3, <1>4

(* Everything held is handed on: rx_held_n = 0.                            *)
LEMMA RxCleared == ASSUME RxInv, Cleared PROVE RxInv'
<1>1. /\ mpc = "clear" /\ mpc' = "restore" /\ held' = <<>> /\ fed' = 0
      /\ UNCHANGED <<arrived, rx_fifo, rxie, busy, rx_isr, byte, parsed, passed>>
  BY DEF Cleared, Reached, uartVars
<1>2. /\ fed = Len(held) /\ Len(held) \in Nat /\ Len(held') = 0 /\ held' \in Seq(Nat)
  BY <1>1 DEF RxInv, FeedInv, ByteTypes
<1>3. ToFeed = {} /\ ToFeed' = {} /\ InFifo' = InFifo
  BY <1>1, <1>2 DEF ToFeed, InFifo
<1>4. ByteTypes'
  BY <1>1, <1>2 DEF RxInv, ByteTypes
<1>5. FeedInv' /\ ServiceInv'
  BY <1>1, <1>2 DEF RxInv, FeedInv, ServiceInv, MaskedAt
<1>6. ArrivalInv'
  BY <1>1, <1>3 DEF RxInv, ArrivalInv
<1>7. SetInv'
  BY <1>1, <1>3 DEF RxInv, SetInv, ToCome
<1> QED
  BY <1>4, <1>5, <1>6, <1>7 DEF RxInv

(* The other steps of the interrupt and of the main loop.                  *)
LEMMA RxOther ==
  ASSUME RxInv,
         RxIsrEnter \/ IsrCommandEnds \/ Serve \/ Served \/ Look \/ Mask \/ MainCommandEnds \/ Restore
  PROVE  RxInv'
<1>1. fed' = fed \/ (fed' = 0 /\ mpc = "mask")
  BY SMTT(60) DEF RxIsrEnter, IsrCommandEnds, Serve, Served, Look, Mask, MainCommandEnds, Restore, Reached
<1>2. fed' = fed
  BY <1>1 DEF RxInv, FeedInv
<1>3. UNCHANGED <<arrived, rx_fifo, held, byte, parsed, passed>>
  BY DEF RxIsrEnter, IsrCommandEnds, Serve, Served, Look, Mask, MainCommandEnds, Restore, uartVars
<1>4. CASE RxIsrEnter
  <2>1. rx_isr = "idle" /\ rx_isr' = "loop" /\ rxie /\ UNCHANGED <<rxie, busy, mpc>>
    BY <1>4 DEF RxIsrEnter
  <2>2. FeedInv' /\ ServiceInv'
    BY <1>2, <1>3, <2>1 DEF RxInv, FeedInv, ServiceInv, MaskedAt
  <2> QED
    BY <1>2, <1>3, <2>1, <2>2, RxSame DEF RxInv, ByteTypes
<1>5. CASE IsrCommandEnds
  <2>1. rx_isr = "command" /\ rx_isr' = "loop" /\ busy' = FALSE /\ UNCHANGED <<rxie, mpc>>
    BY <1>5 DEF IsrCommandEnds, uartVars
  <2>2. FeedInv' /\ ServiceInv'
    BY <1>2, <1>3, <2>1 DEF RxInv, FeedInv, ServiceInv, MaskedAt
  <2> QED
    BY <1>2, <1>3, <2>1, <2>2, RxSame DEF RxInv, ByteTypes
<1>6. CASE Serve \/ Served \/ Look \/ Mask \/ MainCommandEnds \/ Restore
  <2>1. /\ rx_isr = "idle" /\ rx_isr' = rx_isr
        /\ \/ mpc = "serve" /\ mpc' = "served" /\ busy' = TRUE /\ rxie' = rxie
           \/ mpc = "served" /\ mpc' = "look" /\ busy' = FALSE /\ rxie' = rxie
           \/ mpc = "look" /\ mpc' \in {"mask", "serve"} /\ busy' = busy /\ rxie' = rxie
           \/ mpc = "mask" /\ mpc' = "feed" /\ busy' = busy /\ rxie' = FALSE
           \/ mpc = "command" /\ mpc' = "feed" /\ busy' = FALSE /\ rxie' = rxie
           \/ mpc = "restore" /\ mpc' = "serve" /\ busy' = busy /\ rxie' = TRUE
    BY <1>6 DEF Serve, Served, Look, Mask, Masked, MainCommandEnds, Restore, Reached, uartVars
  <2>2. FeedInv' /\ ServiceInv'
    BY <1>2, <1>3, <2>1 DEF RxInv, FeedInv, ServiceInv, MaskedAt
  <2>3. busy' \in BOOLEAN /\ rxie' \in BOOLEAN
    BY <2>1 DEF RxInv, ByteTypes
  <2> QED
    BY <1>2, <1>3, <2>2, <2>3, RxSame
<1> QED
  BY <1>4, <1>5, <1>6

(* The invariant of every behaviour.                                       *)
LEMMA RxSafety == RxSpec => []RxInv
<1>1. RxInv /\ [RxNext]_rxVars => RxInv'
  <2> SUFFICES ASSUME RxInv, [RxNext]_rxVars PROVE RxInv'
    OBVIOUS
  <2>1. CASE UNCHANGED rxVars
    BY <2>1, RxSame DEF rxVars, uartVars, RxInv, ByteTypes, FeedInv, ServiceInv
  <2>2. CASE RxIsr
    BY <2>2, RxTake, RxHold, RxParse, RxOther DEF RxIsr
  <2>3. CASE Main
    BY <2>3, RxFeed, RxCleared, RxOther DEF Main
  <2> QED
    BY <2>1, <2>2, <2>3, RxArrive, RxCommand DEF RxNext
<1> QED
  BY <1>1, RxInitial, PTL DEF RxSpec

(* No command starts inside the main loop's capture_service(): the bytes   *)
(* that arrive then are held back (capture.c, sigproc_busy).               *)
THEOREM NoCommandInService == RxSpec => []ServiceUndisturbed
<1>1. RxInv => ServiceUndisturbed
  BY DEF RxInv, ServiceInv, ServiceUndisturbed
<1> QED
  BY <1>1, RxSafety, PTL

(* The elements of two sequences put one after the other.                  *)
LEMMA Concatenated ==
  ASSUME NEW a \in Seq(Nat), NEW b \in Seq(Nat)
  PROVE  /\ a \o b \in Seq(Nat) /\ Len(a \o b) = Len(a) + Len(b)
         /\ \A i \in 1 .. Len(a) : (a \o b)[i] = a[i]
         /\ \A i \in 1 .. Len(b) : (a \o b)[Len(a) + i] = b[i]
  OBVIOUS

(* What is in the three places, one after the other, is what ParsedInOrder *)
(* speaks of.                                                              *)
LEMMA InOrderOfArrival == RxInv => ParsedInOrder
<1> SUFFICES ASSUME RxInv PROVE ParsedInOrder
  OBVIOUS
<1>1. /\ held \in Seq(Nat) /\ rx_fifo \in Seq(Nat) /\ fed \in Nat /\ fed <= Len(held)
      /\ Len(held) \in Nat /\ Len(rx_fifo) \in Nat /\ byte \in Nat /\ parsed \in Nat /\ arrived \in Nat
      /\ NoByte = 0
  BY DEF RxInv, ByteTypes, FeedInv, NoByte
<1> DEFINE h == Len(held) - fed
           t == IF byte = NoByte THEN 0 ELSE 1
           f == Len(rx_fifo)
<1>2. /\ Held \in Seq(Nat) /\ Len(Held) = h /\ h \in Nat
      /\ \A i \in 1 .. h : Held[i] = held[fed + i]
  BY <1>1 DEF Held
<1>3. /\ Taken \in Seq(Nat) /\ Len(Taken) = t /\ t \in Nat
      /\ \A i \in 1 .. t : Taken[i] = byte
  BY <1>1 DEF Taken
<1>a. /\ f \in Nat /\ Len(rx_fifo) = f /\ t \in {0, 1} /\ (t = 1 <=> byte # NoByte)
      /\ Len(held) = fed + h
  BY <1>1
<1> HIDE DEF h, t, f
<1>4. /\ Len(ToParse) = h + t + f
      /\ \A i \in 1 .. h : ToParse[i] = held[fed + i]
      /\ t = 1 => ToParse[h + 1] = byte
      /\ \A i \in 1 .. f : ToParse[h + t + i] = rx_fifo[i]
  <2> DEFINE b == Taken \o rx_fifo
  <2>1. /\ b \in Seq(Nat) /\ Len(b) = t + f
        /\ \A i \in 1 .. t : b[i] = Taken[i]
        /\ \A i \in 1 .. f : b[t + i] = rx_fifo[i]
    BY <1>1, <1>3, <1>a, Concatenated
  <2> HIDE DEF b
  <2>2. /\ Held \o b \in Seq(Nat) /\ Len(Held \o b) = h + Len(b)
        /\ \A i \in 1 .. h : (Held \o b)[i] = Held[i]
        /\ \A i \in 1 .. Len(b) : (Held \o b)[h + i] = b[i]
    BY <1>2, <2>1, Concatenated
  <2>3. ToParse = Held \o b
    <3>1. \A x, y, z \in Seq(Nat) : (x \o y) \o z = x \o (y \o z)
      OBVIOUS
    <3> QED
      BY <1>1, <1>2, <1>3, <3>1 DEF ToParse, b
  <2>4. \A i \in 1 .. f : ToParse[h + t + i] = rx_fifo[i]
    <3> SUFFICES ASSUME NEW i \in 1 .. f PROVE ToParse[h + t + i] = rx_fifo[i]
      OBVIOUS
    <3>1. t + i \in 1 .. Len(b) /\ h + (t + i) = h + t + i
      BY <1>2, <1>3, <1>a, <2>1
    <3> QED
      BY <2>1, <2>2, <2>3, <3>1
  <2>5. t = 1 => ToParse[h + 1] = byte
    <3> SUFFICES ASSUME t = 1 PROVE ToParse[h + 1] = byte
      OBVIOUS
    <3>1. 1 \in 1 .. t /\ 1 \in 1 .. Len(b)
      BY <1>a, <2>1
    <3> QED
      BY <1>3, <2>1, <2>2, <2>3, <3>1, ZenonT(60)
  <2>6. Len(ToParse) = h + t + f
    BY <1>2, <1>3, <1>a, <2>1, <2>2, <2>3
  <2> QED
    BY <1>2, <2>2, <2>3, <2>4, <2>5, <2>6
<1>5. ArrivalInv /\ SetInv
  BY DEF RxInv
<1>6. /\ \A i \in 1 .. h : fed + i \in ToFeed
      /\ \A i \in ToFeed : i - fed \in 1 .. h /\ fed + (i - fed) = i
      /\ InFifo = 1 .. f
  BY <1>1, <1>2, <1>a DEF ToFeed, InFifo
<1>7. /\ \A i \in 1 .. h : ToParse[i] \in Nat
      /\ t = 1 => ToParse[h + 1] \in Nat
      /\ \A i \in 1 .. f : ToParse[h + t + i] \in Nat
  <2>1. /\ \A i \in ToFeed : held[i] \in Nat
        /\ \A k \in InFifo : rx_fifo[k] \in Nat
    BY <1>1 DEF ToFeed, InFifo
  <2> QED
    BY <1>1, <1>4, <1>6, <2>1
<1>8. ASSUME NEW k \in 1 .. (h + t + f)
      PROVE  k \in 1 .. h \/ (t = 1 /\ k = h + 1) \/ \E i \in 1 .. f : k = h + t + i
  <2>1. CASE k > h + t
    <3>1. k - (h + t) \in 1 .. f /\ k = h + t + (k - (h + t))
      BY <1>2, <1>a, <2>1
    <3> QED
      BY <3>1
  <2>2. CASE ~(k > h + t)
    BY <1>2, <1>a, <2>2
  <2> QED
    BY <2>1, <2>2
<1>9. ASSUME NEW k \in 1 .. (h + t + f)
      PROVE  ToParse[k] > (IF k = 1 THEN parsed ELSE ToParse[k - 1])
  <2>1. CASE k \in 1 .. h
    <3>1. CASE k = 1
      BY <1>1, <1>4, <1>5, <1>6, <1>7, <2>1, <3>1 DEF ArrivalInv
    <3>2. CASE k # 1
      <4>1. k - 1 \in 1 .. h /\ fed + (k - 1) < fed + k
        BY <1>1, <1>2, <2>1, <3>2
      <4>2. held[fed + (k - 1)] < held[fed + k]
        BY <1>5, <1>6, <2>1, <4>1 DEF ArrivalInv
      <4> QED
        BY <1>4, <1>7, <2>1, <3>2, <4>1, <4>2
    <3> QED
      BY <3>1, <3>2
  <2>2. CASE t = 1 /\ k = h + 1
    <3>1. ToParse[k] = byte /\ parsed < byte /\ \A i \in ToFeed : held[i] < byte
      BY <1>4, <1>5, <1>a, <2>2 DEF ArrivalInv
    <3>2. CASE h = 0
      BY <1>1, <2>2, <3>1, <3>2
    <3>3. CASE h # 0
      <4>1. k - 1 = h /\ h \in 1 .. h /\ k # 1
        BY <1>2, <2>2, <3>3
      <4>2. ToParse[h] = held[fed + h] /\ held[fed + h] < byte
        BY <1>4, <1>6, <3>1, <4>1
      <4> QED
        BY <1>1, <1>7, <3>1, <4>1, <4>2
    <3> QED
      BY <3>2, <3>3
  <2>3. CASE \E i \in 1 .. f : k = h + t + i
    <3>1. PICK i \in 1 .. f : k = h + t + i
      BY <2>3
    <3>2. /\ ToParse[k] = rx_fifo[i] /\ parsed < rx_fifo[i] /\ byte < rx_fifo[i]
          /\ \A j \in ToFeed : held[j] < rx_fifo[i]
      BY <1>4, <1>5, <1>6, <3>1 DEF ArrivalInv
    <3>3. CASE i # 1
      <4>1. i - 1 \in 1 .. f /\ k - 1 = h + t + (i - 1) /\ k # 1
        <5>1. f \in Nat /\ h \in Nat /\ t \in Nat
          BY <1>2, <1>a
        <5>2. i \in Nat /\ 1 < i /\ i =< f
          BY <3>1, <3>3, <5>1
        <5>3. i - 1 \in 1 .. f
          BY <5>1, <5>2
        <5>4. k - 1 = h + t + (i - 1)
          BY <3>1, <5>1, <5>2
        <5>5. k # 1
          BY <3>1, <5>1, <5>2
        <5> QED
          BY <5>3, <5>4, <5>5
      <4>2. rx_fifo[i - 1] < rx_fifo[i]
        BY <1>5, <1>6, <3>1, <4>1 DEF ArrivalInv
      <4> QED
        BY <1>4, <1>7, <3>1, <3>2, <4>1, <4>2
    <3>4. CASE i = 1 /\ t = 1
      <4>1. k - 1 = h + 1 /\ k # 1
        BY <1>2, <3>1, <3>4
      <4> QED
        BY <1>1, <1>4, <1>7, <3>1, <3>2, <3>4, <4>1
    <3>5. CASE i = 1 /\ t = 0 /\ h # 0
      <4>1. k - 1 = h /\ h \in 1 .. h /\ k # 1
        BY <1>2, <3>1, <3>5
      <4>2. ToParse[h] = held[fed + h] /\ held[fed + h] < rx_fifo[i]
        BY <1>4, <1>6, <3>2, <4>1
      <4> QED
        BY <1>7, <3>1, <3>2, <4>1, <4>2
    <3>6. CASE i = 1 /\ t = 0 /\ h = 0
      BY <1>1, <1>7, <3>1, <3>2, <3>6
    <3> QED
      BY <1>a, <3>3, <3>4, <3>5, <3>6
  <2> QED
    BY <1>8, <2>1, <2>2, <2>3
<1>10. ASSUME NEW n \in Nat
       PROVE  (\E k \in 1 .. (h + t + f) : ToParse[k] = n) <=> ToCome(n)
  <2>1. ASSUME NEW k \in 1 .. (h + t + f), ToParse[k] = n PROVE ToCome(n)
    BY <1>4, <1>6, <1>8, <1>a, <2>1 DEF ToCome
  <2>2. ASSUME ToCome(n) PROVE \E k \in 1 .. (h + t + f) : ToParse[k] = n
    <3>1. CASE \E i \in ToFeed : held[i] = n
      <4>1. PICK i \in ToFeed : held[i] = n
        BY <3>1
      <4>2. i - fed \in 1 .. h /\ ToParse[i - fed] = n
        BY <1>4, <1>6, <4>1
      <4>3. i - fed \in 1 .. (h + t + f)
        BY <1>2, <1>a, <4>2
      <4> QED
        BY <4>2, <4>3
    <3>2. CASE byte # NoByte /\ byte = n
      <4>1. h + 1 \in 1 .. (h + t + f) /\ ToParse[h + 1] = n
        BY <1>2, <1>4, <1>a, <3>2
      <4> QED
        BY <4>1
    <3>3. CASE \E k \in InFifo : rx_fifo[k] = n
      <4>1. PICK k \in 1 .. f : rx_fifo[k] = n
        BY <1>6, <3>3
      <4>2. h + t + k \in 1 .. (h + t + f) /\ ToParse[h + t + k] = n
        BY <1>2, <1>4, <1>a, <4>1
      <4> QED
        BY <4>2
    <3> QED
      BY <2>2, <3>1, <3>2, <3>3 DEF ToCome
  <2> QED
    BY <2>1, <2>2
<1>11. {ToParse[k] : k \in 1 .. Len(ToParse)} = (parsed + 1 .. arrived) \ passed
  <2>1. \A k \in 1 .. (h + t + f) : ToParse[k] \in Nat
    BY <1>7, <1>8
  <2>2. \A n : n \in (parsed + 1 .. arrived) \ passed
               <=> n \in Nat /\ parsed < n /\ n <= arrived /\ n \notin passed
    BY <1>1
  <2>3. \A n \in Nat : ToCome(n) <=> n \in (parsed + 1 .. arrived) \ passed
    BY <1>5, <2>2 DEF SetInv
  <2> QED
    BY <1>4, <1>10, <2>1, <2>2, <2>3
<1> QED
  BY <1>4, <1>9, <1>11 DEF ParsedInOrder

(* The parser is given the bytes in the order they arrived, each of them   *)
(* once, and all of them but those dropped on purpose (cli.c, rx_held[]).  *)
THEOREM AlwaysParsedInOrder == RxSpec => []ParsedInOrder
BY RxSafety, InOrderOfArrival, PTL

-----------------------------------------------------------------------------
(* The transmit side.  While no failure is being told, tx_irq_on is up     *)
(* outside a measurement; inside one the ring is empty and U2TXIE is off   *)
(* from the flush on.  The enable is on only over a ring with something in *)
(* it, and outside the interrupt either TXIF or the FIFO stands for the    *)
(* next one: that, and not what NoLostWakeup says, is what every step      *)
(* keeps.                                                                  *)
Telling == pc["panic"] # "idle"
Polled  == {"move", "room", "raw"}
Printed == {"full", "put", "copy"} \cup Polled

UartTypes ==
  /\ tx_head \in Index /\ tx_tail \in Index /\ last \in Num
  /\ {tx_irq_on, txie, txif, up, measuring} \subseteq BOOLEAN
  /\ ring \in [Index -> Num] /\ fifo \in Seq(Num) /\ isr \in {"idle", "move", "enable"}
  /\ pc \in [Ctx -> Printed \cup {"idle", "flush", "suspend", "measure", "resume", "polled"}]
  /\ tail \in [Ctx \cup {"isr"} -> Index]

(* Which context can be where, and the mode it finds.                      *)
BootInv ==
  ~up /\ ~Telling =>
    /\ ~tx_irq_on /\ ~txie /\ ~measuring /\ isr = "idle" /\ tx_tail = tx_head
    /\ pc["cmd"] = "idle" /\ pc["main"] # "copy"
ModeInv ==
  /\ pc["main"] \in Printed \cup {"idle"}
  /\ up /\ ~Telling =>
       /\ pc["main"] \notin Polled
       /\ pc["cmd"] # "polled"
       /\ pc["cmd"] = "idle" => ~measuring
       /\ pc["cmd"] \in {"flush", "suspend", "measure", "resume"} => measuring
       /\ tx_irq_on <=> ~measuring \/ pc["cmd"] \in {"flush", "suspend", "resume"}
       /\ pc["cmd"] \in Polled => measuring
       /\ pc["cmd"] = "copy" => ~measuring
QuietInv ==
  up /\ ~Telling /\ measuring /\ pc["cmd"] # "flush" =>
    ~txie /\ isr = "idle" /\ tx_tail = tx_head /\ (pc["cmd"] = "suspend" => fifo = <<>>)
MoveInv ==
  ~Telling => \A c \in {"main", "cmd"} : pc[c] = "move" => tail[c] = tx_tail
TellInv ==
  Telling => /\ ~txie /\ pc["panic"] \in Printed \cup {"polled"}
             /\ pc["panic"] # "copy"
             /\ pc["panic"] # "polled" => ~tx_irq_on

(* The interrupt that is to come.                                          *)
Signal == txif \/ fifo # <<>>
WakeInv ==
  ~Telling =>
    /\ isr = "idle" => Signal /\ (txie => tx_tail # tx_head)
    /\ isr # "idle" => txie
    /\ isr = "move" => tx_tail # tx_head /\ (tail["isr"] = tx_tail \/ Signal)
    /\ isr = "enable" => Signal
    /\ isr = "idle" /\ tx_irq_on /\ tx_tail # tx_head => txie

(* Room that a command has seen stays: only the interrupt gets in between. *)
NotFull == NextIndex(tx_head) # tx_tail
RoomInv ==
  ~Telling =>
    /\ up /\ ~measuring /\ pc["cmd"] \in {"put", "copy"} => NotFull
    /\ isr = "move" /\ tail["isr"] = NextIndex(tx_head) => ~NotFull

TxInv == UartTypes /\ BootInv /\ ModeInv /\ QuietInv /\ MoveInv /\ TellInv /\ WakeInv /\ RoomInv

----------------------------------------------------------------------------
(* The remainder of a number less than one modulus out of range.           *)
LEMMA Wrapped ==
  ASSUME NEW m \in Nat \ {0}, NEW a \in Int
  PROVE  /\ 0 <= a /\ a < m => a % m = a
         /\ m <= a /\ a < 2 * m => a % m = a - m
         /\ -m <= a /\ a < 0 => a % m = a + m
<1>1. 0 <= a /\ a < m => a % m = a
  OBVIOUS
<1>2. m <= a /\ a < 2 * m => a % m = a - m
  OBVIOUS
<1>3. -m <= a /\ a < 0 => a % m = a + m
  OBVIOUS
<1> QED
  BY <1>1, <1>2, <1>3

(* tx_used_of() and tx_next() agree on a full ring.                        *)
LEMMA FullRing ==
  ASSUME tx_head \in Index, tx_tail \in Index
  PROVE  /\ Used \in 0 .. (RingSize - 1)
         /\ Used < RingSize - 1 <=> NotFull
         /\ RingFull <=> ~NotFull
         /\ Used = IF tx_head >= tx_tail THEN tx_head - tx_tail ELSE tx_head - tx_tail + RingSize
<1>1. /\ RingSize \in Nat \ {0} /\ RingSize >= 2 /\ tx_head \in Nat /\ tx_tail \in Nat
      /\ tx_head < RingSize /\ tx_tail < RingSize
  BY UartTxAssumption DEF Index
<1>2. Used = IF tx_head >= tx_tail THEN tx_head - tx_tail ELSE tx_head - tx_tail + RingSize
  <2>1. CASE tx_head >= tx_tail
    <3>1. tx_head - tx_tail \in Int /\ 0 <= tx_head - tx_tail /\ tx_head - tx_tail < RingSize
      BY <1>1, <2>1
    <3> QED
      BY <1>1, <2>1, <3>1, Wrapped DEF Used
  <2>2. CASE ~(tx_head >= tx_tail)
    <3>1. tx_head - tx_tail \in Int /\ -RingSize <= tx_head - tx_tail /\ tx_head - tx_tail < 0
      BY <1>1, <2>2
    <3> QED
      BY <1>1, <2>2, <3>1, Wrapped DEF Used
  <2> QED
    BY <2>1, <2>2
<1> QED
  BY <1>1, <1>2 DEF NotFull, NextIndex, RingFull

(* What the parser copies fills the ring up.                               *)
LEMMA Filling ==
  ASSUME tx_head \in Index, tx_tail \in Index, NEW n, n = RingSize - 1 - Used
  PROVE  /\ n \in 0 .. (RingSize - 1) /\ (tx_head + n) % RingSize \in Index
         /\ NextIndex((tx_head + n) % RingSize) = tx_tail
         /\ n = IF tx_head >= tx_tail THEN RingSize - 1 - (tx_head - tx_tail) ELSE tx_tail - tx_head - 1
<1>1. /\ RingSize \in Nat \ {0} /\ RingSize >= 2 /\ tx_head \in Nat /\ tx_tail \in Nat
      /\ tx_head < RingSize /\ tx_tail < RingSize
  BY UartTxAssumption DEF Index
<1>2. Used = IF tx_head >= tx_tail THEN tx_head - tx_tail ELSE tx_head - tx_tail + RingSize
  BY FullRing
<1>3. tx_head + n = IF tx_head >= tx_tail THEN RingSize - 1 + tx_tail ELSE tx_tail - 1
  BY <1>1, <1>2
<1>4. (tx_head + n) % RingSize = IF tx_tail = 0 THEN RingSize - 1 ELSE tx_tail - 1
  <2>1. CASE tx_head >= tx_tail /\ tx_tail # 0
    <3>1. RingSize - 1 + tx_tail \in Int /\ RingSize =< RingSize - 1 + tx_tail
          /\ RingSize - 1 + tx_tail < 2 * RingSize
      BY <1>1, <2>1
    <3> QED
      BY <1>1, <1>3, <2>1, <3>1, Wrapped
  <2>2. CASE ~(tx_head >= tx_tail /\ tx_tail # 0)
    <3>1. tx_head + n \in Int /\ 0 =< tx_head + n /\ tx_head + n < RingSize
          /\ tx_head + n = IF tx_tail = 0 THEN RingSize - 1 ELSE tx_tail - 1
      BY <1>1, <1>3, <2>2
    <3> QED
      BY <1>1, <3>1, Wrapped
  <2> QED
    BY <2>1, <2>2
<1> QED
  BY <1>1, <1>2, <1>4 DEF Index, NextIndex

(* tx_next() stays in the ring, moves, and takes no two places to one.     *)
LEMMA NextPlace ==
  /\ \A i \in Index : NextIndex(i) \in Index /\ NextIndex(i) # i
  /\ \A i, j \in Index : NextIndex(i) = NextIndex(j) => i = j
  BY UartTxAssumption DEF Index, NextIndex

(* A byte's number and its successor's.                                    *)
LEMMA Numbers ==
  /\ 0 \in Num /\ \A n \in Num : /\ n \in Nat /\ Succ(n) \in Num /\ Succ(n) # n
                                 /\ Succ(n) = IF n + 1 = N THEN 0 ELSE n + 1
<1>1. N \in Nat \ {0} /\ N >= 3
  BY UartTxAssumption
<1> SUFFICES ASSUME NEW n \in Num
             PROVE  Succ(n) = IF n + 1 = N THEN 0 ELSE n + 1
  BY <1>1 DEF Num
<1>2. n + 1 \in Int /\ 0 <= n + 1 /\ n + 1 <= N
  BY <1>1 DEF Num
<1> QED
  BY <1>1, <1>2, Wrapped DEF Succ

----------------------------------------------------------------------------
(* At boot everything is empty and nobody writes.                          *)
LEMMA TxInitial == Init => TxInv
<1> SUFFICES ASSUME Init PROVE TxInv
  OBVIOUS
<1>1. 0 \in Index /\ 0 \in Num
  BY UartTxAssumption DEF Index, Num
<1>2. UartTypes
  BY <1>1 DEF Init, UartTypes, Printed, Polled, Ctx
<1> QED
  BY <1>2 DEF Init, TxInv, BootInv, ModeInv, QuietInv, MoveInv, TellInv, WakeInv, RoomInv, Signal,
          Telling,
          Ctx

(* A byte leaves the FIFO.                                                 *)
LEMMA TxShift == ASSUME TxInv, Shift PROVE TxInv'
<1> USE DEF Shift, Telling, Printed, Polled, Ctx, ringVars, hwVars
<1>1. UartTypes'
  BY NextPlace, Numbers, UartTxAssumption DEF TxInv, UartTypes
<1>2. BootInv'
  BY DEF TxInv, UartTypes, BootInv, ModeInv, TellInv
<1>3. ModeInv'
  BY DEF TxInv, UartTypes, BootInv, ModeInv, TellInv
<1>4. QuietInv' /\ MoveInv' /\ TellInv'
  BY DEF TxInv, UartTypes, BootInv, ModeInv, QuietInv, MoveInv, TellInv
<1>5. WakeInv'
  BY UartTxAssumption DEF TxInv, UartTypes, BootInv, ModeInv, QuietInv, TellInv, WakeInv, Signal
<1>6. RoomInv'
  BY NextPlace, FullRing DEF TxInv, UartTypes, BootInv, ModeInv, RoomInv, NotFull
<1> QED
  BY <1>1, <1>2, <1>3, <1>4, <1>5, <1>6 DEF TxInv

(* The transmit interrupt is taken.                                        *)
LEMMA TxIsrEnter == ASSUME TxInv, IsrEnter PROVE TxInv'
<1> USE DEF IsrEnter, Telling, Printed, Polled, Ctx, ringVars, hwVars
<1>1. UartTypes'
  BY NextPlace, Numbers, UartTxAssumption DEF TxInv, UartTypes
<1>2. BootInv'
  BY DEF TxInv, UartTypes, BootInv, ModeInv, TellInv
<1>3. ModeInv'
  BY DEF TxInv, UartTypes, BootInv, ModeInv, TellInv
<1>4. QuietInv' /\ MoveInv' /\ TellInv'
  BY DEF TxInv, UartTypes, BootInv, ModeInv, QuietInv, MoveInv, TellInv
<1>5. WakeInv'
  BY UartTxAssumption DEF TxInv, UartTypes, BootInv, ModeInv, QuietInv, TellInv, WakeInv, Signal
<1>6. RoomInv'
  BY NextPlace, FullRing DEF TxInv, UartTypes, BootInv, ModeInv, RoomInv, NotFull
<1> QED
  BY <1>1, <1>2, <1>3, <1>4, <1>5, <1>6 DEF TxInv

(* It moves bytes on.                                                      *)
LEMMA TxIsrMove == ASSUME TxInv, IsrMove PROVE TxInv'
<1> USE DEF IsrMove, MoveByte, MoveEnd, Telling, Printed, Polled, Ctx, ringVars, hwVars
<1>1. UartTypes'
  <2>1. CASE MoveByte("isr")
    <3>1. tail["isr"] \in Index /\ ring[tail["isr"]] \in Num
      BY DEF TxInv, UartTypes
    <3>2. fifo' \in Seq(Num) /\ tail' \in [Ctx \cup {"isr"} -> Index]
      BY <2>1, <3>1, NextPlace DEF TxInv, UartTypes
    <3> QED
      BY <2>1, <3>2 DEF TxInv, UartTypes
  <2>2. CASE MoveEnd("isr")
    <3>1. 0 \in Index
      BY UartTxAssumption DEF Index
    <3> QED
      BY <2>2, <3>1 DEF TxInv, UartTypes
  <2> QED
    BY <2>1, <2>2
<1>2. BootInv'
  BY DEF TxInv, UartTypes, BootInv, ModeInv, TellInv
<1>3. ModeInv'
  BY DEF TxInv, UartTypes, BootInv, ModeInv, TellInv
<1>4. QuietInv' /\ MoveInv' /\ TellInv'
  BY DEF TxInv, UartTypes, BootInv, ModeInv, QuietInv, MoveInv, TellInv
<1>5. WakeInv'
  <2>1. CASE MoveByte("isr")
    <3>1. fifo' # <<>>
      BY <2>1 DEF TxInv, UartTypes
    <3> QED
      BY <2>1, <3>1 DEF TxInv, UartTypes, WakeInv, Signal
  <2>2. CASE MoveEnd("isr") /\ isr' = "enable"
    <3>1. tail["isr"] = tx_head \/ fifo # <<>>
      BY <2>2, UartTxAssumption DEF TxInv, UartTypes
    <3> QED
      BY <2>2, <3>1 DEF TxInv, UartTypes, WakeInv, Signal
  <2> QED
    BY <2>1, <2>2
<1>6. RoomInv'
  BY NextPlace, FullRing DEF TxInv, UartTypes, BootInv, ModeInv, RoomInv, NotFull
<1> QED
  BY <1>1, <1>2, <1>3, <1>4, <1>5, <1>6 DEF TxInv

(* It turns itself off over an empty ring.                                 *)
LEMMA TxIsrEnd == ASSUME TxInv, IsrEnd PROVE TxInv'
<1> USE DEF IsrEnd, StillToSend, Telling, Printed, Polled, Ctx, ringVars, hwVars
<1>1. UartTypes'
  BY NextPlace, Numbers, UartTxAssumption DEF TxInv, UartTypes
<1>2. BootInv'
  BY DEF TxInv, UartTypes, BootInv, ModeInv, TellInv
<1>3. ModeInv'
  BY DEF TxInv, UartTypes, BootInv, ModeInv, TellInv
<1>4. QuietInv' /\ MoveInv' /\ TellInv'
  BY DEF TxInv, UartTypes, BootInv, ModeInv, QuietInv, MoveInv, TellInv
<1>5. WakeInv'
  BY UartTxAssumption DEF TxInv, UartTypes, BootInv, ModeInv, QuietInv, TellInv, WakeInv, Signal
<1>6. RoomInv'
  BY NextPlace, FullRing DEF TxInv, UartTypes, BootInv, ModeInv, RoomInv, NotFull
<1> QED
  BY <1>1, <1>2, <1>3, <1>4, <1>5, <1>6 DEF TxInv

(* A writer looks at the mode and at the room.                             *)
LEMMA TxLook ==
  ASSUME TxInv, NEW c \in Ctx, LookIrq(c) \/ LookPolled(c) \/ RoomPolled(c) \/ Put(c)
  PROVE  TxInv'
<1>1. /\ UNCHANGED <<ring, tx_head, tx_tail, tx_irq_on, txie, txif, fifo, last, up, isr, measuring>>
      /\ pc[c] \in {"full", "room", "put"} /\ Runs(c)
      /\ \E w \in Printed \ {"idle"} : pc' = [pc EXCEPT ![c] = w]
      /\ pc'[c] \in {"move", "room", "raw"} => ~tx_irq_on \/ pc[c] = "room"
      /\ pc'[c] = "copy" => tx_irq_on /\ pc[c] = "put"
      /\ pc'[c] = "put" => (tx_irq_on /\ ~RingFull) \/ pc[c] = "room"
      /\ pc'[c] = "move" => tail'[c] = tx_tail /\ ~tx_irq_on
      /\ \A x \in Ctx \cup {"isr"} : x # c => tail'[x] = tail[x]
      /\ tail' \in [Ctx \cup {"isr"} -> Index]
  <2> USE DEF At, Goto, Printed, Polled, Ctx, ringVars, hwVars, TxInv, UartTypes
  <2>1. CASE LookIrq(c)
    BY <2>1 DEF LookIrq
  <2>2. CASE LookPolled(c)
    BY <2>2 DEF LookPolled
  <2>3. CASE RoomPolled(c)
    BY <2>3 DEF RoomPolled
  <2>4. CASE Put(c)
    BY <2>4 DEF Put
  <2> QED
    BY <2>1, <2>2, <2>3, <2>4
<1>2. PICK w \in Printed : pc' = [pc EXCEPT ![c] = w]
  BY <1>1
<1>3. pc \in [Ctx -> Printed \cup {"idle", "flush", "suspend", "measure", "resume", "polled"}]
      /\ pc'[c] = w /\ \A x \in Ctx : x # c => pc'[x] = pc[x]
  BY <1>2 DEF TxInv, UartTypes
<1>4. UartTypes'
  BY <1>1, <1>2, <1>3 DEF TxInv, UartTypes
<1> USE <1>1, <1>3 DEF TxInv, UartTypes, Runs, Telling, Printed, Polled, Ctx
<1>5. CASE c = "main"
  BY <1>4, <1>5 DEF BootInv, ModeInv, QuietInv, MoveInv, TellInv, WakeInv, RoomInv, Signal, NotFull
<1>6. CASE c = "cmd"
  <2>1. w = "put" => (NotFull \/ pc["cmd"] = "room")
    BY <1>6, FullRing
  <2> QED
    BY <1>4, <1>6, <2>1 DEF BootInv, ModeInv, QuietInv, MoveInv, TellInv, WakeInv, RoomInv, Signal, NotFull
<1>7. CASE c = "panic"
  BY <1>4, <1>7 DEF BootInv, ModeInv, QuietInv, MoveInv, TellInv, WakeInv, RoomInv, Signal, NotFull
<1> QED
  BY <1>5, <1>6, <1>7

(* A writer in the polled mode moves the ring on.                          *)
LEMMA TxMovePolled == ASSUME TxInv, NEW c \in Ctx, MovePolled(c) PROVE TxInv'
<1> USE DEF MovePolled, MoveByte, MoveEnd, At, Goto, Runs, Done, Telling, Printed, Polled, Ctx, ringVars, hwVars
<1>1. UartTypes'
  <2>1. CASE MoveByte(c)
    <3>1. tail[c] \in Index /\ ring[tail[c]] \in Num
      BY DEF TxInv, UartTypes
    <3>2. fifo' \in Seq(Num) /\ tail' \in [Ctx \cup {"isr"} -> Index]
      BY <2>1, <3>1, NextPlace DEF TxInv, UartTypes
    <3> QED
      BY <2>1, <3>2 DEF TxInv, UartTypes
  <2>2. CASE MoveEnd(c)
    <3>1. 0 \in Index
      BY UartTxAssumption DEF Index
    <3> QED
      BY <2>2, <3>1 DEF TxInv, UartTypes
  <2> QED
    BY <2>1, <2>2
<1>2. BootInv'
  <2>1. CASE c = "main"
    BY <2>1 DEF TxInv, UartTypes, BootInv, ModeInv, MoveInv, TellInv
  <2>2. CASE c = "cmd"
    BY <2>2 DEF TxInv, UartTypes, BootInv, ModeInv, MoveInv, TellInv
  <2>3. CASE c = "panic"
    BY <2>3 DEF TxInv, UartTypes, BootInv, ModeInv, MoveInv, TellInv
  <2> QED
    BY <2>1, <2>2, <2>3
<1>3. ModeInv'
  BY DEF TxInv, UartTypes, BootInv, ModeInv, TellInv
<1>4. QuietInv' /\ MoveInv' /\ TellInv'
  BY DEF TxInv, UartTypes, BootInv, ModeInv, QuietInv, MoveInv, TellInv
<1>5. WakeInv'
  BY UartTxAssumption DEF TxInv, UartTypes, BootInv, ModeInv, QuietInv, TellInv, WakeInv, Signal
<1>6. RoomInv'
  BY NextPlace, FullRing DEF TxInv, UartTypes, BootInv, ModeInv, RoomInv, NotFull
<1> QED
  BY <1>1, <1>2, <1>3, <1>4, <1>5, <1>6 DEF TxInv

(* A writer copies its byte into the ring.                                 *)
LEMMA TxCopy == ASSUME TxInv, NEW c \in Ctx, Copy(c) PROVE TxInv'
<1> USE DEF Copy, At, Goto, Runs, Done, Telling, Printed, Polled, Ctx, ringVars, hwVars
<1>1. UartTypes'
  <2>1. Succ(last) \in Num /\ NextIndex(tx_head) \in Index
    BY NextPlace, Numbers DEF TxInv, UartTypes
  <2>2. ring' \in [Index -> Num] /\ tx_head' \in Index /\ last' \in Num /\ txie' \in BOOLEAN
    BY <2>1 DEF TxInv, UartTypes
  <2>3. pc' \in [Ctx -> Printed \cup {"idle", "flush", "suspend", "measure", "resume", "polled"}]
    BY DEF TxInv, UartTypes
  <2> QED
    BY <2>2, <2>3 DEF TxInv, UartTypes
<1>2. BootInv'
  BY DEF TxInv, UartTypes, BootInv, ModeInv, TellInv
<1>3. ModeInv'
  BY DEF TxInv, UartTypes, BootInv, ModeInv, TellInv
<1>4. QuietInv' /\ MoveInv' /\ TellInv'
  BY DEF TxInv, UartTypes, BootInv, ModeInv, QuietInv, MoveInv, TellInv
<1>5. WakeInv'
  BY FullRing, NextPlace DEF TxInv, UartTypes, BootInv, ModeInv, QuietInv, TellInv, WakeInv, Signal,
     NotFull
<1>6. RoomInv'
  BY NextPlace, FullRing DEF TxInv, UartTypes, BootInv, ModeInv, RoomInv, NotFull
<1> QED
  BY <1>1, <1>2, <1>3, <1>4, <1>5, <1>6 DEF TxInv

(* A writer puts its byte into the FIFO itself.                            *)
LEMMA TxRaw == ASSUME TxInv, NEW c \in Ctx, Raw(c) PROVE TxInv'
<1> USE DEF Raw, At, Goto, Runs, Done, Telling, Printed, Polled, Ctx, ringVars, hwVars
<1>1. UartTypes'
  BY NextPlace, Numbers, UartTxAssumption DEF TxInv, UartTypes
<1>2. BootInv'
  BY DEF TxInv, UartTypes, BootInv, ModeInv, TellInv
<1>3. ModeInv'
  BY DEF TxInv, UartTypes, BootInv, ModeInv, TellInv
<1>4. QuietInv' /\ MoveInv' /\ TellInv'
  BY DEF TxInv, UartTypes, BootInv, ModeInv, QuietInv, MoveInv, TellInv
<1>5. WakeInv'
  BY UartTxAssumption, SMTT(30) DEF TxInv, UartTypes, BootInv, ModeInv, QuietInv, TellInv, WakeInv, Signal
<1>6. RoomInv'
  BY NextPlace, FullRing DEF TxInv, UartTypes, BootInv, ModeInv, RoomInv, NotFull
<1> QED
  BY <1>1, <1>2, <1>3, <1>4, <1>5, <1>6 DEF TxInv

(* The parser copies what fits.                                            *)
LEMMA TxWrite == ASSUME TxInv, Write PROVE TxInv'
<1> USE DEF Write, At, Goto, Runs, Done, Telling, Printed, Polled, Ctx, ringVars, hwVars
<1>0. /\ tx_head' \in Index /\ NextIndex(tx_head') = tx_tail /\ tx_head' # tx_tail
  BY Filling, NextPlace DEF TxInv, UartTypes
<1>1. UartTypes'
  <2>1. last' \in Num /\ \A x \in Int : x % N \in Num
    <3>1. N \in Nat \ {0}
      BY UartTxAssumption
    <3>2. \A x \in Int : x % N \in Int /\ 0 <= x % N /\ x % N < N
      BY <3>1
    <3>3. \A x \in Int : x % N \in Num
      BY <3>1, <3>2 DEF Num
    <3>4. last + (RingSize - 1 - Used) \in Int
      <4>1. tx_head \in Index /\ tx_tail \in Index /\ last \in Nat /\ RingSize \in Nat
        BY Numbers, UartTxAssumption DEF TxInv, UartTypes
      <4>2. Used \in Nat
        BY <4>1, FullRing
      <4> QED
        BY <4>1, <4>2
    <3> QED
      BY <3>3, <3>4
  <2>2. ring' \in [Index -> Num]
    <3>1. \A i \in Index : (last + 1 + ((i - tx_head) % RingSize)) % N \in Num
      <4>1. RingSize \in Nat \ {0} /\ last \in Nat /\ tx_head \in Int /\ \A i \in Index : i \in Int
        BY Numbers, UartTxAssumption DEF TxInv, UartTypes, Index
      <4>2. \A i \in Index : (i - tx_head) % RingSize \in Int
        BY <4>1
      <4>3. \A i \in Index : last + 1 + ((i - tx_head) % RingSize) \in Int
        BY <4>1, <4>2
      <4> QED
        BY <2>1, <4>3
    <3> QED
      BY <3>1 DEF TxInv, UartTypes, Filled
  <2> QED
    BY <1>0, <2>1, <2>2 DEF TxInv, UartTypes
<1>2. BootInv'
  BY DEF TxInv, UartTypes, BootInv, ModeInv, TellInv
<1>3. ModeInv'
  BY DEF TxInv, UartTypes, BootInv, ModeInv, TellInv
<1>4. QuietInv' /\ MoveInv' /\ TellInv'
  BY DEF TxInv, UartTypes, BootInv, ModeInv, QuietInv, MoveInv, TellInv
<1>5. WakeInv'
  BY <1>0 DEF TxInv, UartTypes, BootInv, ModeInv, QuietInv, TellInv, WakeInv, Signal
<1>6. RoomInv'
  BY NextPlace, FullRing DEF TxInv, UartTypes, BootInv, ModeInv, RoomInv, NotFull
<1> QED
  BY <1>1, <1>2, <1>3, <1>4, <1>5, <1>6 DEF TxInv

(* The main loop prints, or the boot ends.                                 *)
LEMMA TxMain == ASSUME TxInv, MainPrints \/ EnableIrq PROVE TxInv'
<1> USE DEF MainPrints, EnableIrq, At, Goto, Runs, Done, Telling, Printed, Polled, Ctx, ringVars, hwVars
<1>1. UartTypes'
  BY NextPlace, Numbers, UartTxAssumption DEF TxInv, UartTypes
<1>2. BootInv'
  BY DEF TxInv, UartTypes, BootInv, ModeInv, TellInv
<1>3. ModeInv'
  BY DEF TxInv, UartTypes, BootInv, ModeInv, TellInv
<1>4. QuietInv' /\ MoveInv' /\ TellInv'
  BY DEF TxInv, UartTypes, BootInv, ModeInv, QuietInv, MoveInv, TellInv
<1>5. WakeInv'
  BY UartTxAssumption DEF TxInv, UartTypes, BootInv, ModeInv, QuietInv, TellInv, WakeInv, Signal
<1>6. RoomInv'
  BY NextPlace, FullRing DEF TxInv, UartTypes, BootInv, ModeInv, RoomInv, NotFull
<1> QED
  BY <1>1, <1>2, <1>3, <1>4, <1>5, <1>6 DEF TxInv

(* A command prints, or measures with the interrupt suspended.             *)
LEMMA TxQuiet == ASSUME TxInv, CommandPrints \/ QuietBegin \/ QuietFlushed \/ QuietSuspend \/ QuietPrints
                            \/ QuietResume \/ QuietEnd PROVE TxInv'
<1> USE DEF CommandPrints, QuietBegin, QuietFlushed, QuietSuspend, QuietPrints, QuietResume,
            QuietEnd, Flushed, At, Goto, Runs, Done, Telling, Printed, Polled, Ctx, ringVars, hwVars
<1>1. UartTypes'
  BY NextPlace, Numbers, UartTxAssumption DEF TxInv, UartTypes
<1>2. BootInv'
  BY DEF TxInv, UartTypes, BootInv, ModeInv, TellInv
<1>3. ModeInv'
  BY DEF TxInv, UartTypes, BootInv, ModeInv, TellInv
<1>4. QuietInv' /\ MoveInv' /\ TellInv'
  BY DEF TxInv, UartTypes, BootInv, ModeInv, QuietInv, MoveInv, TellInv
<1>5. WakeInv'
  BY UartTxAssumption DEF TxInv, UartTypes, BootInv, ModeInv, QuietInv, TellInv, WakeInv, Signal
<1>6. RoomInv'
  BY NextPlace, FullRing DEF TxInv, UartTypes, BootInv, ModeInv, RoomInv, NotFull
<1> QED
  BY <1>1, <1>2, <1>3, <1>4, <1>5, <1>6 DEF TxInv

(* A failure is told by polling.                                           *)
LEMMA TxFails == ASSUME TxInv, Fails \/ FailPolled PROVE TxInv'
<1> USE DEF Fails, FailPolled, At, Goto, Runs, Done, Telling, Printed, Polled, Ctx, ringVars, hwVars
<1>1. UartTypes'
  BY NextPlace, Numbers, UartTxAssumption, ZenonT(60) DEF TxInv, UartTypes
<1>2. BootInv'
  BY DEF TxInv, UartTypes, BootInv, ModeInv, TellInv
<1>3. ModeInv'
  BY DEF TxInv, UartTypes, BootInv, ModeInv, TellInv
<1>4. QuietInv' /\ MoveInv' /\ TellInv'
  BY DEF TxInv, UartTypes, BootInv, ModeInv, QuietInv, MoveInv, TellInv
<1>5. WakeInv'
  BY UartTxAssumption DEF TxInv, UartTypes, BootInv, ModeInv, QuietInv, TellInv, WakeInv, Signal
<1>6. RoomInv'
  BY NextPlace, FullRing DEF TxInv, UartTypes, BootInv, ModeInv, RoomInv, NotFull
<1> QED
  BY <1>1, <1>2, <1>3, <1>4, <1>5, <1>6 DEF TxInv

----------------------------------------------------------------------------
(* Every step of the console keeps the invariant.                          *)
LEMMA TxStep == TxInv /\ [Next]_vars => TxInv'
<1> SUFFICES ASSUME TxInv, [Next]_vars PROVE TxInv'
  OBVIOUS
<1>1. CASE UNCHANGED vars
  BY <1>1 DEF vars, ringVars, hwVars, TxInv, UartTypes, BootInv, ModeInv, QuietInv, MoveInv, TellInv,
          WakeInv, RoomInv, Signal, NotFull, Telling
<1>2. ASSUME NEW c \in Ctx, Writer(c) PROVE TxInv'
  BY <1>2, TxLook, TxMovePolled, TxCopy, TxRaw DEF Writer
<1>3. Next => TxInv'
  BY <1>2, TxShift, TxIsrEnter, TxIsrMove, TxIsrEnd, TxWrite, TxMain, TxQuiet, TxFails
     DEF Next, Isr, Command, Panic, Ctx
<1> QED
  BY <1>1, <1>3

(* The invariant holds in every state reached.                             *)
LEMMA TxSafety == Spec => []TxInv
  BY TxInitial, TxStep, PTL DEF Spec

(* While the interrupt mode is on, a ring with something in it has its     *)
(* enable set, and the flag is up or the FIFO will run empty and raise it  *)
(* (uart.c:146-156).                                                       *)
THEOREM WakeupNeverLost == Spec => []NoLostWakeup
<1>1. TxInv => NoLostWakeup
  BY DEF TxInv, WakeInv, Signal, Telling, NoLostWakeup
<1> QED
  BY <1>1, TxSafety, PTL

(* A measurement runs with the interrupt off and the ring out, wherever the*)
(* main loop was when the command came, and the FIFO is empty too as the   *)
(* polled mode begins (cli.c:185-193).                                     *)
THEOREM MeasurementsAreQuiet == Spec => []MeasuredInQuiet
<1>1. TxInv => MeasuredInQuiet
  BY DEF TxInv, BootInv, ModeInv, QuietInv, Telling, MeasuredInQuiet
<1> QED
  BY <1>1, TxSafety, PTL

(* A command, or a failure's report, never finds the ring full again after *)
(* it has seen room in it (uart.c:265; uart_putc()).                       *)
THEOREM RepliesAreWhole == Spec => CommandKeepsAll
<1>1. TxInv /\ [Next]_vars
      => [\A c \in {"cmd", "panic"} : pc[c] = "copy" /\ pc'[c] # "copy" => last' # last]_vars
  <2> SUFFICES ASSUME TxInv, Next, NEW c \in {"cmd", "panic"}, pc[c] = "copy", pc'[c] # "copy"
               PROVE  last' # last
    OBVIOUS
  <2>1. c = "cmd"
    BY DEF TxInv, TellInv, Telling
  <2>2. Copy("cmd")
    BY <2>1 DEF TxInv, UartTypes, Ctx, Telling, Next, Shift, Isr, IsrEnter, IsrMove, MoveByte, MoveEnd, IsrEnd,
         MainPrints, EnableIrq, Writer, LookIrq, LookPolled, MovePolled, RoomPolled, Put, Copy, Raw,
         CommandPrints, QuietBegin, Command, Write, QuietFlushed, QuietSuspend, QuietPrints,
         QuietResume, QuietEnd, Panic, Fails, FailPolled, At, Goto, Runs
  <2>3. ~Telling
    BY <2>2 DEF Copy, At, Runs, Telling
  <2>4. NotFull
    BY <2>1, <2>3 DEF TxInv, UartTypes, BootInv, ModeInv, RoomInv, Telling
  <2>5. last' = Succ(last) /\ Succ(last) # last
    BY <2>2, <2>4, FullRing, Numbers DEF TxInv, UartTypes, Copy
  <2> QED
    BY <2>5
<1> QED
  BY <1>1, TxSafety, PTL DEF Spec, CommandKeepsAll

----------------------------------------------------------------------------
(* The order of the bytes.  Front is where the byte to leave the ring next *)
(* stands, with what tx_move() has taken but not yet written to tx_tail.   *)
(* A trap may find it in the middle; fail() may not.                       *)
Front == IF isr = "move" THEN tail["isr"]
         ELSE IF pc["panic"] = "move" THEN tail["panic"] ELSE tx_tail
FailInv ==
  Telling => /\ isr = "idle"
             /\ pc["panic"] \in {"put", "raw"} => tx_tail = tx_head

Between(i, f, h) == IF f <= h THEN f <= i /\ i < h ELSE f <= i \/ i < h
RingInOrder(r, f, h, l) ==
  \A i \in Index : Between(i, f, h) =>
    IF NextIndex(i) = h THEN r[i] = l ELSE r[NextIndex(i)] = Succ(r[i])
FifoInOrder(q, s) ==
  /\ q # <<>> => q[1] = Succ(s)
  /\ \A k \in 1 .. (Len(q) - 1) : q[k + 1] = Succ(q[k])
LastOf(q, s) == IF q = <<>> THEN s ELSE q[Len(q)]
Joined(r, n, f, h, l) == IF f = h THEN n = l ELSE r[f] = Succ(n)

OrderInv ==
  /\ sent \in Num /\ FailInv /\ FifoInOrder(fifo, sent)
  /\ RingInOrder(ring, Front, tx_head, last)
  /\ Joined(ring, LastOf(fifo, sent), Front, tx_head, last)

(* A byte leaves the ring at its front.                                    *)
LEMMA RingAdvances ==
  ASSUME NEW r, NEW f \in Index, NEW h \in Index, NEW l, f # h, RingInOrder(r, f, h, l)
  PROVE  /\ RingInOrder(r, NextIndex(f), h, l)
         /\ Joined(r, r[f], NextIndex(f), h, l)
<1>1. Between(f, f, h)
  BY UartTxAssumption DEF Index, Between
<1>2. \A i \in Index : Between(i, NextIndex(f), h) => Between(i, f, h)
  BY UartTxAssumption DEF Index, Between, NextIndex
<1> QED
  BY <1>1, <1>2 DEF RingInOrder, Joined

(* A byte is written behind the last one.                                  *)
LEMMA RingGrows ==
  ASSUME NEW r \in [Index -> Num], NEW f \in Index, NEW h \in Index, NEW l \in Num, NEW n,
         NextIndex(h) # f, RingInOrder(r, f, h, l), Joined(r, n, f, h, l)
  PROVE  /\ RingInOrder([r EXCEPT ![h] = Succ(l)], f, NextIndex(h), Succ(l))
         /\ Joined([r EXCEPT ![h] = Succ(l)], n, f, NextIndex(h), Succ(l))
<1> DEFINE q == [r EXCEPT ![h] = Succ(l)]
<1>1. \A i \in Index : Between(i, f, NextIndex(h)) => i = h \/ Between(i, f, h)
  BY UartTxAssumption DEF Index, Between, NextIndex
<1>2. ~Between(h, f, h)
  BY UartTxAssumption DEF Index, Between
<1>3. q[h] = Succ(l) /\ \A i \in Index : i # h => q[i] = r[i]
  BY DEF Index
<1>4. ASSUME NEW i \in Index, Between(i, f, NextIndex(h))
      PROVE  IF NextIndex(i) = NextIndex(h) THEN q[i] = Succ(l) ELSE q[NextIndex(i)] = Succ(q[i])
  <2>1. CASE i = h
    BY <1>3, <2>1
  <2>2. CASE i # h
    <3>1. Between(i, f, h) /\ NextIndex(i) # NextIndex(h) /\ NextIndex(i) \in Index
      BY <1>1, <1>4, <2>2, NextPlace
    <3>2. IF NextIndex(i) = h THEN r[i] = l ELSE r[NextIndex(i)] = Succ(r[i])
      BY <3>1 DEF RingInOrder
    <3> QED
      BY <1>3, <2>2, <3>1, <3>2
  <2> QED
    BY <2>1, <2>2
<1>5. Joined(q, n, f, NextIndex(h), Succ(l))
  BY <1>3 DEF Joined
<1> QED
  BY <1>4, <1>5 DEF RingInOrder

(* A byte goes to the FIFO's end, or leaves at its beginning.              *)
LEMMA FifoGrows ==
  ASSUME NEW q \in Seq(Num), NEW s \in Num, NEW x \in Num, FifoInOrder(q, s),
         x = Succ(LastOf(q, s))
  PROVE  FifoInOrder(Append(q, x), s) /\ LastOf(Append(q, x), s) = x
<1> DEFINE a == Append(q, x)
<1>1. a \in Seq(Num) /\ Len(a) = Len(q) + 1 /\ Len(q) \in Nat /\ a # <<>>
  OBVIOUS
<1>2. a[Len(q) + 1] = x /\ \A k \in 1 .. Len(q) : a[k] = q[k]
  OBVIOUS
<1>3. LastOf(a, s) = x
  BY <1>1, <1>2 DEF LastOf
<1>4. CASE q = <<>>
  BY <1>1, <1>2, <1>3, <1>4 DEF FifoInOrder, LastOf
<1>5. CASE q # <<>>
  <2>1. Len(q) >= 1 /\ a[1] = q[1] /\ x = Succ(q[Len(q)])
    BY <1>1, <1>2, <1>5 DEF LastOf
  <2>2. ASSUME NEW k \in 1 .. (Len(a) - 1) PROVE a[k + 1] = Succ(a[k])
    <3>1. CASE k = Len(q)
      BY <1>1, <1>2, <2>1, <3>1
    <3>2. CASE k # Len(q)
      <4>1. k \in 1 .. (Len(q) - 1) /\ k \in 1 .. Len(q) /\ k + 1 \in 1 .. Len(q)
        BY <1>1, <3>2
      <4> QED
        BY <1>2, <4>1 DEF FifoInOrder
    <3> QED
      BY <3>1, <3>2
  <2> QED
    BY <1>1, <1>3, <1>5, <2>1, <2>2 DEF FifoInOrder
<1> QED
  BY <1>4, <1>5

(* The wire takes the FIFO's first byte: the rest stay in order after it.  *)
LEMMA FifoShifts ==
  ASSUME NEW q \in Seq(Num), NEW s \in Num, FifoInOrder(q, s), q # <<>>
  PROVE  /\ Head(q) = Succ(s) /\ Head(q) \in Num
         /\ FifoInOrder(Tail(q), Head(q))
         /\ LastOf(Tail(q), Head(q)) = LastOf(q, s)
<1>1. Head(q) = q[1] /\ Len(q) \in Nat /\ Len(q) >= 1 /\ Head(q) \in Num
  OBVIOUS
<1>4. Tail(q) \in Seq(Num) /\ Len(Tail(q)) = Len(q) - 1
  OBVIOUS
<1>5. \A k \in 1 .. (Len(q) - 1) : Tail(q)[k] = q[k + 1]
  OBVIOUS
<1>6. Tail(q) = <<>> <=> Len(q) = 1
  BY <1>1, <1>4
<1>2. FifoInOrder(Tail(q), Head(q))
  <2>1. \A k \in 1 .. (Len(Tail(q)) - 1) :
          k \in 1 .. (Len(q) - 1) /\ k + 1 \in 1 .. (Len(q) - 1)
    BY <1>1, <1>4
  <2>2. \A k \in 1 .. (Len(Tail(q)) - 1) : Tail(q)[k + 1] = Succ(Tail(q)[k])
    BY <1>1, <1>4, <1>5, <2>1 DEF FifoInOrder
  <2>3. Tail(q) # <<>> => Tail(q)[1] = Succ(Head(q))
    BY <1>1, <1>4, <1>5, <1>6 DEF FifoInOrder
  <2> QED
    BY <2>2, <2>3 DEF FifoInOrder
<1>3. LastOf(Tail(q), Head(q)) = LastOf(q, s)
  BY <1>1, <1>4, <1>5, <1>6 DEF LastOf
<1> QED
  BY <1>1, <1>2, <1>3 DEF FifoInOrder

(* How far round the ring a place is.                                      *)
Ahead(i, h) == IF i >= h THEN i - h ELSE i - h + RingSize

(* The distance from place h to place i, as the code's masked difference.  *)
LEMMA AheadIsRemainder ==
  ASSUME NEW i \in Index, NEW h \in Index
  PROVE  (i - h) % RingSize = Ahead(i, h) /\ Ahead(i, h) \in Nat
<1>1. RingSize \in Nat \ {0} /\ i \in Nat /\ i < RingSize /\ h \in Nat /\ h < RingSize
  BY UartTxAssumption DEF Index
<1>2. CASE i >= h
  <2>1. i - h \in Int /\ 0 <= i - h /\ i - h < RingSize
    BY <1>1, <1>2
  <2>2. (i - h) % RingSize = i - h
    BY <1>1, <2>1, Wrapped
  <2> QED
    BY <1>2, <2>1, <2>2 DEF Ahead
<1>3. CASE ~(i >= h)
  <2>1. i - h \in Int /\ -RingSize <= i - h /\ i - h < 0 /\ i - h + RingSize \in Nat
    BY <1>1, <1>3
  <2>2. (i - h) % RingSize = i - h + RingSize
    BY <1>1, <2>1, Wrapped
  <2> QED
    BY <1>3, <2>1, <2>2 DEF Ahead
<1> QED
  BY <1>2, <1>3

(* The numbers of the bytes written together.                              *)
LEMMA Successive ==
  ASSUME NEW l \in Num, NEW k \in Nat, k < RingSize
  PROVE  /\ (l + 1 + k) % N \in Num
         /\ (l + 1 + (k + 1)) % N = Succ((l + 1 + k) % N)
         /\ k = 0 => (l + 1 + k) % N = Succ(l)
<1>1. N \in Nat \ {0} /\ RingSize \in Nat /\ RingSize < N /\ l \in Nat /\ l < N
  BY UartTxAssumption DEF Num
<1>2. ASSUME NEW j \in Nat, j <= RingSize
      PROVE  /\ l + 1 + j < N => (l + 1 + j) % N = l + 1 + j
             /\ N <= l + 1 + j => (l + 1 + j) % N = (l + 1 + j) - N
  <2> DEFINE x == l + 1 + j
  <2>1. x \in Int /\ 0 <= x /\ x < 2 * N
    BY <1>1, <1>2
  <2> HIDE DEF x
  <2>2. x < N => x % N = x
    BY <1>1, <2>1, Wrapped
  <2>3. N <= x => x % N = x - N
    BY <1>1, <2>1, Wrapped
  <2> QED
    BY <2>2, <2>3 DEF x
<1>3. /\ l + 1 + k < N => (l + 1 + k) % N = l + 1 + k
      /\ N <= l + 1 + k => (l + 1 + k) % N = (l + 1 + k) - N
  BY <1>1, <1>2
<1>4. k + 1 \in Nat /\ k + 1 <= RingSize
  BY <1>1
<1>5. /\ l + 1 + (k + 1) < N => (l + 1 + (k + 1)) % N = l + 1 + (k + 1)
      /\ N <= l + 1 + (k + 1) => (l + 1 + (k + 1)) % N = (l + 1 + (k + 1)) - N
  BY <1>2, <1>4
<1> DEFINE a == (l + 1 + k) % N
           b == (l + 1 + (k + 1)) % N
<1>6. /\ l + 1 + k < N => a = l + 1 + k
      /\ N <= l + 1 + k => a = (l + 1 + k) - N
      /\ l + 1 + (k + 1) < N => b = l + 1 + (k + 1)
      /\ N <= l + 1 + (k + 1) => b = (l + 1 + (k + 1)) - N
  BY <1>3, <1>5
<1> HIDE DEF a, b
<1>7. a \in Num
  BY <1>1, <1>6 DEF Num
<1>8. b = Succ(a)
  <2>1. Succ(a) = IF a + 1 = N THEN 0 ELSE a + 1
    BY <1>7, Numbers
  <2> QED
    BY <1>1, <1>6, <2>1
<1>9. k = 0 => a = Succ(l)
  <2>1. Succ(l) = IF l + 1 = N THEN 0 ELSE l + 1
    BY Numbers
  <2> QED
    BY <1>1, <1>6, <2>1
<1> QED
  BY <1>7, <1>8, <1>9 DEF a, b

(* A ring filled up: the places between the old head and the new one, and  *)
(* those that were taken before.                                           *)
LEMMA AroundTheRing ==
  ASSUME NEW f \in Index, NEW h \in Index, NEW g \in Index, NEW n \in Nat, n > 0, NextIndex(g) = f,
         n = IF h >= f THEN RingSize - 1 - (h - f) ELSE f - h - 1
  PROVE  /\ Ahead(h, h) = 0 /\ h # g /\ f # g
         /\ \A i \in Index : i # g => (Ahead(i, h) < n <=> ~Between(i, f, h))
         /\ \A i \in Index : Between(i, f, g) => i # g
         /\ \A i \in Index : i # g /\ Ahead(i, h) < n =>
              IF NextIndex(i) = g THEN Ahead(i, h) + 1 = n
              ELSE Ahead(NextIndex(i), h) = Ahead(i, h) + 1 /\ Ahead(i, h) + 1 < n
         /\ \A i \in Index : i # g /\ ~(Ahead(i, h) < n) =>
              NextIndex(i) # g /\ (NextIndex(i) = h \/ ~(Ahead(NextIndex(i), h) < n))
<1>1. /\ RingSize \in Nat /\ RingSize >= 2 /\ f \in Nat /\ f < RingSize /\ h \in Nat /\ h < RingSize
      /\ g \in Nat /\ g < RingSize /\ \A i \in Index : i \in Nat /\ i < RingSize
  BY UartTxAssumption DEF Index
<1>2. g = IF f = 0 THEN RingSize - 1 ELSE f - 1
  BY <1>1 DEF NextIndex
<1>3. Ahead(h, h) = 0 /\ h # g /\ f # g
  BY <1>1, <1>2 DEF Ahead
<1>4. ASSUME NEW i \in Index, i # g PROVE Ahead(i, h) < n <=> ~Between(i, f, h)
  BY <1>1, <1>2, <1>4 DEF Ahead, Between
<1>5. ASSUME NEW i \in Index, Between(i, f, g) PROVE i # g
  BY <1>1, <1>2, <1>5 DEF Between
<1>6. ASSUME NEW i \in Index, i # g, Ahead(i, h) < n
      PROVE  IF NextIndex(i) = g THEN Ahead(i, h) + 1 = n
             ELSE Ahead(NextIndex(i), h) = Ahead(i, h) + 1 /\ Ahead(i, h) + 1 < n
  BY <1>1, <1>2, <1>6 DEF Ahead, NextIndex
<1>7. ASSUME NEW i \in Index, i # g, ~(Ahead(i, h) < n)
      PROVE  NextIndex(i) # g /\ (NextIndex(i) = h \/ ~(Ahead(NextIndex(i), h) < n))
  BY <1>1, <1>2, <1>7 DEF Ahead, NextIndex
<1> QED
  BY <1>3, <1>4, <1>5, <1>6, <1>7

(* What the parser copies goes on from the last byte, round the ring's end.*)
LEMMA RingFilled ==
  ASSUME tx_head \in Index, tx_tail \in Index, last \in Num, ring \in [Index -> Num],
         NEW n, n = RingSize - 1 - Used, n > 0, NEW m,
         RingInOrder(ring, tx_tail, tx_head, last), Joined(ring, m, tx_tail, tx_head, last)
  PROVE  /\ RingInOrder(Filled(n), tx_tail, (tx_head + n) % RingSize, (last + n) % N)
         /\ Joined(Filled(n), m, tx_tail, (tx_head + n) % RingSize, (last + n) % N)
<1> DEFINE g == (tx_head + n) % RingSize
           d(i) == Ahead(i, tx_head)
           new(k) == (last + 1 + k) % N
           q == Filled(n)
           z == (last + n) % N
<1>1. /\ n \in Nat /\ n < RingSize /\ g \in Index /\ NextIndex(g) = tx_tail
      /\ n = IF tx_head >= tx_tail THEN RingSize - 1 - (tx_head - tx_tail) ELSE tx_tail - tx_head - 1
  <2>1. n \in 0 .. (RingSize - 1) /\ RingSize \in Nat
    BY Filling, UartTxAssumption
  <2> QED
    BY <2>1, Filling
<1>2. \A i \in Index : q[i] = IF d(i) < n THEN new(d(i)) ELSE ring[i]
  BY AheadIsRemainder DEF Filled
<1>3. \A i \in Index : d(i) \in Nat
  BY AheadIsRemainder
<1>4. ASSUME NEW k \in Nat, k < n
      PROVE  /\ k + 1 < n => new(k + 1) = Succ(new(k))
             /\ k + 1 = n => new(k) = z
             /\ k = 0 => new(k) = Succ(last)
  <2>1. k < RingSize
    BY <1>1, <1>4, UartTxAssumption
  <2>2. k + 1 = n => last + 1 + k = last + n
    BY <1>1, Numbers
  <2> QED
    BY <2>1, <2>2, Successive
<1> HIDE DEF g, d, new, q, z
<1>5. /\ d(tx_head) = 0 /\ tx_head # g /\ tx_tail # g
      /\ \A i \in Index : i # g => (d(i) < n <=> ~Between(i, tx_tail, tx_head))
      /\ \A i \in Index : Between(i, tx_tail, g) => i # g
      /\ \A i \in Index : i # g /\ d(i) < n =>
           IF NextIndex(i) = g THEN d(i) + 1 = n ELSE d(NextIndex(i)) = d(i) + 1 /\ d(i) + 1 < n
      /\ \A i \in Index : i # g /\ ~(d(i) < n) =>
           NextIndex(i) # g /\ (NextIndex(i) = tx_head \/ ~(d(NextIndex(i)) < n))
  BY <1>1, AroundTheRing DEF d
<1>6. q[tx_head] = Succ(last)
  BY <1>1, <1>2, <1>4, <1>5
<1>7. ASSUME NEW i \in Index, Between(i, tx_tail, g)
      PROVE  IF NextIndex(i) = g THEN q[i] = z ELSE q[NextIndex(i)] = Succ(q[i])
  <2>1. i # g /\ NextIndex(i) \in Index /\ d(i) \in Nat
    BY <1>3, <1>5, <1>7, NextPlace
  <2>2. CASE d(i) < n
    BY <1>2, <1>4, <1>5, <2>1, <2>2
  <2>3. CASE ~(d(i) < n)
    <3>1. NextIndex(i) # g /\ q[i] = ring[i] /\ Between(i, tx_tail, tx_head)
      BY <1>2, <1>5, <2>1, <2>3
    <3>2. CASE NextIndex(i) = tx_head
      BY <1>6, <3>1, <3>2 DEF RingInOrder
    <3>3. CASE NextIndex(i) # tx_head
      <4>1. q[NextIndex(i)] = ring[NextIndex(i)]
        BY <1>2, <1>5, <2>1, <2>3, <3>3
      <4> QED
        BY <3>1, <3>3, <4>1 DEF RingInOrder
    <3> QED
      BY <3>2, <3>3
  <2> QED
    BY <2>2, <2>3
<1>8. Joined(q, m, tx_tail, g, z)
  <2>1. CASE tx_tail = tx_head
    BY <1>5, <1>6, <2>1 DEF Joined
  <2>2. CASE tx_tail # tx_head
    <3>1. Between(tx_tail, tx_tail, tx_head)
      BY <2>2, UartTxAssumption DEF Between, Index
    <3>2. q[tx_tail] = ring[tx_tail]
      BY <1>2, <1>5, <3>1
    <3> QED
      BY <1>5, <2>2, <3>2 DEF Joined
  <2> QED
    BY <2>1, <2>2
<1> QED
  BY <1>7, <1>8 DEF RingInOrder, q, g, z

----------------------------------------------------------------------------
(* The empty ring and FIFO are in order.                                   *)
LEMMA OrderInitial == Init => OrderInv
<1> SUFFICES ASSUME Init PROVE OrderInv
  OBVIOUS
<1>1. /\ fifo = <<>> /\ sent = 0 /\ last = 0 /\ tx_head = 0 /\ tx_tail = 0 /\ isr = "idle"
      /\ pc["panic"] = "idle"
  BY DEF Init, Ctx
<1>2. Front = 0 /\ FailInv
  BY <1>1 DEF Front, FailInv, Telling
<1>3. FifoInOrder(fifo, sent) /\ LastOf(fifo, sent) = 0
  <2>1. 1 .. (Len(fifo) - 1) = {}
    BY <1>1
  <2> QED
    BY <1>1, <2>1 DEF FifoInOrder, LastOf
<1>4. RingInOrder(ring, Front, tx_head, last)
  <2>1. \A i \in Index : ~Between(i, 0, 0)
    BY UartTxAssumption DEF Between, Index
  <2> QED
    BY <1>1, <1>2, <2>1 DEF RingInOrder
<1>5. Joined(ring, LastOf(fifo, sent), Front, tx_head, last)
  BY <1>1, <1>2, <1>3 DEF Joined
<1>6. sent \in Num
  BY <1>1, Numbers
<1> QED
  BY <1>2, <1>3, <1>4, <1>5, <1>6 DEF OrderInv

(* Steps that leave the bytes where they are.                              *)
LEMMA OrderSame ==
  ASSUME OrderInv, UNCHANGED <<ring, tx_head, fifo, sent, last>>, Front' = Front, FailInv'
  PROVE  OrderInv'
<1>1. FifoInOrder(fifo', sent') /\ LastOf(fifo', sent') = LastOf(fifo, sent) /\ sent' \in Num
  BY DEF OrderInv
<1>2. RingInOrder(ring', Front', tx_head', last')
  BY DEF OrderInv
<1>3. Joined(ring', LastOf(fifo', sent'), Front', tx_head', last')
  BY <1>1 DEF OrderInv
<1> QED
  BY <1>1, <1>2, <1>3 DEF OrderInv

(* A byte from the ring's front to the FIFO's end.                         *)
LEMMA OrderMove ==
  ASSUME TxInv, OrderInv, Front \in Index, Front # tx_head, fifo' = Append(fifo, ring[Front]),
         Front' = NextIndex(Front), UNCHANGED <<ring, tx_head, sent, last>>, FailInv'
  PROVE  OrderInv'
<1>1. /\ fifo \in Seq(Num) /\ sent \in Num /\ ring[Front] \in Num /\ tx_head \in Index
      /\ FifoInOrder(fifo, sent) /\ RingInOrder(ring, Front, tx_head, last)
      /\ ring[Front] = Succ(LastOf(fifo, sent))
  BY DEF TxInv, UartTypes, OrderInv, Joined
<1>2. FifoInOrder(fifo', sent) /\ LastOf(fifo', sent) = ring[Front]
  BY <1>1, FifoGrows
<1>3. RingInOrder(ring, Front', tx_head, last) /\ Joined(ring, ring[Front], Front', tx_head, last)
  BY <1>1, RingAdvances
<1> QED
  BY <1>1, <1>2, <1>3 DEF OrderInv

(* A byte goes out on the wire.                                            *)
LEMMA OrderShift == ASSUME TxInv, OrderInv, Shift PROVE OrderInv'
<1>1. /\ fifo # <<>> /\ sent' = Head(fifo) /\ fifo' = Tail(fifo) /\ fifo \in Seq(Num) /\ sent \in Num
      /\ UNCHANGED <<ring, tx_head, last, Front>> /\ FailInv'
  BY DEF Shift, TxInv, UartTypes, OrderInv, Front, FailInv, Telling, ringVars
<1>2. FifoInOrder(fifo', sent') /\ LastOf(fifo', sent') = LastOf(fifo, sent) /\ sent' \in Num
  BY <1>1, FifoShifts DEF OrderInv
<1> QED
  BY <1>1, <1>2 DEF OrderInv

(* The interrupt: its local copy of tx_tail is the front meanwhile.        *)
LEMMA OrderIsr == ASSUME TxInv, OrderInv, Isr PROVE OrderInv'
<1>1. ~Telling /\ FailInv'
  BY DEF Isr, IsrEnter, IsrMove, IsrEnd, MoveByte, MoveEnd, Telling, FailInv
<1>2. CASE IsrEnter
  <2>1. Front' = Front /\ UNCHANGED <<ring, tx_head, fifo, sent, last>>
    BY <1>1, <1>2 DEF IsrEnter, Front, Telling, TxInv, UartTypes, ringVars, Ctx
  <2> QED
    BY <1>1, <2>1, OrderSame
<1>3. CASE IsrMove /\ MoveByte("isr")
  <2>1. /\ Front = tail["isr"] /\ Front' = NextIndex(Front) /\ Front # tx_head /\ Front \in Index
        /\ fifo' = Append(fifo, ring[Front]) /\ UNCHANGED <<ring, tx_head, sent, last>>
    BY <1>3 DEF IsrMove, MoveByte, Front, TxInv, UartTypes, ringVars, Ctx
  <2> QED
    BY <1>1, <2>1, OrderMove
<1>4. CASE IsrMove /\ MoveEnd("isr") /\ isr' = "enable" /\ UNCHANGED pc
  <2>1. Front' = Front /\ UNCHANGED <<ring, tx_head, fifo, sent, last>>
    BY <1>1, <1>4 DEF IsrMove, MoveEnd, Front, Telling, hwVars
  <2> QED
    BY <1>1, <2>1, OrderSame
<1>5. CASE IsrEnd
  <2>1. Front' = Front /\ UNCHANGED <<ring, tx_head, fifo, sent, last>>
    BY <1>1, <1>5 DEF IsrEnd, Front, Telling, ringVars
  <2> QED
    BY <1>1, <2>1, OrderSame
<1> QED
  BY <1>2, <1>3, <1>4, <1>5 DEF Isr, IsrMove

(* Who prints by polling: a failure's report, or a context over an empty   *)
(* ring.                                                                   *)
LEMMA PolledOverEmptyRing ==
  ASSUME TxInv, OrderInv, NEW c \in Ctx, pc[c] \in Polled, Runs(c)
  PROVE  /\ isr = "idle"
         /\ c # "panic" => /\ ~Telling /\ Front = tx_tail /\ tx_tail = tx_head
                           /\ pc[c] = "move" => tail[c] = tx_tail
<1>1. CASE c = "panic"
  BY <1>1 DEF OrderInv, FailInv, Telling, Polled
<1>2. CASE c = "main"
  BY <1>2 DEF TxInv, BootInv, ModeInv, MoveInv, Runs, Telling, Front, Polled
<1>3. CASE c = "cmd"
  BY <1>3 DEF TxInv, BootInv, ModeInv, QuietInv, MoveInv, Runs, Telling, Front, Polled
<1> QED
  BY <1>1, <1>2, <1>3 DEF Ctx

(* Looking whether the ring is full, or empty, moves no byte.              *)
LEMMA OrderLook ==
  ASSUME TxInv, OrderInv, NEW c \in Ctx, LookIrq(c) \/ LookPolled(c) \/ RoomPolled(c) \/ Put(c)
  PROVE  OrderInv'
<1> USE DEF At, Goto, TxInv, UartTypes, Ctx, ringVars, hwVars
<1>1. UNCHANGED <<ring, tx_head, tx_tail, isr, fifo, sent, last>> /\ Runs(c)
  BY DEF LookIrq, LookPolled, RoomPolled, Put
<1>2. isr = "idle"
  BY <1>1 DEF Runs, OrderInv, FailInv, Telling, LookIrq, LookPolled, RoomPolled, Put
<1>3. CASE c = "panic"
  <2>1. pc["panic"] # "idle" /\ pc["panic"] # "move" /\ (pc["panic"] # "polled" => ~tx_irq_on)
    BY <1>3 DEF LookIrq, LookPolled, RoomPolled, Put, TellInv, Telling
  <2>2. pc'["panic"] = "move" => tail'["panic"] = tx_tail
    BY <1>3 DEF LookIrq, LookPolled, RoomPolled, Put
  <2>3. pc'["panic"] \in {"put", "raw"} => tx_tail = tx_head
    BY <1>3, <2>1 DEF LookIrq, LookPolled, RoomPolled, Put, OrderInv, FailInv, Telling, RingOut
  <2>4. Front' = Front /\ FailInv'
    BY <1>1, <1>2, <2>1, <2>2, <2>3 DEF Front, FailInv, Telling
  <2> QED
    BY <1>1, <2>4, OrderSame
<1>4. CASE c # "panic"
  <2>1. ~Telling /\ pc'["panic"] = pc["panic"]
    BY <1>1, <1>4 DEF Runs, Telling, LookIrq, LookPolled, RoomPolled, Put
  <2>2. Front' = Front /\ FailInv'
    BY <1>1, <1>2, <2>1 DEF Front, FailInv, Telling
  <2> QED
    BY <1>1, <2>2, OrderSame
<1> QED
  BY <1>3, <1>4

(* The polled tx_move() of a writer moves the front byte, or ends.         *)
LEMMA OrderMovePolled ==
  ASSUME TxInv, OrderInv, NEW c \in Ctx, MovePolled(c) PROVE OrderInv'
<1>1. isr = "idle" /\ pc[c] = "move" /\ Runs(c) /\ isr' = isr
  BY PolledOverEmptyRing DEF MovePolled, MoveByte, MoveEnd, At, Polled
<1>2. CASE c # "panic"
  <2>1. ~Telling /\ Front = tx_tail /\ tx_tail = tx_head /\ tail[c] = tx_tail
    BY <1>1, <1>2, PolledOverEmptyRing DEF Polled
  <2>2. MoveEnd(c) /\ Goto(c, "room")
    BY <2>1 DEF MovePolled, MoveByte
  <2>3. Front' = Front /\ UNCHANGED <<ring, tx_head, fifo, sent, last>> /\ FailInv'
    BY <1>1, <1>2, <2>1, <2>2 DEF MoveEnd, Goto, Front, FailInv, Telling, hwVars, TxInv, UartTypes, Ctx
  <2> QED
    BY <2>3, OrderSame
<1>3. CASE c = "panic" /\ MoveByte("panic")
  <2>1. /\ Front = tail["panic"] /\ Front' = NextIndex(Front) /\ Front # tx_head /\ Front \in Index
        /\ fifo' = Append(fifo, ring[Front]) /\ UNCHANGED <<ring, tx_head, sent, last>> /\ FailInv'
    BY <1>1, <1>3 DEF MoveByte, Front, FailInv, Telling, TxInv, UartTypes, ringVars, Ctx
  <2> QED
    BY <2>1, OrderMove
<1>4. CASE c = "panic" /\ MoveEnd("panic") /\ Goto("panic", "room")
  <2>1. Front' = Front /\ UNCHANGED <<ring, tx_head, fifo, sent, last>> /\ FailInv'
    BY <1>1, <1>4 DEF MoveEnd, Goto, Front, FailInv, Telling, hwVars, TxInv, UartTypes, Ctx
  <2> QED
    BY <2>1, OrderSame
<1> QED
  BY <1>2, <1>3, <1>4 DEF MovePolled

(* A byte into the ring, or none when it is full.                          *)
LEMMA OrderCopy == ASSUME TxInv, OrderInv, NEW c \in Ctx, Copy(c) PROVE OrderInv'
<1>1. c # "panic" /\ ~Telling /\ isr = "idle" /\ isr' = isr /\ pc'["panic"] = pc["panic"]
  BY DEF Copy, At, Goto, Runs, Telling, TxInv, TellInv, UartTypes, Ctx
<1>2. Front = tx_tail /\ Front' = tx_tail /\ FailInv' /\ UNCHANGED <<fifo, sent>>
  BY <1>1 DEF Copy, Front, FailInv, Telling
<1>3. CASE UNCHANGED <<ring, tx_head, last>>
  BY <1>2, <1>3, OrderSame
<1>4. CASE Used < RingSize - 1
  <2>1. /\ NextIndex(tx_head) # tx_tail /\ ring' = [ring EXCEPT ![tx_head] = Succ(last)]
        /\ tx_head' = NextIndex(tx_head) /\ last' = Succ(last)
        /\ ring \in [Index -> Num] /\ tx_head \in Index /\ tx_tail \in Index /\ last \in Num
    BY <1>4, FullRing DEF Copy, NotFull, TxInv, UartTypes
  <2>2. /\ RingInOrder(ring', tx_tail, tx_head', last')
        /\ Joined(ring', LastOf(fifo, sent), tx_tail, tx_head', last')
    BY <1>2, <2>1, RingGrows DEF OrderInv
  <2> QED
    BY <1>2, <2>2 DEF OrderInv
<1> QED
  BY <1>3, <1>4 DEF Copy

(* A byte into the FIFO itself: it follows the last one, the ring is out.  *)
LEMMA OrderRaw == ASSUME TxInv, OrderInv, NEW c \in Ctx, Raw(c) PROVE OrderInv'
<1>1. isr = "idle" /\ pc[c] = "raw" /\ Runs(c)
  BY PolledOverEmptyRing DEF Raw, At, Polled
<1>2. tx_tail = tx_head /\ Front = tx_head
  <2>1. CASE c = "panic"
    BY <1>1, <2>1 DEF OrderInv, FailInv, Telling, Front
  <2>2. CASE c # "panic"
    BY <1>1, <2>2, PolledOverEmptyRing DEF Polled
  <2> QED
    BY <2>1, <2>2
<1>3. Done(c) \notin {"move", "put", "raw"} /\ (c = "panic" => Done(c) = "full")
  BY DEF Done, Ctx
<1>4. /\ Front' = tx_head' /\ FailInv' /\ UNCHANGED <<ring, tx_head, sent>>
      /\ fifo' = Append(fifo, Succ(last)) /\ last' = Succ(last)
  <2>1. CASE c = "panic"
    BY <1>1, <1>2, <1>3, <2>1 DEF Raw, Goto, Front, FailInv, Telling, ringVars, TxInv, UartTypes, Ctx
  <2>2. CASE c # "panic"
    <3>1. ~Telling
      BY <1>1, <2>2, PolledOverEmptyRing DEF Polled
    <3> QED
      BY <1>1, <1>2, <2>2, <3>1 DEF Raw, Goto, Front, FailInv, Telling, ringVars, TxInv, UartTypes, Ctx
  <2> QED
    BY <2>1, <2>2
<1>5. LastOf(fifo, sent) = last /\ fifo \in Seq(Num) /\ sent \in Num /\ Succ(last) \in Num
  BY <1>2, Numbers DEF OrderInv, Joined, TxInv, UartTypes
<1>6. FifoInOrder(fifo', sent) /\ LastOf(fifo', sent) = last'
  BY <1>4, <1>5, FifoGrows DEF OrderInv
<1>7. RingInOrder(ring', Front', tx_head', last')
  <2>1. \A i \in Index : ~Between(i, tx_head, tx_head)
    BY DEF Between, Index, TxInv, UartTypes
  <2> QED
    BY <1>4, <2>1 DEF RingInOrder
<1> QED
  BY <1>4, <1>5, <1>6, <1>7 DEF OrderInv, Joined

(* cmd_parser_write() puts its bytes behind the ring's last.               *)
LEMMA OrderWrite == ASSUME TxInv, OrderInv, Write PROVE OrderInv'
<1>1. ~Telling /\ isr = "idle" /\ isr' = isr /\ pc'["panic"] = pc["panic"]
  BY DEF Write, At, Goto, Runs, Telling, TxInv, UartTypes, Ctx
<1>2. Front = tx_tail /\ Front' = tx_tail /\ FailInv' /\ UNCHANGED <<fifo, sent>>
  BY <1>1 DEF Write, Front, FailInv, Telling
<1> DEFINE n == RingSize - 1 - Used
<1>3. /\ n > 0 /\ ring' = Filled(n) /\ tx_head' = (tx_head + n) % RingSize /\ last' = (last + n) % N
  BY DEF Write
<1> HIDE DEF n
<1>4. /\ RingInOrder(ring', tx_tail, tx_head', last')
      /\ Joined(ring', LastOf(fifo, sent), tx_tail, tx_head', last')
  <2>1. /\ tx_head \in Index /\ tx_tail \in Index /\ last \in Num /\ ring \in [Index -> Num]
        /\ RingInOrder(ring, tx_tail, tx_head, last)
        /\ Joined(ring, LastOf(fifo, sent), tx_tail, tx_head, last)
    BY <1>2 DEF TxInv, UartTypes, OrderInv
  <2>2. n = RingSize - 1 - Used
    BY DEF n
  <2> QED
    BY <1>3, <2>1, <2>2, RingFilled
<1> QED
  BY <1>2, <1>4 DEF OrderInv

(* Everything else writes no byte and takes none.                          *)
LEMMA OrderOther ==
  ASSUME TxInv, OrderInv, Failure # "trap",
         \/ MainPrints \/ EnableIrq \/ CommandPrints \/ QuietBegin \/ QuietFlushed \/ QuietSuspend
         \/ QuietPrints \/ QuietResume \/ QuietEnd \/ Fails \/ FailPolled
  PROVE  OrderInv'
<1>1. UNCHANGED <<ring, tx_head, tx_tail, isr, tail, fifo, sent, last>>
  BY DEF MainPrints, EnableIrq, CommandPrints, QuietBegin, QuietFlushed, QuietSuspend, QuietPrints,
         QuietResume, QuietEnd, Fails, FailPolled, ringVars, hwVars
<1>2. CASE Fails
  BY <1>1, <1>2, OrderSame DEF Fails, Goto, Front, FailInv, Telling, TxInv, UartTypes, Ctx
<1>3. CASE FailPolled
  BY <1>1, <1>3, OrderSame DEF FailPolled, At, Goto, Front, OrderInv, FailInv, Telling, TxInv, UartTypes, Ctx
<1>4. CASE ~Fails /\ ~FailPolled
  <2>1. pc'["panic"] = pc["panic"]
    BY <1>4 DEF MainPrints, EnableIrq, CommandPrints, QuietBegin, QuietFlushed, QuietSuspend, QuietPrints,
         QuietResume, QuietEnd, Goto, TxInv, UartTypes, Ctx
  <2> QED
    BY <1>1, <2>1, OrderSame DEF Front, OrderInv, FailInv, Telling
<1> QED
  BY <1>2, <1>3, <1>4

(* Every step keeps the order, when no trap interrupts it.                 *)
LEMMA OrderStep ==
  ASSUME TxInv, OrderInv, Failure # "trap", [Next]_vars
  PROVE  OrderInv'
<1>1. CASE UNCHANGED vars
  BY <1>1, OrderSame DEF vars, ringVars, hwVars, Front, OrderInv, FailInv, Telling
<1>2. ASSUME NEW c \in Ctx, Writer(c) PROVE OrderInv'
  BY <1>2, OrderLook, OrderMovePolled, OrderCopy, OrderRaw DEF Writer
<1>3. Next => OrderInv'
  BY <1>2, OrderShift, OrderIsr, OrderWrite, OrderOther DEF Next, Command, Panic, Ctx
<1> QED
  BY <1>1, <1>3

(* The bytes leave in the order they were written, none twice and none     *)
(* left out, through every change between interrupt, polling, flush and    *)
(* fail() (uart.c:134-136, 241-243) - unless a trap strikes.               *)
THEOREM OrderIsKept == ASSUME Failure # "trap" PROVE Spec => InOrder
<1>1. TxInv /\ OrderInv /\ [Next]_vars => OrderInv'
  BY OrderStep
<1>2. TxInv /\ OrderInv /\ [Next]_vars => [sent' # sent => sent' = Succ(sent)]_vars
  <2> SUFFICES ASSUME TxInv, OrderInv, Next, sent' # sent PROVE sent' = Succ(sent)
    OBVIOUS
  <2>1. Shift
    BY DEF Next, Isr, IsrEnter, IsrMove, MoveByte, MoveEnd, IsrEnd, MainPrints, EnableIrq, Writer, LookIrq,
         LookPolled, MovePolled, RoomPolled, Put, Copy, Raw, CommandPrints, QuietBegin, Command, Write,
         QuietFlushed, QuietSuspend, QuietPrints, QuietResume, QuietEnd, Panic, Fails, FailPolled,
         hwVars
  <2> QED
    BY <2>1, FifoShifts DEF Shift, OrderInv, TxInv, UartTypes
<1> QED
  BY <1>1, <1>2, OrderInitial, TxSafety, PTL DEF Spec, InOrder
=============================================================================
