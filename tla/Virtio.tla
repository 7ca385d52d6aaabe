------------------------------- MODULE Virtio -------------------------------
(***************************************************************************)
(* net/virtio.rs: the split rings of the legacy virtio-net device, as the  *)
(* boot sequence uses them: init_tx_queue, send_test_frame, init_rx_queue, *)
(* receive_test_frame.  The driver publishes descriptors in an available   *)
(* ring, the device takes them concurrently and reports them in a used     *)
(* ring.  Every order of memory accesses that the device can tell apart is *)
(* a step of `Boot`; a reply may come before the step after the            *)
(* notification, as the in-process network of QEMU does.                   *)
(***************************************************************************)
EXTENDS Integers, Sequences

CONSTANTS
  QueueNums,   (* queue sizes a device may report (256 in QEMU)            *)
  MaxForeign   (* bound on the frames nobody asked for                     *)

VRING_ALIGN == 4096
FRAME_SIZE  == 4096

(* What is assumed of them; the instance in MCNet evaluates it.            *)
(* ARP_DESC_INDEX is 1: a queue of one descriptor is out of its range.     *)
Assumptions == QueueNums \subseteq Nat \ {0, 1} /\ MaxForeign \in Nat

VARIABLES
  pc,        (* index in Boot of the next step                             *)
  tx, rx,    (* the two queues                                             *)
  desc,      (* frames the TX descriptors point to                         *)
  kicked,    (* the TX queue has been notified                             *)
  buf,       (* the buffer of RX descriptor 0                              *)
  txBefore,  (* tx_used_idx_before                                         *)
  before,    (* used_idx_before of the RX queue                            *)
  len,       (* received_len                                               *)
  result,    (* what receive_test_frame returns                            *)
  owed,      (* the gateway has an ARP request to answer                   *)
  foreign,   (* frames nobody asked for so far                             *)
  wire,      (* history: frames the device sent                            *)
  stored,    (* history: frames the device stored                          *)
  lost       (* history: a reply the device had no descriptor for          *)

driverVars == <<pc, desc, txBefore, before, len, result>>
netVars    == <<owed, foreign>>
histVars   == <<wire, stored, lost>>
vars == <<driverVars, tx, rx, kicked, buf, netVars, histVars>>

-----------------------------------------------------------------------------
(* Ring memory: descriptors, available ring, padding, used ring. *)

DivCeil(a, b) == (a + b - 1) \div b

VringSize(num, align) ==
  DivCeil(16 * num + 2 * (num + 3), align) * align + 2 * 3 + 8 * num

VringOffsets(num, align) ==
  [desc |-> 0, avail |-> 16 * num, used |-> DivCeil(16 * num + 2 * (num + 3), align) * align]

(* A queue without memory, and one whose zeroed memory the device has. *)
NoQueue == [num |-> 0, frames |-> 0, ring |-> <<>>, avail |-> 0, used |-> 0,
            elems |-> <<>>, seen |-> 0]
FreshQueue(num) ==
  [NoQueue EXCEPT !.num = num, !.frames = DivCeil(VringSize(num, VRING_ALIGN), FRAME_SIZE)]

Live(q) == q.num > 0

(* Unwritten slots of the zeroed ring name descriptor 0. *)
Slot(q, i) == LET s == i % q.num IN IF s \in DOMAIN q.ring THEN q.ring[s] ELSE 0

(* Memory m once v has been written at i. *)
Written(m, i, v) == [j \in DOMAIN m \cup {i} |-> IF j = i THEN v ELSE m[j]]

(* The two halves of a publication. *)
PutSlot(q, d) == [q EXCEPT !.ring = Written(q.ring, q.avail % q.num, d)]
BumpIndex(q)  == [q EXCEPT !.avail = @ + 1]

(* The device has taken the next entry and reports it. *)
Complete(q, f) ==
  [q EXCEPT !.seen = @ + 1, !.used = @ + 1, !.elems = Written(q.elems, q.used % q.num, f)]

-----------------------------------------------------------------------------
(* Frames: what the parser tells apart. *)

Reply  == [arp |-> TRUE, short |-> FALSE]
Others == {[arp |-> FALSE, short |-> s] : s \in BOOLEAN}
Zero   == [arp |-> FALSE, short |-> TRUE]
None   == [status |-> "none", isReply |-> FALSE, ip |-> Zero]

(* Slip: the order of Fase 78, the sample after the request. *)
BootSampleLate == <<"initTx",
          "fillTest", "slotTest", "indexTest", "sampleTest", "notifyTest", "spinTest",
          "initRx", "slotRx", "indexRx",
          "clear", "slotRearm", "indexRearm",
          "fillArp", "slotArp", "indexArp", "sampleArp", "notifyArp", "spinArp", "sample",
          "poll", "length", "parse", "address">>

(***************************************************************************)
(* The accesses in program order.  Fase 78 put the re-arming before the    *)
(* request, Fase 82 the sample of the used index.                          *)
(***************************************************************************)
Boot == <<"initTx",
          "fillTest", "slotTest", "indexTest", "sampleTest", "notifyTest", "spinTest",
          "initRx", "slotRx", "indexRx",
          "clear", "slotRearm", "indexRearm", "sample",
          "fillArp", "slotArp", "indexArp", "sampleArp", "notifyArp", "spinArp",
          "poll", "length", "parse", "address">>

End == Len(Boot) + 1
At(s) == pc < End /\ Boot[pc] = s
Advance == pc' = pc + 1

(* Slip: the descriptor of the test frame, which may still be in flight. *)
ArpDescReused == 0

ARP_DESC_INDEX == 1

Init ==
  /\ pc = 1
  /\ tx = NoQueue /\ rx = NoQueue
  /\ desc = <<>>
  /\ kicked = FALSE
  /\ buf = Zero
  /\ txBefore = 0 /\ before = 0
  /\ len = Zero
  /\ result = None
  /\ owed = FALSE
  /\ foreign = 0
  /\ wire = <<>> /\ stored = <<>>
  /\ lost = FALSE

-----------------------------------------------------------------------------
(* init_tx_queue, init_rx_queue.                                           *)

InitTxQueue ==
  /\ At("initTx") /\ Advance
  /\ \E n \in QueueNums : tx' = FreshQueue(n)
  /\ UNCHANGED <<desc, txBefore, before, len, result, rx, kicked, buf, netVars, histVars>>

InitRxQueue ==
  /\ At("initRx") /\ Advance
  /\ \E n \in QueueNums : rx' = FreshQueue(n)
  /\ buf' = Zero
  /\ UNCHANGED <<desc, txBefore, before, len, result, tx, kicked, netVars, histVars>>

(* No such device or queue, or frames that are not contiguous: the boot    *)
(* sequence goes on without the rest.                                      *)
InitFails ==
  /\ At("initTx") \/ At("initRx")
  /\ pc' = End
  /\ UNCHANGED <<desc, txBefore, before, len, result, tx, rx, kicked, buf, netVars, histVars>>

(* Writing a TX descriptor. *)
Fill(d, f) ==
  /\ Advance
  /\ desc' = Written(desc, d, f)
  /\ UNCHANGED <<txBefore, before, len, result, tx, rx, kicked, buf, netVars, histVars>>

FillTest == At("fillTest") /\ Fill(0, "test")
FillArp  == At("fillArp") /\ Fill(ARP_DESC_INDEX, "arp")

(* Writing a slot, then the index, of the TX queue's available ring. *)
PublishTx(slot, index, d) ==
  /\ \/ At(slot)  /\ tx' = PutSlot(tx, d)
     \/ At(index) /\ tx' = BumpIndex(tx)
  /\ Advance
  /\ UNCHANGED <<desc, txBefore, before, len, result, rx, kicked, buf, netVars, histVars>>

PublishTest == PublishTx("slotTest", "indexTest", 0)
PublishArp  == PublishTx("slotArp", "indexArp", ARP_DESC_INDEX)

(* The same for RX descriptor 0, the only one with a buffer. *)
PublishRx ==
  /\ \/ (At("slotRx") \/ At("slotRearm"))   /\ rx' = PutSlot(rx, 0)
     \/ (At("indexRx") \/ At("indexRearm")) /\ rx' = BumpIndex(rx)
  /\ Advance
  /\ UNCHANGED <<desc, txBefore, before, len, result, tx, kicked, buf, netVars, histVars>>

ClearBuffer ==
  /\ At("clear") /\ Advance
  /\ buf' = Zero
  /\ UNCHANGED <<desc, txBefore, before, len, result, tx, rx, kicked, netVars, histVars>>

SampleTx ==
  /\ At("sampleTest") \/ At("sampleArp")
  /\ Advance
  /\ txBefore' = tx.used
  /\ UNCHANGED <<desc, before, len, result, tx, rx, kicked, buf, netVars, histVars>>

Sample ==
  /\ At("sample") /\ Advance
  /\ before' = rx.used
  /\ UNCHANGED <<desc, txBefore, len, result, tx, rx, kicked, buf, netVars, histVars>>

Notify ==
  /\ At("notifyTest") \/ At("notifyArp")
  /\ Advance
  /\ kicked' = TRUE
  /\ UNCHANGED <<desc, txBefore, before, len, result, tx, rx, buf, netVars, histVars>>

(* send_test_frame returns Ok also when its million looks were not enough. *)
SpinTest ==
  /\ At("spinTest") /\ Advance
  /\ UNCHANGED <<desc, txBefore, before, len, result, tx, rx, kicked, buf, netVars, histVars>>

SpinArp ==
  /\ At("spinArp")
  /\ \/ tx.used # txBefore /\ Advance /\ UNCHANGED result
     \/ tx.used = txBefore /\ pc' = End /\ result' = [None EXCEPT !.status = "unsent"]
  /\ UNCHANGED <<desc, txBefore, before, len, tx, rx, kicked, buf, netVars, histVars>>

(* The loop sees the used index move, or its 90 ticks are over. *)
Poll ==
  /\ At("poll")
  /\ \/ rx.used # before /\ Advance /\ UNCHANGED result
     \/ rx.used = before /\ pc' = End /\ result' = [None EXCEPT !.status = "timeout"]
  /\ UNCHANGED <<desc, txBefore, before, len, tx, rx, kicked, buf, netVars, histVars>>

(* The length is always that of the used ring's first element. *)
ReadLength ==
  /\ At("length") /\ Advance
  /\ len' = IF 0 \in DOMAIN rx.elems THEN rx.elems[0] ELSE Zero
  /\ UNCHANGED <<desc, txBefore, before, result, tx, rx, kicked, buf, netVars, histVars>>

Parse ==
  /\ At("parse") /\ Advance
  /\ result' = [None EXCEPT !.status = "ok", !.isReply = ~len.short /\ buf.arp]
  /\ UNCHANGED <<desc, txBefore, before, len, tx, rx, kicked, buf, netVars, histVars>>

ReadAddress ==
  /\ At("address") /\ Advance
  /\ result' = [result EXCEPT !.ip = IF len.short THEN Zero ELSE buf]
  /\ UNCHANGED <<desc, txBefore, before, len, tx, rx, kicked, buf, netVars, histVars>>

-----------------------------------------------------------------------------
(* The device and the network (external). *)

DeviceSends ==
  /\ kicked /\ tx.seen < tx.avail
  /\ LET f == desc[Slot(tx, tx.seen)]
     IN  /\ wire' = Append(wire, f)
         /\ tx' = Complete(tx, f)
         /\ owed' = (owed \/ f = "arp")
  /\ UNCHANGED <<driverVars, rx, kicked, buf, foreign, stored, lost>>

Receive(f) ==
  \/ /\ rx.seen < rx.avail
     /\ buf' = f
     /\ rx' = Complete(rx, f)
     /\ stored' = Append(stored, f)
     /\ UNCHANGED lost
  \/ /\ rx.seen = rx.avail
     /\ lost' = (lost \/ f = Reply)
     /\ UNCHANGED <<buf, rx, stored>>

ReplyArrives ==
  /\ owed /\ owed' = FALSE
  /\ Receive(Reply)
  /\ UNCHANGED <<driverVars, tx, kicked, foreign, wire>>

ForeignArrives ==
  /\ Live(rx) /\ foreign < MaxForeign
  /\ foreign' = foreign + 1
  /\ \E f \in Others : Receive(f)
  /\ UNCHANGED <<driverVars, tx, kicked, owed, wire>>

Driver ==
  \/ InitTxQueue \/ InitRxQueue \/ InitFails
  \/ FillTest \/ FillArp \/ PublishTest \/ PublishArp \/ PublishRx
  \/ ClearBuffer \/ SampleTx \/ Sample \/ Notify \/ SpinTest \/ SpinArp
  \/ Poll \/ ReadLength \/ Parse \/ ReadAddress

Next == Driver \/ DeviceSends \/ ReplyArrives \/ ForeignArrives

Spec == Init /\ [][Next]_vars

-----------------------------------------------------------------------------
QueueOK(q) ==
  /\ q.num \in QueueNums \cup {0}
  /\ q.seen \in 0 .. q.avail /\ q.used = q.seen
  /\ q.avail \in 0 .. q.num

TypeOK ==
  /\ pc \in 1 .. End
  /\ QueueOK(tx) /\ QueueOK(rx)
  /\ buf \in {Reply, Zero} \cup Others
  /\ result.status \in {"none", "unsent", "timeout", "ok"}

(* The memory given to a queue of n descriptors holds its three parts, one *)
(* behind the other.                                                       *)
RingsFit(n) ==
  LET o == VringOffsets(n, VRING_ALIGN)
  IN  /\ o.desc + 16 * n <= o.avail
      /\ o.avail + 2 * (n + 3) <= o.used
      /\ o.used + 2 * 3 + 8 * n <= FreshQueue(n).frames * FRAME_SIZE

(***************************************************************************)
(* Whatever the device's delay, it sends the two frames once each, in      *)
(* order and as written: the slot is written before the index, and         *)
(* receive_test_frame writes a descriptor that no frame in flight uses.    *)
(***************************************************************************)
FramesSentIntact == wire \in {<<>>, <<"test">>, <<"test", "arp">>}

(***************************************************************************)
(* The reply is not missed.  It finds a descriptor (Fase 78): it is        *)
(* dropped only if two other frames, one for each publication of           *)
(* descriptor 0, came first.  The wait cannot sleep through it (Fase 82):  *)
(* once it is in the buffer the loop sees the index moved.  And when       *)
(* nothing else came in, the call reports the reply and its sender.        *)
(***************************************************************************)
ReplyNotMissed ==
  /\ lost => \E i, j \in DOMAIN stored : i # j /\ stored[i] # Reply /\ stored[j] # Reply
  /\ At("poll") /\ Reply \in {stored[i] : i \in DOMAIN stored} => rx.used # before
  /\ pc = End /\ result.status = "ok" /\ stored = <<Reply>> =>
       result.isReply /\ result.ip = Reply

=============================================================================
