----------------------------- MODULE NetProofs -----------------------------
(***************************************************************************)
(* Proofs about the network drivers.  E1000: for any hosts, names, calls,  *)
(* ring size and traffic, a client misses its answer only when another     *)
(* frame took the slot, and what it returns came in on its own ring, from  *)
(* the host it asked.  Virtio: for any queue sizes and traffic, the rings  *)
(* carry the two frames intact and the reply is not missed.  TcpEcho: for  *)
(* any payload, initial sequence numbers and number of receive slots, the  *)
(* peer accepts every segment and what is returned was sent.               *)
(***************************************************************************)
EXTENDS MCNet, TLAPS

-----------------------------------------------------------------------------
(* The inductive invariant of E1000. *)

Arming == {"base", "head", "tail", "post"}
Armed  == {"look", "rearm", "clock", "halt"}

(* The call in progress. *)
InCall ==
  /\ pc \in Arming \cup Armed \cup {"idle"}
  /\ phase \in {"arp", "main"}
  /\ call.id \in Nat
  /\ pc # "idle" => call.op \in AllOps /\ result = Idle
  /\ phase = "arp" => call.op # "netcheck"

(* A request on the TX ring, or an answer to it, is of this call or an     *)
(* earlier one, and never of a later part of this call.                    *)
AskedOnly(kind, id) ==
  /\ id \in Nat /\ id <= call.id
  /\ id = call.id /\ phase = "arp" => kind = "arp"
  /\ id = call.id /\ pc \in Arming => phase = "main" /\ kind = "arp" /\ call.op \notin {"netcheck", "arp"}

NothingEarly ==
  /\ \A r \in txq  : r.kind \in {"arp", "ping", "syn", "dns"} /\ AskedOnly(r.kind, r.id)
  /\ \A f \in wire : AskedOnly(f.kind, f.call)

(* Descriptor 0 is the NIC's until it has stored a frame. *)
RingReady ==
  /\ ring = [i \in Slots |-> ring[i]]
  /\ \A i \in Slots : ring[i].st = "done" => ring[i].frame \in heard
  /\ pc \in (Arming \ {"base"}) \cup Armed => ring[0].st # "null"
  /\ pc \in {"tail", "post"} \cup Armed /\ heard = {} => rdh = 0
  /\ pc \in {"post"} \cup Armed => rdt = 1 /\ rctl = TRUE

IInv == InCall /\ NothingEarly /\ RingReady /\ OnlyCrowdedOut /\ AnswerIsFresh /\ AnswerFromTarget

-----------------------------------------------------------------------------
(* Kinds of answers. *)

LEMMA AnswerKinds ==
  ASSUME NEW r, r.kind \in {"arp", "ping", "syn", "dns"}, NEW f \in Answers(r)
  PROVE  /\ f.call = r.id
         /\ f.kind = "arp" <=> r.kind = "arp"
         /\ f.kind # "junk"
BY DEF Answers, Answer

LEMMA RequestKinds ==
  ASSUME InCall, pc # "idle"
  PROVE  /\ Request.id = call.id
         /\ Request.kind \in {"arp", "ping", "syn", "dns"}
         /\ Request.kind = "arp" <=> phase = "arp" \/ call.op \in {"netcheck", "arp"}
<1>1. call.op \in AllOps
  BY DEF InCall
<1> QED BY <1>1 DEF Request, To, ArpRequest, EchoRequest, SynRequest, DnsRequest, AllOps

-----------------------------------------------------------------------------
LEMMA InitIInv == ASSUME Init PROVE IInv
<1>1. InCall
  BY DEF Init, InCall, NoCall
<1>2. NothingEarly
  BY DEF Init, NothingEarly
<1>3. RingReady
  <2>1. \E R : ring = [i \in Slots |-> R[i]] /\ \A i \in Slots : R[i].st # "done"
    <3>1. CASE ring = [i \in Slots |-> Null]
      BY <3>1 DEF Null
    <3>2. CASE ring = [i \in Slots |-> IF i < RingSize - 1 THEN Posted ELSE Null]
      BY <3>2 DEF Null, Posted
    <3> QED BY <3>1, <3>2 DEF Init
  <2>2. ring = [i \in Slots |-> ring[i]] /\ \A i \in Slots : ring[i].st # "done"
    BY <2>1
  <2> QED BY <2>2 DEF Init, RingReady, Arming, Armed
<1>4. OnlyCrowdedOut /\ AnswerIsFresh /\ AnswerFromTarget
  BY DEF Init, OnlyCrowdedOut, AnswerIsFresh, AnswerFromTarget, Idle
<1> QED BY <1>1, <1>2, <1>3, <1>4 DEF IInv

-----------------------------------------------------------------------------
(* The client. *)

LEMMA RefusedIInv ==
  ASSUME IInv, NEW op \in Ops, NEW c \in Callers, CallRefused(op, c)
  PROVE  IInv'
<1>1. pc = "idle" /\ pc' = "idle" /\ call'.id = call.id + 1 /\ call'.op = op /\ op # "netcheck" /\ UNCHANGED phase
  BY DEF CallRefused
<1>2. InCall'
  BY <1>1 DEF IInv, InCall
<1>3. NothingEarly'
  BY <1>1 DEF IInv, InCall, NothingEarly, AskedOnly, CallRefused, nicVars, netVars, Arming
<1>4. RingReady'
  BY DEF IInv, RingReady, CallRefused, nicVars, histVars
<1>5. OnlyCrowdedOut' /\ AnswerIsFresh' /\ AnswerFromTarget'
  BY DEF IInv, OnlyCrowdedOut, AnswerIsFresh, AnswerFromTarget, CallRefused, histVars
<1> QED BY <1>2, <1>3, <1>4, <1>5 DEF IInv

LEMMA CallIInv ==
  ASSUME IInv, NEW op \in Ops, NEW c \in Callers, NEW h \in Hosts, NEW n \in Names, Call(op, c, h, n)
  PROVE  IInv'
<1>1. /\ pc = "idle" /\ pc' = "base" /\ call'.id = call.id + 1 /\ call'.op = op /\ result' = Idle
      /\ phase' = IF op = "netcheck" THEN "main" ELSE "arp"
  BY DEF Call
<1>2. InCall'
  BY <1>1, OpsAssumption DEF IInv, InCall, Arming
<1>3. NothingEarly'
  BY <1>1 DEF IInv, InCall, NothingEarly, AskedOnly, Call, nicVars, netVars
<1>4. RingReady'
  BY <1>1 DEF IInv, RingReady, Call, nicVars, histVars, Arming, Armed
<1>5. OnlyCrowdedOut' /\ AnswerIsFresh' /\ AnswerFromTarget'
  BY DEF IInv, OnlyCrowdedOut, AnswerIsFresh, AnswerFromTarget, Call, histVars, Idle
<1> QED BY <1>2, <1>3, <1>4, <1>5 DEF IInv

(* Steps of a call that leave its requests and its result alone. *)
LEMMA MidCall ==
  ASSUME IInv, pc # "idle", pc' \in Arming \cup Armed, UNCHANGED <<call, phase, result, txq, wire>>,
         pc' \in Arming => pc \in Arming
  PROVE  InCall' /\ NothingEarly' /\ AnswerIsFresh' /\ AnswerFromTarget'
<1>1. InCall'
  BY DEF IInv, InCall, Arming, Armed
<1>2. NothingEarly'
  BY DEF IInv, NothingEarly, AskedOnly
<1>3. result = Idle
  BY DEF IInv, InCall
<1>4. AnswerIsFresh' /\ AnswerFromTarget'
  BY <1>3 DEF AnswerIsFresh, AnswerFromTarget, Idle
<1> QED BY <1>1, <1>2, <1>4

LEMMA SetBaseIInv == ASSUME IInv, SetBase PROVE IInv'
<1>1. InCall' /\ NothingEarly' /\ AnswerIsFresh' /\ AnswerFromTarget'
  BY MidCall DEF SetBase, Arming, Armed, netVars
<1>2. RingReady'
  <2>1. ring' = [i \in Slots |-> IF i = 0 THEN Posted ELSE Null] /\ pc' = "head" /\ 0 \in Slots
    BY RingSizeAssumption DEF SetBase, FreshRing, Slots
  <2> QED BY <2>1 DEF RingReady, Arming, Armed, Posted, Null
<1>3. OnlyCrowdedOut'
  BY DEF SetBase, OnlyCrowdedOut
<1> QED BY <1>1, <1>2, <1>3 DEF IInv

LEMMA SetHeadIInv == ASSUME IInv, SetHead PROVE IInv'
<1>1. InCall' /\ NothingEarly' /\ AnswerIsFresh' /\ AnswerFromTarget'
  BY MidCall DEF SetHead, Arming, Armed, netVars
<1>2. RingReady'
  BY DEF SetHead, IInv, RingReady, Arming, Armed, histVars
<1>3. OnlyCrowdedOut'
  BY DEF SetHead, IInv, OnlyCrowdedOut, histVars
<1> QED BY <1>1, <1>2, <1>3 DEF IInv

LEMMA SetTailIInv == ASSUME IInv, SetTail PROVE IInv'
<1>1. InCall' /\ NothingEarly' /\ AnswerIsFresh' /\ AnswerFromTarget'
  BY MidCall DEF SetTail, Arming, Armed, netVars
<1>2. RingReady'
  BY DEF SetTail, IInv, RingReady, Arming, Armed, histVars
<1>3. OnlyCrowdedOut'
  BY DEF SetTail, IInv, OnlyCrowdedOut, histVars
<1> QED BY <1>1, <1>2, <1>3 DEF IInv

LEMMA PostIInv == ASSUME IInv, Post PROVE IInv'
<1>1. pc = "post" /\ pc' = "look" /\ UNCHANGED <<call, phase, result, wire, ring, rdh, rdt, rctl, heard, missed>>
  BY DEF Post, BeginWait, netVars, histVars
<1>2. InCall'
  BY <1>1 DEF IInv, InCall, Arming, Armed
<1>3. NothingEarly'
  <2>1. /\ Request.id = call.id /\ (phase = "arp" => Request.kind = "arp") /\ call.id \in Nat
        /\ Request.kind \in {"arp", "ping", "syn", "dns"}
    BY <1>1, RequestKinds DEF IInv, InCall
  <2>2. txq' = {Request}
    BY DEF Post
  <2> QED BY <1>1, <2>1, <2>2 DEF IInv, NothingEarly, AskedOnly, Arming
<1>4. RingReady'
  BY <1>1 DEF IInv, RingReady, Arming, Armed
<1>5. OnlyCrowdedOut' /\ AnswerIsFresh' /\ AnswerFromTarget'
  BY <1>1 DEF IInv, OnlyCrowdedOut, AnswerIsFresh, AnswerFromTarget
<1> QED BY <1>2, <1>3, <1>4, <1>5 DEF IInv

LEMMA LookTxIInv == ASSUME IInv, LookTx PROVE IInv'
<1>1. pc = "look" /\ pc' \in {"look", "clock"} /\ UNCHANGED <<call, phase, result, nicVars, netVars, histVars>>
  BY DEF LookTx, BeginWait
<1>2. InCall' /\ NothingEarly' /\ AnswerIsFresh' /\ AnswerFromTarget'
  BY <1>1, MidCall DEF Arming, Armed, nicVars, netVars
<1>3. RingReady' /\ OnlyCrowdedOut'
  BY <1>1 DEF IInv, RingReady, OnlyCrowdedOut, Arming, Armed, nicVars, histVars
<1> QED BY <1>2, <1>3 DEF IInv

(* The end of a call: what it returns was heard, from the host it asked. *)
LEMMA ReturnIInv ==
  ASSUME IInv, pc \in Armed, NEW status, NEW f, Return(status, f), UNCHANGED <<nicVars, netVars, histVars>>,
         f # NoFrame => f \in heard,
         status = "ok" /\ f # NoFrame /\ call.op # "netcheck" => f.src = call.host
  PROVE  IInv'
<1>1. pc' = "idle" /\ result'.status = status /\ result'.frame = f /\ UNCHANGED <<call, phase>>
  BY DEF Return
<1>2. InCall'
  BY <1>1 DEF IInv, InCall
<1>3. NothingEarly'
  BY <1>1 DEF IInv, NothingEarly, AskedOnly, nicVars, netVars, Arming
<1>4. RingReady' /\ OnlyCrowdedOut'
  BY <1>1 DEF IInv, RingReady, OnlyCrowdedOut, nicVars, histVars, Arming, Armed
<1>5. AnswerIsFresh' /\ AnswerFromTarget'
  BY <1>1 DEF AnswerIsFresh, AnswerFromTarget, histVars
<1> QED BY <1>2, <1>3, <1>4, <1>5 DEF IInv

LEMMA LookRxIInv == ASSUME IInv, LookRx PROVE IInv'
<1> DEFINE d == ring[0]
<1>1. pc = "look" /\ UNCHANGED <<call, nicVars, netVars, histVars>>
  BY DEF LookRx, Accept, Return
<1>2. 0 \in Slots /\ (d.st = "done" => d.frame \in heard)
  BY RingSizeAssumption DEF IInv, RingReady, Slots
<1>3. call.op \in AllOps /\ phase \in {"arp", "main"}
  BY <1>1 DEF IInv, InCall
<1>4. CASE pc' \in {"clock", "rearm"} /\ UNCHANGED <<phase, result>>
  <2>1. InCall' /\ NothingEarly' /\ AnswerIsFresh' /\ AnswerFromTarget'
    BY <1>1, <1>4, MidCall DEF Arming, Armed, nicVars, netVars
  <2>2. RingReady' /\ OnlyCrowdedOut'
    BY <1>1, <1>4 DEF IInv, RingReady, OnlyCrowdedOut, Arming, Armed, nicVars, histVars
  <2> QED BY <2>1, <2>2 DEF IInv
<1>5. CASE phase = "arp" /\ call.op # "arp" /\ phase' = "main" /\ pc' = "base" /\ UNCHANGED result
  <2>1. InCall'
    BY <1>1, <1>5 DEF IInv, InCall, Arming
  <2>2. NothingEarly'
    BY <1>1, <1>5 DEF IInv, InCall, NothingEarly, AskedOnly, nicVars, netVars
  <2>3. RingReady' /\ OnlyCrowdedOut' /\ AnswerIsFresh' /\ AnswerFromTarget'
    BY <1>1, <1>5 DEF IInv, RingReady, OnlyCrowdedOut, AnswerIsFresh, AnswerFromTarget, Arming, Armed,
                      nicVars, histVars
  <2> QED BY <2>1, <2>2, <2>3 DEF IInv
<1>6. CASE d.st = "done" /\ Matches(d.frame) /\ (phase = "main" \/ call.op = "arp") /\ Accept(d.frame)
  <2>1. call.op # "netcheck" => d.frame.src = call.host
    BY <1>3, <1>6 DEF Matches, IsArpReply, IsEchoReply, IsSynAck, IsDnsReply, AllOps
  <2>2. Return("err", d.frame) \/ Return("ok", d.frame)
    BY <1>6 DEF Accept
  <2> QED BY <1>1, <1>2, <1>6, <2>1, <2>2, ReturnIInv DEF Armed
<1>7. CASE d.st = "done" /\ MatchesRst(d.frame) /\ Return("err", d.frame)
  BY <1>1, <1>2, <1>7, ReturnIInv DEF Armed
<1> QED BY <1>4, <1>5, <1>6, <1>7 DEF LookRx

LEMMA RearmIInv == ASSUME IInv, Rearm PROVE IInv'
<1>1. InCall' /\ NothingEarly' /\ AnswerIsFresh' /\ AnswerFromTarget'
  BY MidCall DEF Rearm, Arming, Armed, netVars
<1>2. RingReady'
  <2>1. /\ pc = "rearm" /\ pc' = "clock" /\ ring' = [ring EXCEPT ![0] = Posted]
        /\ rdt' = 1 /\ UNCHANGED <<rdh, rctl, heard>>
    BY DEF Rearm, histVars
  <2>2. ring = [i \in Slots |-> ring[i]] /\ 0 \in Slots
    BY RingSizeAssumption DEF IInv, RingReady, Slots
  <2>3. /\ ring' = [i \in Slots |-> ring'[i]]
        /\ \A i \in Slots : ring'[i] = IF i = 0 THEN Posted ELSE ring[i]
    BY <2>1, <2>2
  <2> QED BY <2>1, <2>2, <2>3 DEF IInv, RingReady, Posted, Arming, Armed
<1>3. OnlyCrowdedOut'
  BY DEF Rearm, IInv, OnlyCrowdedOut, histVars
<1> QED BY <1>1, <1>2, <1>3 DEF IInv

LEMMA ClockIInv == ASSUME IInv, Clock PROVE IInv'
<1>1. pc = "clock" /\ UNCHANGED <<nicVars, netVars, histVars>>
  BY DEF Clock
<1>2. CASE pc' \in {"halt", "look"} /\ UNCHANGED <<call, phase, result>>
  <2>1. InCall' /\ NothingEarly' /\ AnswerIsFresh' /\ AnswerFromTarget'
    BY <1>1, <1>2, MidCall DEF Arming, Armed, nicVars, netVars
  <2>2. RingReady' /\ OnlyCrowdedOut'
    BY <1>1, <1>2 DEF IInv, RingReady, OnlyCrowdedOut, Arming, Armed, nicVars, histVars
  <2> QED BY <2>1, <2>2 DEF IInv
<1>3. CASE Return("ok", NoFrame) \/ Return("err", NoFrame)
  BY <1>1, <1>3, ReturnIInv DEF Armed
<1> QED BY <1>2, <1>3 DEF Clock, TimedOut, BeginWait

LEMMA TickIInv == ASSUME IInv, Tick PROVE IInv'
<1>1. /\ pc \in Armed /\ pc' \in Armed
      /\ UNCHANGED <<call, phase, result, nicVars, netVars, histVars>>
  BY DEF Tick, Armed
<1>2. InCall' /\ NothingEarly' /\ AnswerIsFresh' /\ AnswerFromTarget'
  BY <1>1, MidCall DEF Arming, Armed, nicVars, netVars
<1>3. RingReady' /\ OnlyCrowdedOut'
  BY <1>1 DEF IInv, RingReady, OnlyCrowdedOut, Arming, Armed, nicVars, histVars
<1> QED BY <1>2, <1>3 DEF IInv

-----------------------------------------------------------------------------
(* The NIC and the network. *)

LEMMA TransmitIInv == ASSUME IInv, Transmit PROVE IInv'
<1>1. UNCHANGED <<pc, call, phase, result, ring, rdh, rdt, rctl, heard, missed>> /\ txq' = {}
  BY DEF Transmit, clientVars, histVars
<1>2. InCall' /\ RingReady' /\ OnlyCrowdedOut' /\ AnswerIsFresh' /\ AnswerFromTarget'
  BY <1>1 DEF IInv, InCall, RingReady, OnlyCrowdedOut, AnswerIsFresh, AnswerFromTarget
<1>3. ASSUME NEW f \in wire' PROVE AskedOnly(f.kind, f.call)'
  <2>1. CASE f \in wire
    BY <1>1, <2>1 DEF IInv, NothingEarly, AskedOnly
  <2>2. CASE f \notin wire
    <3>1. PICK r \in txq : f \in Answers(r)
      BY <1>3, <2>2 DEF Transmit
    <3>2. r.kind \in {"arp", "ping", "syn", "dns"} /\ AskedOnly(r.kind, r.id)
      BY DEF IInv, NothingEarly
    <3>3. f.call = r.id /\ (f.kind = "arp" <=> r.kind = "arp")
      BY <3>1, <3>2, AnswerKinds
    <3> QED BY <1>1, <3>2, <3>3 DEF AskedOnly
  <2> QED BY <2>1, <2>2
<1> QED BY <1>1, <1>2, <1>3 DEF IInv, NothingEarly

(* A frame the NIC has no room for: if it is the answer, the ring is armed *)
(* and its one slot taken.                                                 *)
LEMMA MissedCrowded ==
  ASSUME IInv, NEW f, AnswersNow(f), f.kind # "junk" => f \in wire,
         ~(rctl /\ rdh # rdt /\ {i \in Slots : ring[i].st # "null"} # {})
  PROVE  heard # {}
<1>1. pc # "idle" /\ f.call = call.id /\ f \in Answers(Request)
  BY DEF AnswersNow
<1>2. /\ Request.kind \in {"arp", "ping", "syn", "dns"} /\ Request.id = call.id
      /\ Request.kind = "arp" <=> phase = "arp" \/ call.op \in {"netcheck", "arp"}
  BY <1>1, RequestKinds DEF IInv
<1>3. f.kind # "junk" /\ (f.kind = "arp" <=> Request.kind = "arp")
  BY <1>1, <1>2, AnswerKinds
<1>4. AskedOnly(f.kind, f.call)
  BY <1>3 DEF IInv, NothingEarly
<1>5. pc \notin Arming
  BY <1>1, <1>2, <1>3, <1>4 DEF AskedOnly
<1>6. pc \in Armed
  BY <1>1, <1>5 DEF IInv, InCall
<1>7. 0 \in {i \in Slots : ring[i].st # "null"}
  BY <1>6, RingSizeAssumption DEF IInv, RingReady, Slots
<1> QED BY <1>6, <1>7 DEF IInv, RingReady

LEMMA ReceiveIInv ==
  ASSUME IInv, NEW f, Receive(f), f.kind # "junk" => f \in wire,
         UNCHANGED <<clientVars, rdt, rctl, txq>>, wire' \subseteq wire
  PROVE  IInv'
<1>1. UNCHANGED <<pc, call, phase, result>>
  BY DEF clientVars
<1>2. InCall' /\ AnswerFromTarget'
  BY <1>1 DEF IInv, InCall, AnswerFromTarget
<1>3. NothingEarly'
  BY <1>1 DEF IInv, NothingEarly, AskedOnly
<1> DEFINE usable == {i \in Slots : ring[i].st # "null"}
           room   == rctl /\ rdh # rdt /\ usable # {}
<1>4. CASE room
  <2>1. \E s : ring' = [ring EXCEPT ![s] = Done(f)]
    BY <1>4 DEF Receive
  <2>2. heard' = heard \cup {f} /\ UNCHANGED missed
    BY <1>4 DEF Receive
  <2>3. PICK s : ring' = [ring EXCEPT ![s] = Done(f)]
    BY <2>1
  <2>4. ring = [i \in Slots |-> ring[i]]
    BY DEF IInv, RingReady
  <2>5. /\ ring' = [i \in Slots |-> ring'[i]]
        /\ \A i \in Slots : ring'[i] = IF i = s THEN Done(f) ELSE ring[i]
    BY <2>3, <2>4
  <2>6. \A i \in Slots : /\ ring'[i].st = "done" => ring'[i].frame \in heard'
                         /\ ring[i].st # "null" => ring'[i].st # "null"
    BY <2>2, <2>5 DEF Done, IInv, RingReady
  <2>7. 0 \in Slots
    BY RingSizeAssumption DEF Slots
  <2>8. RingReady'
    BY <1>1, <2>2, <2>5, <2>6, <2>7 DEF IInv, RingReady
  <2>9. OnlyCrowdedOut' /\ AnswerIsFresh'
    BY <1>1, <2>2 DEF IInv, OnlyCrowdedOut, AnswerIsFresh
  <2> QED BY <1>2, <1>3, <2>8, <2>9 DEF IInv
<1>5. CASE ~room
  <2>1. /\ missed' = missed \cup {g \in {f} : AnswersNow(g)}
        /\ UNCHANGED <<ring, rdh, heard>>
    BY <1>5 DEF Receive
  <2>2. AnswersNow(f) => heard # {}
    BY <1>5, MissedCrowded
  <2>3. OnlyCrowdedOut'
    BY <2>1, <2>2 DEF IInv, OnlyCrowdedOut
  <2>4. RingReady' /\ AnswerIsFresh'
    BY <1>1, <2>1 DEF IInv, RingReady, AnswerIsFresh
  <2> QED BY <1>2, <1>3, <2>3, <2>4 DEF IInv
<1> QED BY <1>4, <1>5

LEMMA DeliverIInv == ASSUME IInv, NEW f \in wire, Deliver(f) PROVE IInv'
BY ReceiveIInv DEF Deliver

LEMMA ForeignIInv == ASSUME IInv, Foreign PROVE IInv'
<1>1. Junk(foreign).kind = "junk"
  BY DEF Junk
<1> QED BY <1>1, ReceiveIInv DEF Foreign

-----------------------------------------------------------------------------
LEMMA NextIInv == ASSUME IInv, [Next]_vars PROVE IInv'
<1>1. CASE UNCHANGED vars
  BY <1>1 DEF vars, clientVars, nicVars, netVars, histVars, IInv, InCall, NothingEarly, AskedOnly,
              RingReady, OnlyCrowdedOut, AnswerIsFresh, AnswerFromTarget
<1> QED
  BY <1>1, RefusedIInv, CallIInv, SetBaseIInv, SetHeadIInv, SetTailIInv, PostIInv, TransmitIInv,
     DeliverIInv, ForeignIInv, LookTxIInv, LookRxIInv, RearmIInv, ClockIInv, TickIInv
  DEF Next

(***************************************************************************)
(* The inductive invariant holds in every state of e1000.rs's clients, the *)
(* NIC and the network.                                                    *)
(***************************************************************************)
THEOREM Invariance == Spec => []IInv
<1>1. Init => IInv
  BY InitIInv
<1>2. IInv /\ [Next]_vars => IInv'
  BY NextIInv
<1> QED BY <1>1, <1>2, PTL DEF Spec

(***************************************************************************)
(* The ring of a call is armed before its request leaves: its answer finds *)
(* no room only if another frame took the slot.                            *)
(***************************************************************************)
THEOREM CrowdedOutOnly == Spec => []OnlyCrowdedOut
<1>1. IInv => OnlyCrowdedOut
  BY DEF IInv
<1> QED BY <1>1, Invariance, PTL

(***************************************************************************)
(* What a call returns came in on the ring it armed and, if it succeeded   *)
(* with an answer, from the host it asked.                                 *)
(***************************************************************************)
THEOREM OwnAnswers == Spec => []AnswerIsOwn
<1>1. IInv => AnswerIsOwn
  BY DEF IInv, AnswerIsOwn
<1> QED BY <1>1, Invariance, PTL

-----------------------------------------------------------------------------
(* Virtio.  The program counter and the steps of Boot. *)

LEMMA BootIs == V!End = 25
<1>1. Len(V!Boot) = 24
  BY DEF V!Boot
<1> QED BY <1>1 DEF V!End

Labels ==
  /\ V!At("initTx") <=> vpc = 1
  /\ V!At("fillTest") <=> vpc = 2
  /\ V!At("slotTest") <=> vpc = 3
  /\ V!At("indexTest") <=> vpc = 4
  /\ V!At("sampleTest") <=> vpc = 5
  /\ V!At("notifyTest") <=> vpc = 6
  /\ V!At("spinTest") <=> vpc = 7
  /\ V!At("initRx") <=> vpc = 8
  /\ V!At("slotRx") <=> vpc = 9
  /\ V!At("indexRx") <=> vpc = 10
  /\ V!At("clear") <=> vpc = 11
  /\ V!At("slotRearm") <=> vpc = 12
  /\ V!At("indexRearm") <=> vpc = 13
  /\ V!At("sample") <=> vpc = 14
  /\ V!At("fillArp") <=> vpc = 15
  /\ V!At("slotArp") <=> vpc = 16
  /\ V!At("indexArp") <=> vpc = 17
  /\ V!At("sampleArp") <=> vpc = 18
  /\ V!At("notifyArp") <=> vpc = 19
  /\ V!At("spinArp") <=> vpc = 20
  /\ V!At("poll") <=> vpc = 21
  /\ V!At("length") <=> vpc = 22
  /\ V!At("parse") <=> vpc = 23
  /\ V!At("address") <=> vpc = 24

LEMMA LabelsHold == ASSUME vpc \in 1 .. 25 PROVE Labels
<1>1. /\ V!Boot[1] = "initTx" /\ V!Boot[2] = "fillTest" /\ V!Boot[3] = "slotTest"
      /\ V!Boot[4] = "indexTest" /\ V!Boot[5] = "sampleTest" /\ V!Boot[6] = "notifyTest"
      /\ V!Boot[7] = "spinTest" /\ V!Boot[8] = "initRx" /\ V!Boot[9] = "slotRx"
      /\ V!Boot[10] = "indexRx" /\ V!Boot[11] = "clear" /\ V!Boot[12] = "slotRearm"
      /\ V!Boot[13] = "indexRearm" /\ V!Boot[14] = "sample" /\ V!Boot[15] = "fillArp"
      /\ V!Boot[16] = "slotArp" /\ V!Boot[17] = "indexArp" /\ V!Boot[18] = "sampleArp"
      /\ V!Boot[19] = "notifyArp" /\ V!Boot[20] = "spinArp" /\ V!Boot[21] = "poll"
      /\ V!Boot[22] = "length" /\ V!Boot[23] = "parse" /\ V!Boot[24] = "address"
  BY DEF V!Boot
<1>2. vpc = 25 => \A s : ~V!At(s)
  BY BootIs DEF V!At
<1>3. vpc # 25 => \A s : V!At(s) <=> V!Boot[vpc] = s
  BY BootIs DEF V!At
<1> QED BY <1>1, <1>2, <1>3 DEF Labels

-----------------------------------------------------------------------------
(* The inductive invariant of Virtio. *)

IsQueue(q) ==
  /\ q = [num |-> q.num, frames |-> q.frames, ring |-> q.ring, avail |-> q.avail, used |-> q.used,
          elems |-> q.elems, seen |-> q.seen]
  /\ q.num \in Nat /\ q.avail \in 0 .. 2 /\ q.seen \in 0 .. q.avail /\ q.used = q.seen
  /\ q.avail > 0 => q.num > 1

(* What the device has sent once it has taken n entries. *)
Sent(n) == IF n = 0 THEN <<>> ELSE IF n = 1 THEN <<"test">> ELSE <<"test", "arp">>

(* An entry the device may take is written, and so is its descriptor. *)
TxRing ==
  /\ IsQueue(vtx)
  /\ vpc \in 1 .. 4   => vtx.avail = 0
  /\ vpc \in 5 .. 17  => vtx.avail = 1
  /\ vpc \in 18 .. 24 => vtx.avail = 2
  /\ vpc \in 2 .. 24  => vtx.num > 1
  /\ 0 \in DOMAIN vtx.ring => vtx.ring[0] = 0
  /\ vpc \in 17 .. 24 \/ vtx.avail = 2 => 1 \in DOMAIN vtx.ring /\ vtx.ring[1] = 1
  /\ vpc \in 3 .. 24 \/ vtx.avail > 0  => 0 \in DOMAIN vdesc /\ vdesc[0] = "test"
  /\ vpc \in 16 .. 24 \/ vtx.avail = 2 => 1 \in DOMAIN vdesc /\ vdesc[1] = "arp"
  /\ vwire = Sent(vtx.seen)

RxRing ==
  /\ IsQueue(vrx)
  /\ vpc \in 1 .. 10  => vrx.avail = 0
  /\ vpc \in 11 .. 13 => vrx.avail = 1
  /\ vpc \in 14 .. 24 \/ vtx.avail = 2 => vrx.avail = 2
  /\ vpc \in 9 .. 24  => vrx.num > 1
  /\ vstored \in Seq({V!Reply} \cup V!Others) /\ Len(vstored) = vrx.seen
  /\ vrx.seen > 0 => 0 \in DOMAIN vrx.elems /\ vrx.elems[0] = vstored[1]

Replied == \E i \in 1 .. Len(vstored) : vstored[i] = V!Reply

(* The request is answered once, when both descriptors are out. *)
OneReply ==
  /\ vowed \/ vlost \/ Replied => vtx.seen = 2
  /\ vowed => ~vlost /\ ~Replied
  /\ vlost => ~Replied /\ vrx.seen = 2
  /\ vrx.seen > 0 /\ vstored[vrx.seen] = V!Reply => vbuf = V!Reply

(* The index sampled before the request does not count the reply. *)
Sampled ==
  /\ vpc \in 15 .. 24 =>
       vbefore \in 0 .. vrx.used /\ \A i \in 1 .. vbefore : vstored[i] # V!Reply
  /\ vpc \in 22 .. 24 => vrx.used > vbefore

(* A reply that came alone is the one whose length and content are read. *)
ReadRight ==
  /\ vresult = [status |-> vresult.status, isReply |-> vresult.isReply, ip |-> vresult.ip]
  /\ vpc \in 1 .. 23 => vresult.status # "ok"
  /\ vresult.status = "ok" => vrx.used > 0
  /\ vpc \in 23 .. 24 /\ vstored = <<V!Reply>> => vlen = V!Reply
  /\ vresult.status = "ok" /\ vstored = <<V!Reply>> => vresult.isReply
  /\ vpc = 25 /\ vresult.status = "ok" /\ vstored = <<V!Reply>> => vresult.ip = V!Reply

VInv == vpc \in 1 .. 25 /\ TxRing /\ RxRing /\ OneReply /\ Sampled /\ ReadRight

-----------------------------------------------------------------------------
(* The operators on queues. *)

LEMMA FreshFields ==
  ASSUME NEW n \in Nat
  PROVE  /\ IsQueue(V!FreshQueue(n))
         /\ V!FreshQueue(n).num = n /\ V!FreshQueue(n).avail = 0 /\ V!FreshQueue(n).seen = 0
         /\ V!FreshQueue(n).ring = <<>>
<1>1. PICK k : k = V!DivCeil(V!VringSize(n, V!VRING_ALIGN), V!FRAME_SIZE)
  OBVIOUS
<1>2. PICK r : r = [V!NoQueue EXCEPT !.num = n]
  OBVIOUS
<1>3. r = [num |-> n, frames |-> 0, ring |-> <<>>, avail |-> 0, used |-> 0, elems |-> <<>>, seen |-> 0]
  BY <1>2 DEF V!NoQueue
<1>4. V!FreshQueue(n) = [r EXCEPT !.frames = k]
  BY <1>1, <1>2 DEF V!FreshQueue, V!NoQueue
<1>5. V!FreshQueue(n) = [num |-> n, frames |-> k, ring |-> <<>>, avail |-> 0, used |-> 0,
                         elems |-> <<>>, seen |-> 0]
  BY <1>3, <1>4
<1> QED BY <1>5 DEF IsQueue

LEMMA QueueBounds ==
  ASSUME NEW q, IsQueue(q)
  PROVE  /\ q.num \in Nat /\ q.avail \in {0, 1, 2} /\ q.seen \in {0, 1, 2} /\ q.seen <= q.avail
         /\ q.used = q.seen /\ (q.avail > 0 => q.num > 1)
         /\ q.seen < q.avail => q.num > 1 /\ q.seen \in {0, 1}
BY DEF IsQueue

LEMMA PutFields ==
  ASSUME NEW q, IsQueue(q), NEW d
  PROVE  /\ IsQueue(V!PutSlot(q, d))
         /\ V!PutSlot(q, d).num = q.num /\ V!PutSlot(q, d).avail = q.avail
         /\ V!PutSlot(q, d).seen = q.seen /\ V!PutSlot(q, d).used = q.used
         /\ V!PutSlot(q, d).elems = q.elems
         /\ V!PutSlot(q, d).ring = V!Written(q.ring, q.avail % q.num, d)
BY DEF V!PutSlot, IsQueue

LEMMA BumpFields ==
  ASSUME NEW q, IsQueue(q), q.avail < 2, q.num > 1
  PROVE  /\ IsQueue(V!BumpIndex(q))
         /\ V!BumpIndex(q).num = q.num /\ V!BumpIndex(q).avail = q.avail + 1
         /\ V!BumpIndex(q).seen = q.seen /\ V!BumpIndex(q).used = q.used
         /\ V!BumpIndex(q).elems = q.elems /\ V!BumpIndex(q).ring = q.ring
BY DEF V!BumpIndex, IsQueue

LEMMA CompleteFields ==
  ASSUME NEW q, IsQueue(q), q.seen < q.avail, NEW f
  PROVE  /\ IsQueue(V!Complete(q, f))
         /\ V!Complete(q, f).num = q.num /\ V!Complete(q, f).avail = q.avail
         /\ V!Complete(q, f).seen = q.seen + 1 /\ V!Complete(q, f).used = q.used + 1
         /\ V!Complete(q, f).ring = q.ring
         /\ V!Complete(q, f).elems = V!Written(q.elems, q.used % q.num, f)
<1>1. PICK e : e = V!Written(q.elems, q.used % q.num, f)
  OBVIOUS
<1>2. PICK r : r = [q EXCEPT !.seen = @ + 1]
  OBVIOUS
<1>3. PICK s : s = [r EXCEPT !.used = q.used + 1]
  OBVIOUS
<1>4. V!Complete(q, f) = [s EXCEPT !.elems = e]
  BY <1>1, <1>2, <1>3 DEF V!Complete, IsQueue
<1>5. r = [num |-> q.num, frames |-> q.frames, ring |-> q.ring, avail |-> q.avail,
           used |-> q.used, elems |-> q.elems, seen |-> q.seen + 1]
  BY <1>2 DEF IsQueue
<1>6. s = [num |-> q.num, frames |-> q.frames, ring |-> q.ring, avail |-> q.avail,
           used |-> q.used + 1, elems |-> q.elems, seen |-> q.seen + 1]
  BY <1>3, <1>5
<1>7. V!Complete(q, f) = [num |-> q.num, frames |-> q.frames, ring |-> q.ring, avail |-> q.avail,
                          used |-> q.used + 1, elems |-> e, seen |-> q.seen + 1]
  BY <1>4, <1>6
<1>8. q.num \in Nat /\ q.avail \in 0 .. 2 /\ q.seen + 1 \in 0 .. q.avail /\ q.used + 1 = q.seen + 1
      /\ (q.avail > 0 => q.num > 1)
  BY DEF IsQueue
<1> QED BY <1>1, <1>7, <1>8 DEF IsQueue

LEMMA WrittenAt ==
  ASSUME NEW m, NEW i, NEW v
  PROVE  /\ i \in DOMAIN V!Written(m, i, v) /\ V!Written(m, i, v)[i] = v
         /\ \A j : j # i =>
              /\ j \in DOMAIN V!Written(m, i, v) <=> j \in DOMAIN m
              /\ j \in DOMAIN m => V!Written(m, i, v)[j] = m[j]
BY DEF V!Written

(* Both queues hold more than one entry: the first two do not wrap. *)
LEMMA NoWrap == \A n \in Nat : n > 1 => 0 % n = 0 /\ 1 % n = 1
OBVIOUS

(* Before the request is out there is no reply. *)
LEMMA NoReplyYet ==
  ASSUME VInv, vtx.avail # 2
  PROVE  ~vowed /\ ~vlost /\ ~Replied
BY DEF VInv, TxRing, IsQueue, OneReply

-----------------------------------------------------------------------------
LEMMA VInitInv == ASSUME V!Init PROVE VInv
<1>1. IsQueue(V!NoQueue) /\ V!NoQueue.avail = 0 /\ V!NoQueue.seen = 0 /\ V!NoQueue.ring = <<>>
      /\ V!NoQueue.used = 0
  BY DEF V!NoQueue, IsQueue
<1>2. vpc = 1 /\ vtx = V!NoQueue /\ vrx = V!NoQueue /\ vwire = <<>> /\ vstored = <<>> /\ ~vowed /\ ~vlost
  BY DEF V!Init
<1>3. TxRing
  BY <1>1, <1>2 DEF TxRing, Sent
<1>4. RxRing
  BY <1>1, <1>2 DEF RxRing
<1>5. OneReply
  BY <1>1, <1>2 DEF OneReply, Replied
<1>6. Sampled
  BY <1>2 DEF Sampled
<1>7. ReadRight
  BY <1>2 DEF ReadRight, V!Init, V!None
<1> QED BY <1>2, <1>3, <1>4, <1>5, <1>6, <1>7 DEF VInv


-----------------------------------------------------------------------------
(* The driver.  Steps that set up a queue, or give up on one. *)

LEMMA InitTxInv == ASSUME VInv, V!InitTxQueue PROVE VInv'
<1> USE VirtioAssumption DEF V!Assumptions
<1>1. vpc = 1 /\ vpc' = 2
  BY LabelsHold DEF VInv, Labels, V!InitTxQueue, V!Advance
<1>2. UNCHANGED <<vrx, vstored, vdesc, vwire, vowed, vlost, vbuf, vbefore, vlen, vresult>>
  BY DEF V!InitTxQueue, V!netVars, V!histVars
<1>3. PICK n \in QueueNums : vtx' = V!FreshQueue(n)
  BY DEF V!InitTxQueue
<1>4. /\ IsQueue(vtx') /\ vtx'.num = n /\ vtx'.avail = 0 /\ vtx'.seen = 0 /\ vtx'.ring = <<>>
      /\ n \in Nat /\ n > 1
  BY <1>3, FreshFields
<1>5. vtx.seen = 0
  BY <1>1 DEF VInv, TxRing, IsQueue
<1>6. TxRing'
  BY <1>1, <1>2, <1>4, <1>5 DEF VInv, TxRing, Sent
<1>7. RxRing'
  BY <1>1, <1>2, <1>4 DEF VInv, RxRing
<1>8. OneReply'
  BY <1>2, <1>4, <1>5 DEF VInv, OneReply, Replied
<1>9. Sampled' /\ ReadRight'
  BY <1>1, <1>2 DEF VInv, Sampled, ReadRight
<1> QED BY <1>1, <1>6, <1>7, <1>8, <1>9 DEF VInv

LEMMA InitRxInv == ASSUME VInv, V!InitRxQueue PROVE VInv'
<1> USE VirtioAssumption DEF V!Assumptions
<1>1. vpc = 8 /\ vpc' = 9
  BY LabelsHold DEF VInv, Labels, V!InitRxQueue, V!Advance
<1>2. UNCHANGED <<vtx, vstored, vdesc, vwire, vowed, vlost, vbefore, vlen, vresult>>
  BY DEF V!InitRxQueue, V!netVars, V!histVars
<1>3. PICK n \in QueueNums : vrx' = V!FreshQueue(n)
  BY DEF V!InitRxQueue
<1>4. /\ IsQueue(vrx') /\ vrx'.num = n /\ vrx'.avail = 0 /\ vrx'.seen = 0
      /\ n \in Nat /\ n > 1
  <2>1. n \in Nat /\ n > 1
    OBVIOUS
  <2> QED BY <1>3, <2>1, FreshFields
<1>5. vrx.seen = 0 /\ vtx.avail = 1
  BY <1>1 DEF VInv, RxRing, TxRing, IsQueue
<1>6. TxRing'
  BY <1>1, <1>2 DEF VInv, TxRing
<1>7. RxRing'
  BY <1>1, <1>2, <1>4, <1>5 DEF VInv, RxRing
<1>8. OneReply'
  BY <1>2, <1>4, <1>5 DEF VInv, OneReply, Replied
<1>9. Sampled' /\ ReadRight'
  <2>1. vresult.status # "ok"
    BY <1>1 DEF VInv, ReadRight
  <2> QED BY <1>1, <1>2, <2>1 DEF VInv, Sampled, ReadRight
<1> QED BY <1>1, <1>6, <1>7, <1>8, <1>9 DEF VInv

LEMMA InitFailsInv == ASSUME VInv, V!InitFails PROVE VInv'
<1>1. vpc \in {1, 8} /\ vpc' = 25
  BY LabelsHold, BootIs DEF VInv, Labels, V!InitFails
<1>2. UNCHANGED <<vtx, vrx, vstored, vdesc, vwire, vowed, vlost, vbuf, vbefore, vlen, vresult>>
  BY DEF V!InitFails, V!netVars, V!histVars
<1>3. vtx.avail < 2 /\ vresult.status # "ok"
  BY <1>1 DEF VInv, TxRing, ReadRight
<1>4. TxRing' /\ RxRing' /\ OneReply'
  BY <1>1, <1>2, <1>3 DEF VInv, TxRing, RxRing, OneReply, Replied
<1>5. Sampled' /\ ReadRight'
  BY <1>1, <1>2, <1>3 DEF VInv, Sampled, ReadRight
<1> QED BY <1>1, <1>4, <1>5 DEF VInv

-----------------------------------------------------------------------------
(* Writing the TX descriptors: neither belongs to a frame in flight. *)

LEMMA FillInv == ASSUME VInv, V!FillTest \/ V!FillArp PROVE VInv'
<1>1. UNCHANGED <<vtx, vrx, vstored, vwire, vowed, vlost, vbuf, vbefore, vlen, vresult>>
  BY DEF V!FillTest, V!FillArp, V!Fill, V!netVars, V!histVars
<1>2. vpc \in {2, 15} /\ vpc' = vpc + 1
  BY LabelsHold DEF VInv, Labels, V!FillTest, V!FillArp, V!Fill, V!Advance
<1>3. TxRing'
  <2>1. CASE V!FillTest
    <3>1. vpc = 2 /\ vpc' = 3
      BY <2>1, LabelsHold, <1>2 DEF VInv, Labels, V!FillTest
    <3>2. 0 \in DOMAIN vdesc' /\ vdesc'[0] = "test"
      BY <2>1, WrittenAt DEF V!FillTest, V!Fill
    <3> QED BY <1>1, <3>1, <3>2 DEF VInv, TxRing
  <2>2. CASE V!FillArp
    <3>1. vpc = 15 /\ vpc' = 16
      BY <2>2, LabelsHold, <1>2 DEF VInv, Labels, V!FillArp
    <3>2. vdesc' = V!Written(vdesc, 1, "arp") /\ 0 \in DOMAIN vdesc /\ vdesc[0] = "test"
      BY <2>2, <3>1 DEF V!FillArp, V!Fill, V!ARP_DESC_INDEX, VInv, TxRing
    <3>3. 1 \in DOMAIN vdesc' /\ vdesc'[1] = "arp" /\ 0 \in DOMAIN vdesc' /\ vdesc'[0] = "test"
      BY <3>2, WrittenAt
    <3> QED BY <1>1, <3>1, <3>3 DEF VInv, TxRing
  <2> QED BY <2>1, <2>2
<1>4. RxRing'
  BY SMTT(30), <1>1, <1>2 DEF VInv, RxRing
<1>5. OneReply'
  BY <1>1 DEF VInv, OneReply, Replied
<1>6. Sampled' /\ ReadRight'
  BY <1>1, <1>2 DEF VInv, Sampled, ReadRight
<1> QED BY <1>2, <1>3, <1>4, <1>5, <1>6 DEF VInv


-----------------------------------------------------------------------------
(* Publishing the TX descriptors: the slot, then the index. *)

LEMMA PublishTxInv == ASSUME VInv, V!PublishTest \/ V!PublishArp PROVE VInv'
<1>1. UNCHANGED <<vrx, vstored, vdesc, vwire, vowed, vlost, vbuf, vbefore, vlen, vresult>>
  BY DEF V!PublishTest, V!PublishArp, V!PublishTx, V!netVars, V!histVars
<1>2. /\ vpc' = vpc + 1
      /\ \/ vpc = 3  /\ vtx' = V!PutSlot(vtx, 0)
         \/ vpc = 16 /\ vtx' = V!PutSlot(vtx, 1)
         \/ vpc \in {4, 17} /\ vtx' = V!BumpIndex(vtx)
  BY LabelsHold DEF VInv, Labels, V!PublishTest, V!PublishArp, V!PublishTx, V!Advance, V!ARP_DESC_INDEX
<1>3. IsQueue(vtx) /\ vtx.num \in Nat /\ vtx.num > 1 /\ vtx.avail < 2
  BY <1>2 DEF VInv, TxRing, IsQueue
<1>4. /\ IsQueue(vtx') /\ vtx'.seen = vtx.seen /\ vtx'.num = vtx.num
      /\ vpc \in {3, 16} => vtx'.avail = vtx.avail
      /\ vpc \in {4, 17} => vtx'.avail = vtx.avail + 1 /\ vtx'.ring = vtx.ring
  <2>1. CASE vpc \in {3, 16}
    BY <1>2, <1>3, <2>1, PutFields
  <2>2. CASE vpc \in {4, 17}
    BY <1>2, <1>3, <2>2, BumpFields
  <2> QED BY <1>2, <2>1, <2>2
<1>5. /\ 0 \in DOMAIN vtx'.ring => vtx'.ring[0] = 0
      /\ vpc = 16 => 1 \in DOMAIN vtx'.ring /\ vtx'.ring[1] = 1
  <2>1. CASE vpc = 3
    <3>1. vtx'.ring = V!Written(vtx.ring, 0, 0)
      BY <1>2, <1>3, <2>1, PutFields, NoWrap DEF VInv, TxRing
    <3> QED BY <2>1, <3>1, WrittenAt
  <2>2. CASE vpc = 16
    <3>1. vtx'.ring = V!Written(vtx.ring, 1, 1)
      BY <1>2, <1>3, <2>2, PutFields, NoWrap DEF VInv, TxRing
    <3> QED BY <2>2, <3>1, WrittenAt DEF VInv, TxRing
  <2>3. CASE vpc \in {4, 17}
    BY <1>4, <2>3 DEF VInv, TxRing
  <2> QED BY <1>2, <2>1, <2>2, <2>3
<1>6. TxRing'
  BY <1>1, <1>2, <1>4, <1>5 DEF VInv, TxRing
<1>7. RxRing'
  <2>1. vtx'.avail = 2 => vpc \in {16, 17}
    BY <1>2, <1>4 DEF VInv, TxRing
  <2> QED BY <1>1, <1>2, <1>4, <2>1 DEF VInv, RxRing
<1>8. OneReply'
  BY <1>1, <1>4 DEF VInv, OneReply, Replied
<1>9. Sampled' /\ ReadRight'
  BY <1>1, <1>2 DEF VInv, Sampled, ReadRight
<1>10. vpc' \in 1 .. 25
  BY <1>2
<1> QED BY <1>6, <1>7, <1>8, <1>9, <1>10 DEF VInv

(* Publishing RX descriptor 0, and again after clearing its buffer. *)
LEMMA PublishRxInv == ASSUME VInv, V!PublishRx PROVE VInv'
<1>1. UNCHANGED <<vtx, vstored, vdesc, vwire, vowed, vlost, vbuf, vbefore, vlen, vresult>>
  BY DEF V!PublishRx, V!netVars, V!histVars
<1>2. /\ vpc' = vpc + 1
      /\ \/ vpc \in {9, 12} /\ vrx' = V!PutSlot(vrx, 0)
         \/ vpc \in {10, 13} /\ vrx' = V!BumpIndex(vrx)
  BY LabelsHold DEF VInv, Labels, V!PublishRx, V!Advance
<1>3. IsQueue(vrx) /\ vrx.num > 1 /\ vrx.avail < 2
  BY <1>2 DEF VInv, RxRing, IsQueue
<1>4. /\ IsQueue(vrx') /\ vrx'.seen = vrx.seen /\ vrx'.num = vrx.num /\ vrx'.elems = vrx.elems
      /\ vpc \in {9, 12} => vrx'.avail = vrx.avail
      /\ vpc \in {10, 13} => vrx'.avail = vrx.avail + 1
  <2>1. CASE vpc \in {9, 12}
    BY <1>2, <1>3, <2>1, PutFields
  <2>2. CASE vpc \in {10, 13}
    BY <1>2, <1>3, <2>2, BumpFields
  <2> QED BY <1>2, <2>1, <2>2
<1>5. TxRing'
  BY <1>1, <1>2 DEF VInv, TxRing
<1>6. RxRing'
  <2>1. vtx.avail # 2
    BY <1>2 DEF VInv, TxRing
  <2>2. vrx.avail = IF vpc \in {9, 10} THEN 0 ELSE 1
    BY <1>2 DEF VInv, RxRing
  <2>3. IsQueue(vrx)' /\ vrx'.num > 1
    BY <1>3, <1>4
  <2>4. /\ vpc' \in 1 .. 10 => vrx'.avail = 0
        /\ vpc' \in 11 .. 13 => vrx'.avail = 1
        /\ vpc' \in 14 .. 24 \/ vtx'.avail = 2 => vrx'.avail = 2
    BY <1>1, <1>2, <1>4, <2>1, <2>2
  <2>5. /\ vstored' \in Seq({V!Reply} \cup V!Others) /\ Len(vstored') = vrx'.seen
        /\ vrx'.seen > 0 => 0 \in DOMAIN vrx'.elems /\ vrx'.elems[0] = vstored'[1]
    BY <1>1, <1>4 DEF VInv, RxRing
  <2> QED BY <2>3, <2>4, <2>5 DEF RxRing
<1>7. OneReply'
  BY <1>1, <1>4 DEF VInv, OneReply, Replied
<1>8. Sampled' /\ ReadRight'
  <2>1. vresult.status # "ok"
    BY <1>2 DEF VInv, ReadRight
  <2> QED BY <1>1, <1>2, <2>1 DEF VInv, Sampled, ReadRight
<1>9. vpc' \in 1 .. 25
  BY <1>2
<1> QED BY <1>5, <1>6, <1>7, <1>8, <1>9 DEF VInv

LEMMA ClearInv == ASSUME VInv, V!ClearBuffer PROVE VInv'
<1>1. vpc = 11 /\ vpc' = 12
  BY LabelsHold DEF VInv, Labels, V!ClearBuffer, V!Advance
<1>2. UNCHANGED <<vtx, vrx, vstored, vdesc, vwire, vowed, vlost, vbefore, vlen, vresult>>
  BY DEF V!ClearBuffer, V!netVars, V!histVars
<1>3. ~vowed /\ ~vlost /\ ~Replied
  BY <1>1, NoReplyYet DEF VInv, TxRing
<1>4. TxRing' /\ RxRing'
  BY <1>1, <1>2 DEF VInv, TxRing, RxRing
<1>5. OneReply'
  <2>1. vrx.seen \in Nat /\ Len(vstored) = vrx.seen
    BY DEF VInv, RxRing, IsQueue
  <2>2. vrx.seen > 0 => vstored[vrx.seen] # V!Reply
    BY <1>3, <2>1 DEF Replied
  <2> QED BY <1>2, <1>3, <2>2 DEF OneReply, Replied
<1>6. Sampled' /\ ReadRight'
  BY <1>1, <1>2 DEF VInv, Sampled, ReadRight
<1> QED BY <1>1, <1>4, <1>5, <1>6 DEF VInv


(* Steps that tell the device, or wait for the test frame. *)
LEMMA QuietInv == ASSUME VInv, V!SampleTx \/ V!Notify \/ V!SpinTest PROVE VInv'
<1>1. vpc \in {5, 6, 7, 18, 19} /\ vpc' = vpc + 1
  BY LabelsHold DEF VInv, Labels, V!SampleTx, V!Notify, V!SpinTest, V!Advance
<1>2. UNCHANGED <<vtx, vrx, vstored, vdesc, vwire, vowed, vlost, vbuf, vbefore, vlen, vresult>>
  BY DEF V!SampleTx, V!Notify, V!SpinTest, V!netVars, V!histVars
<1>3. TxRing' /\ RxRing'
  BY <1>1, <1>2 DEF VInv, TxRing, RxRing
<1>4. OneReply'
  BY <1>2 DEF VInv, OneReply, Replied
<1>5. Sampled' /\ ReadRight'
  BY <1>1, <1>2 DEF VInv, Sampled, ReadRight
<1> QED BY <1>1, <1>3, <1>4, <1>5 DEF VInv

LEMMA SampleInv == ASSUME VInv, V!Sample PROVE VInv'
<1>1. vpc = 14 /\ vpc' = 15
  BY LabelsHold DEF VInv, Labels, V!Sample, V!Advance
<1>2. vbefore' = vrx.used
      /\ UNCHANGED <<vtx, vrx, vstored, vdesc, vwire, vowed, vlost, vbuf, vlen, vresult>>
  BY DEF V!Sample, V!netVars, V!histVars
<1>3. ~Replied
  BY <1>1, NoReplyYet DEF VInv, TxRing
<1>4. TxRing' /\ RxRing'
  BY <1>1, <1>2 DEF VInv, TxRing, RxRing
<1>5. OneReply'
  BY <1>2 DEF VInv, OneReply, Replied
<1>6. Sampled'
  <2>1. vrx.used \in Nat /\ Len(vstored) = vrx.used
    BY DEF VInv, RxRing, IsQueue
  <2> QED BY <1>1, <1>2, <1>3, <2>1 DEF Sampled, Replied
<1>7. ReadRight'
  BY <1>1, <1>2 DEF VInv, ReadRight
<1> QED BY <1>1, <1>4, <1>5, <1>6, <1>7 DEF VInv

(* The two waits, which may give up. *)
LEMMA WaitInv == ASSUME VInv, V!SpinArp \/ V!Poll PROVE VInv'
<1>1. /\ vpc \in {20, 21}
      /\ \/ vpc' = vpc + 1 /\ vresult' = vresult /\ (vpc = 21 => vrx.used # vbefore)
         \/ vpc' = 25 /\ vresult' = [V!None EXCEPT !.status = "unsent"]
         \/ vpc' = 25 /\ vresult' = [V!None EXCEPT !.status = "timeout"]
  BY LabelsHold, BootIs DEF VInv, Labels, V!SpinArp, V!Poll, V!Advance
<1>2. UNCHANGED <<vtx, vrx, vstored, vdesc, vwire, vowed, vlost, vbuf, vbefore, vlen>>
  BY DEF V!SpinArp, V!Poll, V!netVars, V!histVars
<1>3. TxRing' /\ RxRing'
  <2>1. vtx.avail = 2 /\ vrx.avail = 2
    BY <1>1 DEF VInv, TxRing, RxRing
  <2>2. TxRing'
    BY <1>1, <1>2, <2>1 DEF VInv, TxRing
  <2>3. RxRing'
    BY SMTT(30), <1>1, <1>2, <2>1 DEF VInv, RxRing
  <2> QED BY <2>2, <2>3
<1>4. OneReply'
  BY <1>2 DEF VInv, OneReply, Replied
<1>5. Sampled'
  <2>1. vrx.used \in Nat
    BY DEF VInv, RxRing, IsQueue
  <2> QED BY <1>1, <1>2, <2>1 DEF VInv, Sampled
<1>6. ReadRight'
  <2>1. CASE vpc' = vpc + 1 /\ vresult' = vresult
    BY <1>1, <1>2, <2>1 DEF VInv, ReadRight
  <2>2. CASE vpc' = 25 /\ \E st \in {"unsent", "timeout"} : vresult' = [V!None EXCEPT !.status = st]
    <3>1. PICK st \in {"unsent", "timeout"} : vresult' = [V!None EXCEPT !.status = st]
      BY <2>2
    <3>2. vresult' = [status |-> st, isReply |-> FALSE, ip |-> V!Zero]
      BY <3>1 DEF V!None
    <3>3. vresult'.status # "ok" /\ vresult' = [status |-> vresult'.status, isReply |-> vresult'.isReply,
                                                ip |-> vresult'.ip]
      BY <3>2
    <3> QED BY <2>2, <3>3 DEF ReadRight
  <2> QED BY <1>1, <2>1, <2>2
<1>7. vpc' \in 1 .. 25
  BY <1>1
<1> QED BY <1>3, <1>4, <1>5, <1>6, <1>7 DEF VInv

(* A frame is in the buffer by the time its length is read. *)
LEMMA FrameThere == ASSUME VInv, vpc \in 22 .. 24 PROVE vrx.used > 0 /\ vrx.seen = vrx.used
BY DEF VInv, Sampled, RxRing, IsQueue

LEMMA ReplyInBuffer == ASSUME VInv, vstored = <<V!Reply>> PROVE vbuf = V!Reply
<1>1. vrx.seen = 1 /\ vstored[1] = V!Reply
  BY DEF VInv, RxRing
<1> QED BY <1>1 DEF VInv, OneReply

LEMMA ReadInv == ASSUME VInv, V!ReadLength \/ V!Parse \/ V!ReadAddress PROVE VInv'
<1>1. vpc \in 22 .. 24 /\ vpc' = vpc + 1
  BY LabelsHold DEF VInv, Labels, V!ReadLength, V!Parse, V!ReadAddress, V!Advance
<1>2. UNCHANGED <<vtx, vrx, vstored, vdesc, vwire, vowed, vlost, vbuf, vbefore>>
  BY DEF V!ReadLength, V!Parse, V!ReadAddress, V!netVars, V!histVars
<1>3. TxRing' /\ RxRing'
  <2>1. vtx.avail = 2 /\ vrx.avail = 2
    BY <1>1 DEF VInv, TxRing, RxRing
  <2> QED BY <1>1, <1>2, <2>1 DEF VInv, TxRing, RxRing
<1>4. OneReply'
  BY <1>2 DEF VInv, OneReply, Replied
<1>5. Sampled'
  BY <1>1, <1>2 DEF VInv, Sampled
<1>6. ReadRight'
  <2>1. CASE V!ReadLength
    <3>1. vpc = 22 /\ vresult' = vresult
      BY <2>1, LabelsHold DEF VInv, Labels, V!ReadLength
    <3>2. vstored = <<V!Reply>> => vlen' = V!Reply
      BY <2>1, <1>1, FrameThere DEF VInv, RxRing, V!ReadLength
    <3> QED BY <1>1, <1>2, <3>1, <3>2 DEF VInv, ReadRight
  <2>2. CASE V!Parse
    <3>1. /\ vpc = 23 /\ vlen' = vlen
          /\ vresult' = [V!None EXCEPT !.status = "ok", !.isReply = ~vlen.short /\ vbuf.arp]
      BY <2>2, LabelsHold DEF VInv, Labels, V!Parse
    <3>2. PICK b : b = (~vlen.short /\ vbuf.arp)
      OBVIOUS
    <3>3. vresult' = [status |-> "ok", isReply |-> b, ip |-> V!Zero]
      BY <3>1, <3>2 DEF V!None
    <3>4. vstored = <<V!Reply>> => vlen = V!Reply /\ b
      <4>1. V!Reply.short = FALSE /\ V!Reply.arp = TRUE
        BY DEF V!Reply
      <4>2. vstored = <<V!Reply>> => vlen = V!Reply /\ vbuf = V!Reply
        BY <3>1, ReplyInBuffer DEF VInv, ReadRight
      <4> QED BY <3>2, <4>1, <4>2
    <3>5. /\ vresult' = [status |-> vresult'.status, isReply |-> vresult'.isReply, ip |-> vresult'.ip]
          /\ vresult'.isReply = b
      BY <3>3
    <3>6. vrx.used > 0
      BY <1>1, FrameThere
    <3> QED BY <1>1, <1>2, <3>1, <3>4, <3>5, <3>6 DEF ReadRight
  <2>3. CASE V!ReadAddress
    <3>1. /\ vpc = 24 /\ vlen' = vlen
          /\ vresult' = [vresult EXCEPT !.ip = IF vlen.short THEN V!Zero ELSE vbuf]
      BY <2>3, LabelsHold DEF VInv, Labels, V!ReadAddress
    <3>2. PICK ip : ip = IF vlen.short THEN V!Zero ELSE vbuf
      OBVIOUS
    <3>3. vresult' = [status |-> vresult.status, isReply |-> vresult.isReply, ip |-> ip]
      BY <3>1, <3>2 DEF VInv, ReadRight
    <3>4. vstored = <<V!Reply>> => ip = V!Reply
      BY <1>1, <3>1, <3>2, ReplyInBuffer DEF VInv, ReadRight, V!Reply
    <3>5. vrx.used > 0
      BY <1>1, FrameThere
    <3> QED BY <1>1, <1>2, <3>1, <3>3, <3>4, <3>5 DEF VInv, ReadRight
  <2> QED BY <2>1, <2>2, <2>3
<1>7. vpc' \in 1 .. 25
  BY <1>1
<1> QED BY <1>3, <1>4, <1>5, <1>6, <1>7 DEF VInv


-----------------------------------------------------------------------------
(* The device and the network. *)

LEMMA DeviceSendsInv == ASSUME VInv, V!DeviceSends PROVE VInv'
<1>1. vtx.seen < vtx.avail /\ IsQueue(vtx) /\ vtx.num \in Nat /\ vtx.num > 1 /\ vtx.seen \in {0, 1}
  <2>1. vtx.seen < vtx.avail /\ IsQueue(vtx)
    BY DEF V!DeviceSends, VInv, TxRing
  <2> QED BY <2>1, QueueBounds
<1>2. UNCHANGED <<vpc, vrx, vstored, vdesc, vlost, vbuf, vbefore, vlen, vresult>>
  BY DEF V!DeviceSends, V!driverVars
<1>3. V!Slot(vtx, vtx.seen) = vtx.seen
  <2>1. vtx.seen % vtx.num = vtx.seen
    BY <1>1, NoWrap
  <2>2. vtx.seen = 1 => vtx.avail = 2
    BY <1>1 DEF IsQueue
  <2> QED BY <1>1, <2>1, <2>2 DEF V!Slot, VInv, TxRing
<1>4. PICK f : f = vdesc[vtx.seen]
  OBVIOUS
<1>5. f = IF vtx.seen = 0 THEN "test" ELSE "arp"
  <2>1. vtx.avail > 0 /\ (vtx.seen = 1 => vtx.avail = 2)
    BY <1>1 DEF IsQueue
  <2> QED BY <1>1, <1>4, <2>1 DEF VInv, TxRing
<1>6. vwire' = Append(vwire, f) /\ vtx' = V!Complete(vtx, f) /\ (vowed' <=> (vowed \/ f = "arp"))
  BY <1>3, <1>4 DEF V!DeviceSends
<1>7. /\ IsQueue(vtx') /\ vtx'.num = vtx.num /\ vtx'.avail = vtx.avail /\ vtx'.seen = vtx.seen + 1
      /\ vtx'.ring = vtx.ring
  BY <1>1, <1>6, CompleteFields
<1>8. TxRing'
  <2>1. vwire' = Sent(vtx'.seen)
    <3>1. CASE vtx.seen = 0
      BY <1>5, <1>6, <1>7, <3>1 DEF VInv, TxRing, Sent
    <3>2. CASE vtx.seen = 1
      BY <1>5, <1>6, <1>7, <3>2 DEF VInv, TxRing, Sent
    <3> QED BY <1>1, <3>1, <3>2
  <2> QED BY <1>2, <1>7, <2>1 DEF VInv, TxRing
<1>9. RxRing'
  BY <1>2, <1>7 DEF VInv, RxRing
<1>10. OneReply'
  <2>1. ~vowed /\ ~vlost /\ ~Replied
    BY <1>1 DEF VInv, OneReply
  <2>2. ~vlost' /\ ~Replied'
    BY <1>2, <2>1 DEF Replied
  <2>3. vowed' => vtx'.seen = 2
    BY <1>1, <1>5, <1>6, <1>7, <2>1
  <2> QED BY <1>2, <2>2, <2>3 DEF VInv, OneReply
<1>11. Sampled' /\ ReadRight'
  BY <1>2 DEF VInv, Sampled, ReadRight
<1> QED BY <1>2, <1>8, <1>9, <1>10, <1>11 DEF VInv

(* A frame that finds a descriptor goes to the end of `stored`. *)
Stores(f) ==
  /\ vrx.seen < vrx.avail
  /\ vrx' = V!Complete(vrx, f) /\ vstored' = Append(vstored, f) /\ vbuf' = f
  /\ UNCHANGED <<vpc, vtx, vdesc, vwire, vlost, vbefore, vlen, vresult>>

LEMMA Stored ==
  ASSUME VInv, NEW f \in {V!Reply} \cup V!Others, Stores(f)
  PROVE  /\ TxRing' /\ RxRing' /\ Sampled' /\ ReadRight'
         /\ Len(vstored) = vrx.seen /\ vrx'.seen = vrx.seen + 1 /\ vrx.seen \in Nat
         /\ Len(vstored') = vrx.seen + 1 /\ vstored'[vrx.seen + 1] = f
         /\ \A i \in 1 .. vrx.seen : vstored'[i] = vstored[i]
<1> DEFINE F == {V!Reply} \cup V!Others
<1>1. UNCHANGED <<vpc, vtx, vdesc, vwire, vlost, vbefore, vlen, vresult>>
  BY DEF Stores
<1>2. /\ IsQueue(vrx) /\ vrx.seen < vrx.avail /\ vrx.num \in Nat /\ vrx.num > 1 /\ vrx.seen \in {0, 1}
      /\ vrx.used = vrx.seen
  <2>1. vrx.seen < vrx.avail /\ IsQueue(vrx)
    BY DEF Stores, VInv, RxRing
  <2> QED BY <2>1, QueueBounds
<1>3. vstored \in Seq(F) /\ Len(vstored) = vrx.seen
  BY DEF VInv, RxRing
<1>4. /\ IsQueue(vrx') /\ vrx'.num = vrx.num /\ vrx'.avail = vrx.avail /\ vrx'.seen = vrx.seen + 1
      /\ vrx'.used = vrx.used + 1
      /\ vrx'.elems = V!Written(vrx.elems, vrx.used % vrx.num, f)
  BY <1>2, CompleteFields DEF Stores
<1> HIDE DEF F
<1>5. /\ vstored' \in Seq(F) /\ Len(vstored') = vrx.seen + 1 /\ vstored'[vrx.seen + 1] = f
      /\ \A i \in 1 .. vrx.seen : vstored'[i] = vstored[i]
  BY <1>3, f \in F DEF Stores, F
<1>6. 0 \in DOMAIN vrx'.elems /\ vrx'.elems[0] = vstored'[1]
  <2>1. vrx.used % vrx.num = vrx.seen
    BY <1>2, NoWrap
  <2>2. CASE vrx.seen = 0
    BY <1>4, <1>5, <2>1, <2>2, WrittenAt
  <2>3. CASE vrx.seen = 1
    <3>1. 0 \in DOMAIN vrx.elems /\ vrx.elems[0] = vstored[1] /\ vstored'[1] = vstored[1]
      BY <1>5, <2>3 DEF VInv, RxRing
    <3> QED BY <1>4, <2>1, <2>3, <3>1, WrittenAt
  <2> QED BY <1>2, <2>2, <2>3
<1>7. TxRing'
  BY <1>1 DEF VInv, TxRing
<1>8. RxRing'
  <2>1. /\ vpc' \in 1 .. 10  => vrx'.avail = 0
        /\ vpc' \in 11 .. 13 => vrx'.avail = 1
        /\ vpc' \in 14 .. 24 \/ vtx'.avail = 2 => vrx'.avail = 2
        /\ vpc' \in 9 .. 24  => vrx'.num > 1
    BY <1>1, <1>4 DEF VInv, RxRing
  <2> QED BY <1>4, <1>5, <1>6, <2>1 DEF RxRing, F
<1>9. Sampled'
  BY <1>1, <1>2, <1>4, <1>5 DEF VInv, Sampled
<1>10. ReadRight'
  <2>1. vstored' = <<V!Reply>> => vrx.used = 0
    BY <1>2, <1>5
  <2>2. vstored' = <<V!Reply>> => vpc \notin 22 .. 24 /\ vresult.status # "ok"
    BY <1>2, <2>1, FrameThere DEF VInv, ReadRight
  <2>3. vrx'.used > 0
    BY <1>2, <1>4
  <2> QED BY <1>1, <2>2, <2>3 DEF VInv, ReadRight
<1> QED BY <1>2, <1>3, <1>4, <1>5, <1>7, <1>8, <1>9, <1>10

LEMMA ReplyArrivesInv == ASSUME VInv, V!ReplyArrives PROVE VInv'
<1>1. vowed /\ ~vowed' /\ V!Receive(V!Reply) /\ UNCHANGED <<vpc, vtx, vdesc, vwire, vbefore, vlen, vresult>>
  BY DEF V!ReplyArrives, V!driverVars
<1>2. vtx.seen = 2 /\ ~vlost /\ ~Replied
  BY <1>1 DEF VInv, OneReply
<1>3. vrx.avail = 2
  <2>1. vtx.avail = 2
    BY <1>2, QueueBounds DEF VInv, TxRing
  <2> QED BY <2>1 DEF VInv, RxRing
<1>4. CASE vrx.seen < vrx.avail
  <2>1. Stores(V!Reply)
    BY <1>1, <1>4 DEF V!Receive, Stores, VInv, RxRing, IsQueue
  <2>2. vbuf' = V!Reply /\ ~vlost'
    BY <1>2, <2>1 DEF Stores
  <2>3. OneReply'
    BY <1>1, <1>2, <2>2 DEF OneReply
  <2> QED BY <1>1, <2>1, <2>3, Stored DEF VInv
<1>5. CASE vrx.seen = vrx.avail
  <2>1. vlost' = TRUE /\ UNCHANGED <<vbuf, vrx, vstored>>
    <3>1. ~(vrx.seen < vrx.avail)
      BY <1>3, <1>5
    <3> QED BY <1>1, <3>1 DEF V!Receive
  <2>2. TxRing' /\ RxRing'
    BY <1>1, <2>1 DEF VInv, TxRing, RxRing
  <2>3. Sampled' /\ ReadRight'
    BY <1>1, <2>1 DEF VInv, Sampled, ReadRight
  <2>4. OneReply'
    BY <1>1, <1>2, <1>3, <1>5, <2>1 DEF VInv, OneReply, Replied
  <2> QED BY <1>1, <2>2, <2>3, <2>4 DEF VInv
<1> QED BY <1>1, <1>4, <1>5 DEF V!Receive

LEMMA ForeignArrivesInv == ASSUME VInv, V!ForeignArrives PROVE VInv'
<1>1. /\ UNCHANGED <<vpc, vtx, vdesc, vwire, vowed, vbefore, vlen, vresult>>
      /\ \E f \in V!Others : V!Receive(f)
  BY DEF V!ForeignArrives, V!driverVars
<1>2. PICK f \in V!Others : V!Receive(f)
  BY <1>1
<1>3. f # V!Reply
  BY DEF V!Others, V!Reply
<1>4. CASE vrx.seen < vrx.avail
  <2>1. Stores(f)
    BY <1>1, <1>2, <1>4 DEF V!Receive, Stores, VInv, RxRing, IsQueue
  <2>2. /\ Len(vstored) = vrx.seen /\ vrx'.seen = vrx.seen + 1 /\ vrx.seen \in Nat
        /\ Len(vstored') = vrx.seen + 1 /\ vstored'[vrx.seen + 1] = f
        /\ \A i \in 1 .. vrx.seen : vstored'[i] = vstored[i]
    BY <2>1, Stored
  <2>3. Replied' <=> Replied
    <3> DEFINE n == vrx.seen
    <3>1. n \in Nat /\ Len(vstored) = n /\ Len(vstored') = n + 1
      BY <2>2
    <3>2. \A i \in 1 .. n : vstored'[i] = vstored[i]
      BY <2>2
    <3>3. vstored'[n + 1] = f
      BY <2>2
    <3> HIDE DEF n
    <3>4. \A i \in 1 .. n + 1 : vstored'[i] = V!Reply => i \in 1 .. n
      BY <1>3, <3>1, <3>3
    <3> QED BY <3>1, <3>2, <3>4 DEF Replied
  <2>4. ~vlost /\ UNCHANGED vlost
    <3>1. vrx.seen # 2
      <4>1. IsQueue(vrx)
        BY DEF VInv, RxRing
      <4> QED BY <1>4, <4>1, QueueBounds
    <3>2. ~vlost
      BY <3>1 DEF VInv, OneReply
    <3> QED BY <2>1, <3>2 DEF Stores
  <2>5. OneReply'
    BY <1>1, <1>3, <2>2, <2>3, <2>4 DEF VInv, OneReply
  <2> QED BY <1>1, <2>1, <2>5, Stored DEF VInv
<1>5. CASE vrx.seen = vrx.avail
  <2>1. (vlost' <=> vlost) /\ UNCHANGED <<vbuf, vrx, vstored>>
    <3>1. ~(vrx.seen < vrx.avail)
      BY <1>5, QueueBounds DEF VInv, RxRing
    <3> QED BY <1>2, <1>3, <3>1 DEF V!Receive
  <2>2. TxRing' /\ RxRing'
    BY <1>1, <2>1 DEF VInv, TxRing, RxRing
  <2>3. Sampled' /\ ReadRight'
    BY <1>1, <2>1 DEF VInv, Sampled, ReadRight
  <2>4. OneReply'
    BY <1>1, <2>1 DEF VInv, OneReply, Replied
  <2> QED BY <1>1, <2>2, <2>3, <2>4 DEF VInv
<1> QED BY <1>2, <1>4, <1>5 DEF V!Receive


-----------------------------------------------------------------------------
LEMMA VNextInv == ASSUME VInv, [V!Next]_V!vars PROVE VInv'
<1>1. CASE V!Driver
  BY <1>1, InitTxInv, InitRxInv, InitFailsInv, FillInv, PublishTxInv, PublishRxInv, ClearInv, QuietInv,
     SampleInv, WaitInv, ReadInv DEF V!Driver
<1>2. CASE UNCHANGED V!vars
  BY <1>2 DEF V!vars, V!driverVars, V!netVars, V!histVars, VInv, TxRing, RxRing, OneReply, Replied,
     Sampled, ReadRight
<1> QED BY <1>1, <1>2, DeviceSendsInv, ReplyArrivesInv, ForeignArrivesInv DEF V!Next

(***************************************************************************)
(* The inductive invariant of the virtio rings: an index never gets ahead  *)
(* of the slots and descriptors it covers, and the reply comes after the   *)
(* request, when descriptor 0 has been published twice.                    *)
(***************************************************************************)
THEOREM RingsInvariance == V!Spec => []VInv
BY VInitInv, VNextInv, PTL DEF V!Spec

(***************************************************************************)
(* For every queue size and any delay of the device, send_test_frame and   *)
(* receive_test_frame put their two frames on the wire once each, in order *)
(* and as written.                                                         *)
(***************************************************************************)
THEOREM FramesIntact == V!Spec => []FramesSentIntact
<1>1. VInv => FramesSentIntact
  BY DEF VInv, TxRing, Sent, FramesSentIntact, V!FramesSentIntact
<1> QED BY <1>1, RingsInvariance, PTL

(***************************************************************************)
(* For every queue size and any number of foreign frames, the reply to     *)
(* receive_test_frame's request is dropped only when two other frames took *)
(* the two publications of descriptor 0, its arrival ends the wait, and a  *)
(* reply that came alone is reported with its sender.                      *)
(***************************************************************************)
THEOREM ReplySeen == V!Spec => []ReplyNotMissed
<1>1. VInv => ReplyNotMissed
  <2> SUFFICES ASSUME VInv PROVE ReplyNotMissed
    OBVIOUS
  <2>1. vrx.seen = vrx.used /\ vrx.seen \in Nat /\ Len(vstored) = vrx.seen
    BY QueueBounds DEF VInv, RxRing
  <2>2. DOMAIN vstored = 1 .. vrx.seen
    BY <2>1 DEF VInv, RxRing
  <2>3. ASSUME vlost
        PROVE  \E i, j \in DOMAIN vstored : i # j /\ vstored[i] # V!Reply /\ vstored[j] # V!Reply
    <3>1. ~Replied /\ vrx.seen = 2
      BY <2>3 DEF VInv, OneReply
    <3>2. vstored[1] # V!Reply /\ vstored[2] # V!Reply /\ 1 \in DOMAIN vstored /\ 2 \in DOMAIN vstored
      BY <2>1, <2>2, <3>1 DEF Replied
    <3> QED BY <3>2
  <2>4. ASSUME V!At("poll"), V!Reply \in {vstored[i] : i \in DOMAIN vstored}
        PROVE  vrx.used # vbefore
    <3>1. vpc = 21
      BY <2>4, LabelsHold DEF VInv, Labels
    <3>2. PICK i \in 1 .. vrx.used : vstored[i] = V!Reply
      BY <2>1, <2>2, <2>4
    <3> QED BY <3>1, <3>2 DEF VInv, Sampled
  <2>5. ASSUME vpc = V!End, vresult.status = "ok", vstored = <<V!Reply>>
        PROVE  vresult.isReply /\ vresult.ip = V!Reply
    BY <2>5, BootIs DEF VInv, ReadRight
  <2> QED BY <2>3, <2>4, <2>5 DEF ReplyNotMissed, V!ReplyNotMissed
<1> QED BY <1>1, RingsInvariance, PTL


LEMMA RoundUp ==
  ASSUME NEW a \in Nat
  PROVE  /\ V!DivCeil(a, 4096) \in Nat
         /\ a <= V!DivCeil(a, 4096) * 4096
BY DEF V!DivCeil

(***************************************************************************)
(* For every queue size, vring_size and vring_offsets keep the descriptor  *)
(* table, the available ring and the used ring apart, and the frames that  *)
(* are allocated for them hold all three.                                  *)
(***************************************************************************)
THEOREM RingsLaidOut == \A n \in Nat : V!RingsFit(n)
<1> SUFFICES ASSUME NEW n \in Nat PROVE V!RingsFit(n)
  OBVIOUS
<1>1. PICK u : u = V!DivCeil(16 * n + 2 * (n + 3), 4096)
  OBVIOUS
<1>2. u \in Nat /\ 16 * n + 2 * (n + 3) <= u * 4096
  BY <1>1, RoundUp
<1>3. PICK z : z = V!VringSize(n, 4096)
  OBVIOUS
<1>4. z = u * 4096 + 2 * 3 + 8 * n
  BY <1>1, <1>3 DEF V!VringSize
<1>5. V!FreshQueue(n).frames = V!DivCeil(z, 4096)
  BY <1>3 DEF V!FreshQueue, V!NoQueue, V!VRING_ALIGN, V!FRAME_SIZE
<1>6. z <= V!DivCeil(z, 4096) * 4096
  BY <1>2, <1>4, RoundUp
<1>7. V!VringOffsets(n, V!VRING_ALIGN) = [desc |-> 0, avail |-> 16 * n, used |-> u * 4096]
  BY <1>1 DEF V!VringOffsets, V!VRING_ALIGN
<1> QED BY <1>2, <1>4, <1>5, <1>6, <1>7 DEF V!RingsFit, V!FRAME_SIZE


-----------------------------------------------------------------------------
(* The inductive invariant of TcpEcho.  Sequence numbers of the peer are   *)
(* offsets from its initial one, none of them above Len(Payload) + 2.      *)

Seg == [ours : BOOLEAN, flags : T!Flags, seq : T!SeqNo, ack : T!SeqNo,
        data : Seq(Nat)]

PeerState == [st : {"listen", "synrcvd", "est", "closewait", "closed"}, isn : T!SeqNo, sent : Nat,
              rcv : T!SeqNo, left : Seq(Nat), fin : BOOLEAN, out : SUBSET Seg]

Uses(f) == Len(f.data) + (IF f.flags \cap {"SYN", "FIN"} = {} THEN 0 ELSE 1)

(* A frame under way or received: a stray one, a RST, or a segment of      *)
(* numbers the peer has used up.                                           *)
Known(f) ==
  /\ f.data # <<>> => \E s \in epeer.out : s.data # <<>>
  /\ \/ ~f.ours /\ f.data = <<>>
     \/ f.flags = {"RST"} /\ f.data = <<>>
     \/ \E k \in 0 .. epeer.sent :
          /\ k + Uses(f) <= epeer.sent
          /\ f.seq = T!Add(epeer.isn, k)
          /\ "SYN" \in f.flags => k = 0

DataOut == \E s \in epeer.out : s.data # <<>>

Peer ==
  /\ epeer \in PeerState
  /\ epeer.sent + Len(epeer.left) + (IF epeer.fin THEN 0 ELSE 1) <= Len(Payload) + 2
  /\ \A s \in epeer.out : Known(s)
  /\ epeer.st # "closed" /\ epeer.left # <<>> =>
       DataOut \/ (epeer.left = Payload /\ epeer.rcv = T!ExpectedAck)

(* What an open peer has seen when the client is in phase c. *)
PeerAt(c) ==
  /\ c = "syn" => epeer.st = "listen"
  /\ c \in {"synack", "ack"} => epeer.st = "synrcvd" /\ epeer.rcv = T!Add(eiss, 1)
  /\ c = "data" => epeer.st = "est" /\ epeer.rcv = T!Add(eiss, 1)
  /\ c \in {"syn", "synack", "ack"} => ~epeer.fin
  /\ c \in {"syn", "synack", "ack", "data"} =>
       /\ epeer.left = <<>>
       /\ epeer.sent = (IF c = "syn" THEN 0 ELSE 1) + (IF epeer.fin THEN 1 ELSE 0)
  /\ c \in {"ack", "data"} => epeerIsn = epeer.isn
  /\ c \in {"echo", "fin"} => epeer.st = "est" /\ epeer.rcv = T!ExpectedAck
  /\ c \in {"fin", "close", "last"} => DataOut
  /\ c = "fin" => \E k \in 0 .. epeer.sent : eseqAfter = T!Add(epeer.isn, k)
  /\ c \in {"close", "last"} => epeer.st = "closewait" /\ epeer.rcv = T!Add(T!ExpectedAck, 1)
  /\ c = "last" => \E k \in 0 .. epeer.sent : T!Add(efinSeq, 1) = T!Add(epeer.isn, k)

Heard(c) == epeer.st = "closed" \/ PeerAt(c)

(* The segment of phase c. *)
OutAt(c) ==
  CASE c = "syn"  -> T!Segment({"SYN"}, eiss, 0, <<>>)
    [] c = "ack"  -> T!Segment({"ACK"}, T!Add(eiss, 1), T!Add(epeerIsn, 1), <<>>)
    [] c = "data" -> T!Segment({"PSH", "ACK"}, T!Add(eiss, 1), T!Add(epeerIsn, 1), Payload)
    [] c = "fin"  -> T!Segment({"FIN", "ACK"}, T!ExpectedAck, eseqAfter, <<>>)
    [] c = "last" -> T!Segment({"ACK"}, T!Add(T!ExpectedAck, 1), T!Add(efinSeq, 1), <<>>)

After(c) == CASE c = "syn" -> "synack" [] c = "ack" -> "data" [] c = "data" -> "echo"
              [] c = "fin" -> "close" [] c = "last" -> "last"

(* Between posting and DD, and even after the call has given up. *)
Sequence ==
  /\ epc \in T!Sending \cup {"synack", "echo", "close", "idle"}
  /\ eiss \in T!SeqNo /\ epeerIsn \in T!SeqNo /\ eseqAfter \in T!SeqNo /\ efinSeq \in T!SeqNo
  /\ \A s \in etx : \E c \in T!Sending : s = OutAt(c) /\ Heard(c) /\ (epc # "idle" => c = epc)
  /\ epc # "idle" /\ ~etxDone => Heard(epc)
  /\ epc # "idle" /\ etxDone  => epc \in T!Sending /\ etx = {} /\ Heard(After(epc))
  /\ epc \notin T!Sending /\ epc # "idle" => etx = {}
  /\ erefused = {}

(* A frame tcp_echo_test may return, and no data before the first of them. *)
Echo(f) == T!IsEcho(f) /\ T!IsPrefix(f.data, Payload)

HasEcho(q) == \E j \in 1 .. Len(q) : Echo(q[j])
Fronted(q) == \A i \in 1 .. Len(q) : q[i].data # <<>> => \E j \in 1 .. i : Echo(q[j])

Order ==
  /\ erx \in Seq(Seg) /\ elink \in Seq(Seg) /\ Len(erx) <= NumRx
  /\ \A i \in 1 .. Len(erx)   : Known(erx[i])
  /\ \A i \in 1 .. Len(elink) : Known(elink[i])
  /\ Fronted(erx)
  /\ Len(erx) < NumRx => /\ HasEcho(erx) \/ Fronted(elink)
                         /\ DataOut => HasEcho(erx) \/ HasEcho(elink)

(* What has been read from the slots so far. *)
Polled ==
  /\ eslot \in Nat
  /\ epc \in {"syn", "synack", "ack", "data"} => eslot = 0
  /\ epc \in {"ack", "data", "echo"} => erx # <<>> /\ erx[1].data = <<>>
  /\ epc = "echo" => eslot \in 1 .. Len(erx) /\ \A i \in 2 .. eslot : ~T!IsEcho(erx[i])
  /\ epc \in {"fin", "close", "last"} \/ eresult = "ok" => echoed # <<>> /\ T!IsPrefix(echoed, Payload)

EInv == Peer /\ Sequence /\ Order /\ Polled

-----------------------------------------------------------------------------
(* Arithmetic of sequence numbers. *)

LEMMA Sizes ==
  /\ SeqSpace \in Nat /\ Len(Payload) \in Nat /\ SeqSpace > 2 * (Len(Payload) + 2)
  /\ Payload \in Seq(Nat) /\ Payload # <<>> /\ Len(Payload) > 0
  /\ 0 \in T!SeqNo /\ T!SeqNo \subseteq Nat /\ \A a \in T!SeqNo : a < SeqSpace
BY TcpEchoAssumption DEF T!Assumptions, T!SeqNo

LEMMA ModCases ==
  ASSUME NEW m \in Nat, m > 0, NEW x \in Nat, x < 2 * m
  PROVE  x % m = IF x < m THEN x ELSE x - m
<1>1. x < m => x % m = x
  OBVIOUS
<1>2. x >= m => x % m = x - m
  OBVIOUS
<1> QED BY <1>1, <1>2

LEMMA AddCases ==
  ASSUME NEW a \in T!SeqNo, NEW k \in Nat, k <= SeqSpace
  PROVE  /\ T!Add(a, k) \in T!SeqNo
         /\ T!Add(a, k) = IF a + k < SeqSpace THEN a + k ELSE a + k - SeqSpace
<1>1. a + k \in Nat /\ a + k < 2 * SeqSpace /\ SeqSpace > 0 /\ SeqSpace \in Nat
  BY Sizes
<1>2. T!Add(a, k) = IF a + k < SeqSpace THEN a + k ELSE a + k - SeqSpace
  <2>1. PICK x \in Nat : x = a + k /\ x < 2 * SeqSpace
    BY <1>1
  <2>2. x % SeqSpace = IF x < SeqSpace THEN x ELSE x - SeqSpace
    BY <1>1, <2>1, ModCases
  <2>3. T!Add(a, k) = x % SeqSpace
    BY <2>1 DEF T!Add
  <2>4. a \in Nat /\ SeqSpace \in Nat
    BY Sizes
  <2>5. T!Add(a, k) = IF x < SeqSpace THEN x ELSE x - SeqSpace
    BY <2>2, <2>3
  <2> QED BY <2>1, <2>4, <2>5
<1> QED BY <1>1, <1>2, Sizes DEF T!SeqNo

LEMMA AddAdd ==
  ASSUME NEW a \in T!SeqNo, NEW j \in Nat, NEW k \in Nat, j + k < SeqSpace
  PROVE  T!Add(T!Add(a, j), k) = T!Add(a, j + k)
<1>1. j <= SeqSpace /\ k <= SeqSpace /\ j + k \in Nat /\ a \in Nat /\ a < SeqSpace /\ SeqSpace \in Nat
  BY Sizes
<1>2. PICK b \in T!SeqNo : b = T!Add(a, j) /\ b = IF a + j < SeqSpace THEN a + j ELSE a + j - SeqSpace
  BY <1>1, AddCases
<1>3. b \in Nat
  BY Sizes
<1>4. T!Add(b, k) = IF b + k < SeqSpace THEN b + k ELSE b + k - SeqSpace
  BY <1>1, AddCases
<1>5. T!Add(a, j + k) = IF a + (j + k) < SeqSpace THEN a + (j + k) ELSE a + (j + k) - SeqSpace
  BY <1>1, AddCases
<1> QED BY <1>1, <1>2, <1>3, <1>4, <1>5

LEMMA AddZero == ASSUME NEW a \in T!SeqNo PROVE T!Add(a, 0) = a
BY AddCases, Sizes

(* The peer finds the offset of a number again. *)
LEMMA Offset ==
  ASSUME NEW a \in T!SeqNo, NEW k \in Nat, k < SeqSpace
  PROVE  T!Add(T!Add(a, k), SeqSpace - a) = k
<1>1. SeqSpace - a \in Nat /\ SeqSpace - a <= SeqSpace /\ a \in Nat /\ SeqSpace \in Nat
  BY Sizes
<1>2. PICK b \in T!SeqNo : b = T!Add(a, k) /\ b = IF a + k < SeqSpace THEN a + k ELSE a + k - SeqSpace
  <2>1. k <= SeqSpace
    BY <1>1
  <2> QED BY <2>1, AddCases
<1>3. PICK d \in Nat : d = SeqSpace - a /\ d <= SeqSpace
  BY <1>1
<1>4. b \in Nat
  BY Sizes
<1>5. T!Add(b, d) = IF b + d < SeqSpace THEN b + d ELSE b + d - SeqSpace
  BY <1>3, AddCases
<1> QED BY <1>1, <1>2, <1>3, <1>4, <1>5

LEMMA AckType == ASSUME Sequence PROVE T!ExpectedAck \in T!SeqNo /\ T!Add(eiss, 1) \in T!SeqNo
                                       /\ T!Add(T!ExpectedAck, 1) \in T!SeqNo
<1>1. 1 \in Nat /\ 1 <= SeqSpace /\ Len(Payload) <= SeqSpace
  BY Sizes
<1>2. T!Add(eiss, 1) \in T!SeqNo
  BY <1>1, AddCases DEF Sequence
<1>3. T!ExpectedAck \in T!SeqNo
  BY <1>1, <1>2, AddCases, Sizes DEF T!ExpectedAck
<1> QED BY <1>1, <1>2, <1>3, AddCases

-----------------------------------------------------------------------------
(* Segments and queues of frames. *)

LEMMA OutgoingIs == ASSUME epc \in T!Sending PROVE T!Outgoing = OutAt(epc)
BY DEF T!Outgoing, OutAt, T!Sending

(* A beginning of the payload. *)
LEMMA PieceIsPrefix ==
  ASSUME NEW n \in 0 .. Len(Payload)
  PROVE  T!IsPrefix(SubSeq(Payload, 1, n), Payload)
BY Sizes DEF T!IsPrefix

LEMMA AppendFrame ==
  ASSUME NEW q \in Seq(Seg), NEW f \in Seg
  PROVE  /\ Append(q, f) \in Seq(Seg) /\ Len(Append(q, f)) = Len(q) + 1 /\ Append(q, f)[Len(q) + 1] = f
         /\ \A i \in 1 .. Len(q) : Append(q, f)[i] = q[i]
<1> DEFINE S == Seg
<1> HIDE DEF S
<1>1. q \in Seq(S) /\ f \in S
  BY DEF S
<1>2. /\ Append(q, f) \in Seq(S) /\ Len(Append(q, f)) = Len(q) + 1 /\ Append(q, f)[Len(q) + 1] = f
      /\ \A i \in 1 .. Len(q) : Append(q, f)[i] = q[i]
  BY <1>1
<1> QED BY <1>2 DEF S

(* A frame behind others keeps the order if it brings no data, follows an *)
(* echo, or is one.                                                        *)
LEMMA FrontedAppend ==
  ASSUME NEW q \in Seq(Seg), NEW f \in Seg, Fronted(q), f.data = <<>> \/ HasEcho(q) \/ Echo(f)
  PROVE  Fronted(Append(q, f))
<1> DEFINE r == Append(q, f)
           n == Len(q)
<1>1. n \in Nat /\ Len(r) = n + 1 /\ r[n + 1] = f /\ \A i \in 1 .. n : r[i] = q[i]
  BY AppendFrame
<1> HIDE DEF r
<1> SUFFICES ASSUME NEW i \in 1 .. n + 1, r[i].data # <<>> PROVE \E j \in 1 .. i : Echo(r[j])
  BY <1>1 DEF Fronted, r
<1>2. CASE i \in 1 .. n
  <2>1. PICK j \in 1 .. i : Echo(q[j])
    BY <1>1, <1>2 DEF Fronted
  <2> QED BY <1>1, <1>2, <2>1
<1>3. CASE i = n + 1
  <2>1. CASE HasEcho(q)
    <3>1. PICK j \in 1 .. n : Echo(q[j])
      BY <2>1 DEF HasEcho
    <3> QED BY <1>1, <1>3, <3>1
  <2>2. CASE Echo(f)
    BY <1>1, <1>3, <2>2
  <2> QED BY <1>1, <1>3, <2>1, <2>2
<1> QED BY <1>1, <1>2, <1>3

LEMMA HasEchoAppend ==
  ASSUME NEW q \in Seq(Seg), NEW f \in Seg, HasEcho(q) \/ Echo(f)
  PROVE  HasEcho(Append(q, f))
<1> DEFINE r == Append(q, f)
           n == Len(q)
<1>1. n \in Nat /\ Len(r) = n + 1 /\ r[n + 1] = f /\ \A i \in 1 .. n : r[i] = q[i]
  BY AppendFrame
<1> HIDE DEF r
<1>2. \E j \in 1 .. n + 1 : Echo(r[j])
  <2>1. CASE HasEcho(q)
    BY <1>1, <2>1 DEF HasEcho
  <2>2. CASE Echo(f)
    BY <1>1, <2>2
  <2> QED BY <2>1, <2>2
<1> QED BY <1>1, <1>2 DEF HasEcho, r

(* The peer sends a segment: its fields one by one. *)
LEMMA EmitIs ==
  ASSUME NEW p \in PeerState, NEW fl \in T!Flags, NEW d \in Seq(Nat),
         p.sent <= SeqSpace, NEW e, e = T!Emit(p, fl, d),
         NEW s, s = T!Segment(fl, T!Add(p.isn, p.sent), p.rcv, d)
  PROVE  /\ e.seg = s /\ s \in Seg /\ e.p \in PeerState
         /\ e.p.st = p.st /\ e.p.isn = p.isn /\ e.p.rcv = p.rcv /\ e.p.left = p.left
         /\ e.p.sent = p.sent + Uses(s) /\ (e.p.fin <=> p.fin \/ "FIN" \in fl)
         /\ (Uses(s) = 0 => e.p.out = p.out) /\ (Uses(s) # 0 => e.p.out = p.out \cup {s})
<1> DEFINE n == Len(d) + (IF fl \cap {"SYN", "FIN"} = {} THEN 0 ELSE 1)
<1>1. s \in Seg /\ Uses(s) = n /\ n \in Nat
  <2>1. T!Add(p.isn, p.sent) \in T!SeqNo /\ p.rcv \in T!SeqNo
    BY AddCases DEF PeerState
  <2> QED BY <2>1 DEF Seg, T!Segment, Uses
<1>2. e.seg = s
  BY DEF T!Emit, T!Nxt
<1> HIDE DEF n
<1>3. PICK m \in Nat : m = p.sent + n
  BY <1>1 DEF PeerState
<1>4. PICK a : a = [p EXCEPT !.sent = m]
  OBVIOUS
<1>5. /\ a \in PeerState /\ a.sent = m /\ a.st = p.st /\ a.isn = p.isn /\ a.rcv = p.rcv
      /\ a.left = p.left /\ a.fin = p.fin /\ a.out = p.out
  BY <1>4 DEF PeerState
<1>6. PICK b : b = [a EXCEPT !.fin = @ \/ "FIN" \in fl]
  OBVIOUS
<1>7. /\ b \in PeerState /\ b.sent = a.sent /\ b.st = a.st /\ b.isn = a.isn /\ b.rcv = a.rcv
      /\ b.left = a.left /\ (b.fin <=> p.fin \/ "FIN" \in fl) /\ b.out = p.out
  BY <1>5, <1>6 DEF PeerState
<1>8. PICK c : c = [b EXCEPT !.out = IF n = 0 THEN @ ELSE @ \cup {s}]
  OBVIOUS
<1>9. /\ c \in PeerState /\ c.sent = b.sent /\ c.st = b.st /\ c.isn = b.isn /\ c.rcv = b.rcv
      /\ c.left = b.left /\ (c.fin <=> b.fin) /\ c.out = (IF n = 0 THEN p.out ELSE p.out \cup {s})
  BY <1>1, <1>7, <1>8 DEF PeerState
<1>10. e.p = c
  BY <1>3, <1>4, <1>6, <1>8 DEF T!Emit, T!Nxt, n
<1> QED BY <1>1, <1>2, <1>3, <1>5, <1>7, <1>9, <1>10

-----------------------------------------------------------------------------
(* What a step that leaves the peer, or the queues, alone preserves. *)

LEMMA PeerSame == ASSUME Peer, UNCHANGED <<epeer, eiss>> PROVE Peer'
BY DEF Peer, Known, DataOut, T!ExpectedAck

LEMMA OrderSame == ASSUME Order, UNCHANGED <<epeer, eiss, erx, elink>> PROVE Order'
<1>1. \A f : (Known(f) <=> Known(f)') /\ (Echo(f) <=> Echo(f)')
  BY DEF Known, Echo, T!IsEcho, T!ExpectedAck
<1>2. DataOut <=> DataOut'
  BY DEF DataOut
<1> QED BY <1>1, <1>2 DEF Order, Fronted, HasEcho

LEMMA HeardSame ==
  ASSUME NEW c, Heard(c), UNCHANGED <<epeer, eiss, epeerIsn, eseqAfter, efinSeq>>
  PROVE  Heard(c)'
BY DEF Heard, PeerAt, DataOut, T!ExpectedAck

LEMMA TxSame ==
  ASSUME Sequence, UNCHANGED <<epeer, eiss, epeerIsn, eseqAfter, efinSeq>>, etx' \subseteq etx,
         epc' # "idle" => epc' = epc
  PROVE  \A s \in etx' : \E c \in T!Sending : s = OutAt(c)' /\ Heard(c)' /\ (epc' # "idle" => c = epc')
<1> SUFFICES ASSUME NEW s \in etx'
             PROVE  \E c \in T!Sending : s = OutAt(c)' /\ Heard(c)' /\ (epc' # "idle" => c = epc')
  OBVIOUS
<1>1. PICK c \in T!Sending : s = OutAt(c) /\ Heard(c) /\ (epc # "idle" => c = epc)
  BY DEF Sequence
<1>2. Heard(c)'
  BY <1>1, HeardSame
<1>3. OutAt(c)' = OutAt(c)
  BY DEF OutAt, T!ExpectedAck
<1>4. epc' # "idle" => epc # "idle"
  OBVIOUS
<1> QED BY <1>1, <1>2, <1>3, <1>4

-----------------------------------------------------------------------------
(* The client sends. *)

LEMMA PostKeeps == ASSUME EInv, T!Post PROVE EInv'
<1>1. /\ epc \in T!Sending /\ etx = {} /\ ~etxDone /\ etx' = {OutAt(epc)} /\ epc # "idle"
      /\ UNCHANGED <<epc, eiss, epeerIsn, etxDone, eslot, echoed, eseqAfter, efinSeq, eresult, erx,
                     epeer, elink, erefused>>
  BY OutgoingIs DEF T!Post, T!Sending
<1>2. Heard(epc) /\ Heard(epc)'
  BY <1>1, HeardSame DEF EInv, Sequence
<1>3. OutAt(epc)' = OutAt(epc)
  BY <1>1 DEF OutAt, T!ExpectedAck
<1>4. Sequence'
  BY <1>1, <1>2, <1>3 DEF EInv, Sequence
<1>5. Polled'
  BY <1>1 DEF EInv, Polled, T!IsEcho, T!ExpectedAck
<1> QED BY <1>1, <1>4, <1>5, PeerSame, OrderSame DEF EInv

LEMMA SentKeeps == ASSUME EInv, T!Sent PROVE EInv'
<1>1. /\ epc \in T!Sending /\ etxDone /\ ~etxDone' /\ epc # "idle"
      /\ UNCHANGED <<eiss, epeerIsn, etx, echoed, eseqAfter, efinSeq, erx, epeer, elink, erefused>>
      /\ eslot' = IF epc = "data" THEN 1 ELSE eslot
  BY DEF T!Sent, T!Sending
<1>2. PICK c : c = After(epc)
  OBVIOUS
<1>3. etx = {} /\ Heard(c) /\ Heard(c)'
  <2>1. etx = {} /\ Heard(c)
    BY <1>1, <1>2 DEF EInv, Sequence
  <2> QED BY <1>1, <2>1, HeardSame
<1>4. epc # "last" => epc' = c /\ eresult' = eresult
  <2> SUFFICES ASSUME epc # "last" PROVE epc' = c /\ eresult' = eresult
    OBVIOUS
  <2>1. epc' = CASE epc = "syn" -> "synack" [] epc = "ack"  -> "data"
                 [] epc = "data" -> "echo"  [] epc = "fin"  -> "close"
    BY DEF T!Sent
  <2>2. eresult' = eresult
    BY DEF T!Sent
  <2>3. epc' = c
    BY <1>1, <1>2, <2>1 DEF After, T!Sending
  <2> QED BY <2>2, <2>3
<1>5. epc = "last" => epc' = "idle" /\ eresult' = "ok"
  BY DEF T!Sent, T!Return
<1>6. epc # "last" => c \in {"synack", "data", "echo", "close"} /\ (c = "echo" <=> epc = "data")
                      /\ (c = "close" => epc = "fin") /\ (c = "data" => epc = "ack") /\ (c = "synack" => epc = "syn")
  BY <1>1, <1>2 DEF After, T!Sending
<1>7. Sequence'
  BY <1>1, <1>3, <1>4, <1>5, <1>6 DEF EInv, Sequence, T!Sending
<1>8. Polled'
  <2>1. CASE epc = "data"
    <3>1. epc' = "echo" /\ eslot' = 1 /\ eresult' = eresult
      BY <1>1, <1>4, <1>6, <2>1
    <3>2. erx # <<>> /\ erx[1].data = <<>> /\ Len(erx) \in Nat /\ Len(erx) > 0
      BY <2>1 DEF EInv, Polled, Order
    <3> QED BY <1>1, <3>1, <3>2 DEF EInv, Polled
  <2>2. CASE epc # "data"
    <3>1. eslot' = eslot
      BY <1>1, <2>2
    <3> QED BY <1>1, <1>4, <1>5, <1>6, <2>2, <3>1 DEF EInv, Polled
  <2> QED BY <2>1, <2>2
<1> QED BY <1>1, <1>7, <1>8, PeerSame, OrderSame DEF EInv

(* The call gives up: on a frame not sent or not heard in time. *)
LEMMA GivesUp ==
  ASSUME EInv, epc' = "idle", eresult' = "ok" => echoed # <<>> /\ T!IsPrefix(echoed, Payload),
         UNCHANGED <<eiss, epeerIsn, etx, eslot, echoed, eseqAfter, efinSeq, erx, epeer, elink, erefused>>
  PROVE  EInv'
<1>1. Sequence'
  BY TxSame DEF EInv, Sequence
<1>2. Polled'
  BY DEF EInv, Polled
<1> QED BY <1>1, <1>2, PeerSame, OrderSame DEF EInv

LEMMA TimeoutsKeep == ASSUME EInv, T!SendTimeout \/ T!PollTimeout PROVE EInv'
<1>1. /\ epc' = "idle"
      /\ UNCHANGED <<eiss, epeerIsn, etx, eslot, echoed, eseqAfter, efinSeq, erx, epeer, elink, erefused>>
      /\ eresult' = "ok" => epc = "close"
  BY DEF T!SendTimeout, T!PollTimeout, T!Return, T!rxUnchanged
<1>2. epc = "close" => echoed # <<>> /\ T!IsPrefix(echoed, Payload)
  BY DEF EInv, Polled
<1> QED BY <1>1, <1>2, GivesUp

-----------------------------------------------------------------------------
(* The client polls. *)

(* A slot that is filled holds a known frame. *)
LEMMA FrameIs ==
  ASSUME EInv, T!Filled
  PROVE  /\ T!Frame = erx[eslot + 1] /\ T!Frame \in Seg /\ Known(T!Frame)
         /\ eslot \in Nat /\ eslot + 1 \in 1 .. Len(erx) /\ Len(erx) \in Nat
<1>1. eslot \in Nat /\ erx \in Seq(Seg) /\ eslot < Len(erx)
  BY DEF EInv, Order, Polled, T!Filled
<1>2. eslot + 1 \in 1 .. Len(erx) /\ Len(erx) \in Nat
  BY <1>1
<1>3. erx[eslot + 1] \in Seg
  <2> DEFINE S == Seg
  <2> HIDE DEF S
  <2>1. erx \in Seq(S)
    BY <1>1 DEF S
  <2>2. erx[eslot + 1] \in S
    BY <1>2, <2>1
  <2> QED BY <2>2 DEF S
<1> QED BY <1>1, <1>2, <1>3 DEF EInv, Order, T!Frame

(* A segment of the peer that is neither stray nor a RST has its numbers. *)
LEMMA NumbersOf ==
  ASSUME NEW f \in Seg, Known(f), f.ours, f.flags # {"RST"} \/ f.data # <<>>
  PROVE  \E k \in 0 .. epeer.sent : /\ k + Uses(f) <= epeer.sent /\ f.seq = T!Add(epeer.isn, k)
                                    /\ "SYN" \in f.flags => k = 0
BY DEF Known

LEMMA UsesIs ==
  ASSUME NEW f \in Seg
  PROVE  /\ Len(f.data) \in Nat /\ Uses(f) \in Nat /\ Len(f.data) <= Uses(f)
         /\ "SYN" \in f.flags \/ "FIN" \in f.flags => Uses(f) = Len(f.data) + 1
         /\ "SYN" \notin f.flags /\ "FIN" \notin f.flags => Uses(f) = Len(f.data)
<1>1. PICK n \in Nat : n = Len(f.data)
  BY DEF Seg
<1>2. PICK m \in {0, 1} : m = IF f.flags \cap {"SYN", "FIN"} = {} THEN 0 ELSE 1
  OBVIOUS
<1>3. Uses(f) = n + m
  BY <1>1, <1>2 DEF Uses
<1>4. "SYN" \in f.flags \/ "FIN" \in f.flags <=> f.flags \cap {"SYN", "FIN"} # {}
  OBVIOUS
<1>5. m = IF "SYN" \in f.flags \/ "FIN" \in f.flags THEN 1 ELSE 0
  BY <1>2, <1>4
<1>6. Uses(f) \in Nat /\ n <= Uses(f) /\ (m = 1 => Uses(f) = n + 1) /\ (m = 0 => Uses(f) = n)
  BY <1>1, <1>3
<1>7. CASE "SYN" \in f.flags \/ "FIN" \in f.flags
  BY <1>1, <1>5, <1>6, <1>7
<1>8. CASE ~("SYN" \in f.flags \/ "FIN" \in f.flags)
  BY <1>1, <1>5, <1>6, <1>8
<1> QED BY <1>7, <1>8

LEMMA SentBound ==
  ASSUME Peer
  PROVE  epeer.sent \in Nat /\ epeer.sent < SeqSpace /\ epeer.isn \in T!SeqNo /\ epeer.sent <= Len(Payload) + 2
<1>1. epeer.sent \in Nat /\ epeer.isn \in T!SeqNo /\ Len(epeer.left) \in Nat
  BY DEF Peer, PeerState
<1>2. epeer.sent <= Len(Payload) + 2
  BY <1>1, Sizes DEF Peer
<1> QED BY <1>1, <1>2, Sizes

(* Not transmitting: neither pending nor done. *)
LEMMA Quiet ==
  ASSUME Sequence, epc \in {"synack", "echo", "close"}
  PROVE  ~etxDone /\ etx = {} /\ Heard(epc) /\ epc # "idle" /\ epc \notin T!Sending
BY DEF Sequence, T!Sending

LEMMA SynAckKeeps == ASSUME EInv, T!PollSynAck PROVE EInv'
<1>1. /\ epc = "synack" /\ T!Filled
      /\ UNCHANGED <<eiss, etx, etxDone, eslot, echoed, eseqAfter, efinSeq, erx, epeer, elink, erefused>>
  BY DEF T!PollSynAck, T!rxUnchanged
<1>2. CASE ~T!IsSynAck(T!Frame)
  BY <1>1, <1>2, GivesUp DEF T!PollSynAck, T!Return
<1>3. CASE T!IsSynAck(T!Frame)
  <2>1. epeerIsn' = T!Frame.seq /\ epc' = "ack" /\ eresult' = eresult
    BY <1>3 DEF T!PollSynAck
  <2>2. PICK f : f = T!Frame
    OBVIOUS
  <2>3. eslot = 0 /\ f = erx[1] /\ f \in Seg /\ Known(f) /\ 1 \in 1 .. Len(erx)
    BY <1>1, <2>2, FrameIs DEF EInv, Polled
  <2>4. f.ours /\ f.flags = {"SYN", "ACK"} /\ f.ack = T!Add(eiss, 1)
    BY <1>3, <2>2 DEF T!IsSynAck
  <2>5. f.seq = epeer.isn
    <3>1. f.seq = T!Add(epeer.isn, 0)
      BY <2>3, <2>4, NumbersOf
    <3> QED BY <3>1, AddZero, SentBound DEF EInv
  <2>6. f.data = <<>>
    <3>1. T!ExpectedAck # T!Add(eiss, 1)
      <4>1. PICK a \in T!SeqNo : a = T!Add(eiss, 1)
        BY AckType DEF EInv
      <4>2. PICK n \in Nat : n = Len(Payload) /\ n > 0 /\ n < SeqSpace /\ n <= SeqSpace
        BY Sizes
      <4>3. T!Add(a, n) = IF a + n < SeqSpace THEN a + n ELSE a + n - SeqSpace
        BY <4>2, AddCases
      <4>4. T!Add(a, n) # a
        BY <4>2, <4>3, Sizes
      <4> QED BY <4>1, <4>2, <4>4 DEF T!ExpectedAck
    <3>2. f.data # <<>> => \E j \in 1 .. 1 : Echo(erx[j])
      BY <2>3 DEF EInv, Order, Fronted
    <3>3. f.data # <<>> => Echo(f)
      BY <2>3, <3>2
    <3> QED BY <2>4, <3>1, <3>3 DEF Echo, T!IsEcho
  <2>7. Heard(epc)'
    <3>1. Heard("synack")
      BY <1>1, Quiet DEF EInv
    <3>2. epeerIsn' = epeer'.isn /\ epc' = "ack"
      BY <1>1, <2>1, <2>2, <2>5
    <3>3. epeer'.st = "closed" \/ PeerAt("ack")'
      BY <1>1, <3>1, <3>2 DEF Heard, PeerAt
    <3> QED BY <3>2, <3>3 DEF Heard
  <2>8. epeerIsn' \in T!SeqNo
    BY <2>1, <2>2, <2>3 DEF Seg
  <2>9. Sequence'
    BY <1>1, <2>1, <2>7, <2>8, Quiet DEF EInv, Sequence, T!Sending
  <2>10. Polled'
    BY <1>1, <2>1, <2>3, <2>6 DEF EInv, Polled
  <2> QED BY <1>1, <2>9, <2>10, PeerSame, OrderSame DEF EInv
<1> QED BY <1>2, <1>3

(***************************************************************************)
(* The first frame that passes for an echo is the first with data at all,  *)
(* and that one carries a beginning of the payload.                        *)
(***************************************************************************)
LEMMA EchoKeeps == ASSUME EInv, T!PollEcho PROVE EInv'
<1>1. /\ epc = "echo" /\ T!Filled /\ eslot' = eslot + 1 /\ eresult' = eresult
      /\ UNCHANGED <<eiss, epeerIsn, etx, etxDone, efinSeq, erx, epeer, elink, erefused>>
  BY DEF T!PollEcho, T!rxUnchanged
<1>2. PICK f : f = T!Frame
  OBVIOUS
<1>3. f = erx[eslot + 1] /\ f \in Seg /\ Known(f) /\ eslot + 1 \in 1 .. Len(erx) /\ Len(erx) \in Nat
  BY <1>1, <1>2, FrameIs
<1>4. eslot \in 1 .. Len(erx) /\ erx[1].data = <<>> /\ erx # <<>> /\ \A i \in 2 .. eslot : ~T!IsEcho(erx[i])
  BY <1>1 DEF EInv, Polled
<1>5. ~etxDone /\ etx = {} /\ Heard("echo")
  BY <1>1, Quiet DEF EInv
<1>6. CASE ~T!IsEcho(f)
  <2>1. UNCHANGED <<echoed, eseqAfter, epc>>
    BY <1>2, <1>6 DEF T!PollEcho
  <2>2. \A i \in 2 .. eslot + 1 : ~T!IsEcho(erx[i])
    BY <1>3, <1>4, <1>6
  <2>3. Polled'
    BY <1>1, <1>3, <1>4, <2>1, <2>2 DEF EInv, Polled, T!IsEcho, T!ExpectedAck
  <2>4. Sequence'
    BY <1>1, <1>5, <2>1, HeardSame DEF EInv, Sequence
  <2> QED BY <1>1, <2>3, <2>4, PeerSame, OrderSame DEF EInv
<1>7. CASE T!IsEcho(f)
  <2>1. echoed' = f.data /\ eseqAfter' = T!Add(f.seq, Len(f.data)) /\ epc' = "fin"
    BY <1>2, <1>7 DEF T!PollEcho
  <2>2. f.data # <<>> /\ f.ours /\ f.data \in Seq(Nat)
    BY <1>3, <1>7 DEF T!IsEcho, Seg
  <2>3. T!IsPrefix(f.data, Payload)
    <3>1. PICK j \in 1 .. eslot + 1 : Echo(erx[j])
      BY <1>3, <2>2 DEF EInv, Order, Fronted
    <3>2. j # 1 /\ j \notin 2 .. eslot
      BY <1>4, <3>1 DEF Echo, T!IsEcho
    <3>3. j = eslot + 1
      BY <1>4, <3>1, <3>2
    <3> QED BY <1>3, <3>1, <3>3 DEF Echo
  <2>4. PICK k \in 0 .. epeer.sent : k + Uses(f) <= epeer.sent /\ f.seq = T!Add(epeer.isn, k)
    BY <1>3, <2>2, NumbersOf
  <2>5. PICK n \in Nat : n = Len(f.data) /\ n <= Uses(f)
    BY <1>3, UsesIs
  <2>6. Uses(f) \in Nat
    BY <1>3, UsesIs
  <2>7. k \in Nat /\ k + n \in 0 .. epeer.sent /\ k + n < SeqSpace
    BY <2>4, <2>5, <2>6, SentBound, Sizes DEF EInv
  <2>8. eseqAfter' = T!Add(epeer.isn, k + n)
    BY <2>1, <2>4, <2>5, <2>7, AddAdd, SentBound DEF EInv
  <2>9. Heard("fin")'
    <3>1. DataOut
      BY <1>3, <2>2 DEF Known, DataOut
    <3>2. \E i \in 0 .. epeer'.sent : eseqAfter' = T!Add(epeer'.isn, i)
      BY <1>1, <2>7, <2>8
    <3> QED BY <1>1, <1>5, <3>1, <3>2 DEF Heard, PeerAt, DataOut, T!ExpectedAck
  <2>10. eseqAfter' \in T!SeqNo
    <3>1. k + n \in Nat /\ k + n <= SeqSpace
      BY <2>7, Sizes
    <3> QED BY <2>8, <3>1, AddCases, SentBound DEF EInv
  <2>11. Sequence'
    BY <1>1, <1>5, <2>1, <2>9, <2>10 DEF EInv, Sequence, T!Sending
  <2>12. Polled'
    BY <1>1, <1>3, <2>1, <2>2, <2>3 DEF EInv, Polled
  <2> QED BY <1>1, <2>11, <2>12, PeerSame, OrderSame DEF EInv
<1> QED BY <1>6, <1>7

LEMMA FinKeeps == ASSUME EInv, T!PollFin PROVE EInv'
<1>1. /\ epc = "close" /\ T!Filled /\ eresult' = eresult /\ echoed' = echoed
      /\ UNCHANGED <<eiss, epeerIsn, eseqAfter, etx, etxDone, erx, epeer, elink, erefused>>
  BY DEF T!PollFin, T!rxUnchanged
<1>2. PICK f : f = T!Frame
  OBVIOUS
<1>3. f \in Seg /\ Known(f) /\ eslot \in Nat
  BY <1>1, <1>2, FrameIs
<1>4. ~etxDone /\ etx = {} /\ Heard("close")
  BY <1>1, Quiet DEF EInv
<1>5. CASE ~T!IsFin(f)
  <2>1. UNCHANGED <<efinSeq, epc>> /\ eslot' = eslot + 1
    BY <1>2, <1>5 DEF T!PollFin
  <2>2. Sequence'
    BY <1>1, <1>4, <2>1, HeardSame DEF EInv, Sequence
  <2>3. Polled'
    BY <1>1, <1>3, <2>1 DEF EInv, Polled
  <2> QED BY <1>1, <2>2, <2>3, PeerSame, OrderSame DEF EInv
<1>6. CASE T!IsFin(f)
  <2>1. efinSeq' = f.seq /\ epc' = "last" /\ eslot' = eslot
    BY <1>2, <1>6 DEF T!PollFin
  <2>2. f.ours /\ "FIN" \in f.flags /\ f.data \in Seq(Nat) /\ f.seq \in T!SeqNo /\ f.flags # {"RST"}
    BY <1>3, <1>6 DEF T!IsFin, Seg
  <2>3. PICK k \in 0 .. epeer.sent : k + Uses(f) <= epeer.sent /\ f.seq = T!Add(epeer.isn, k)
    BY <1>3, <2>2, NumbersOf
  <2>4. Uses(f) \in Nat /\ Uses(f) > 0
    BY <1>3, <2>2, UsesIs
  <2>5. k \in Nat /\ k + 1 \in 0 .. epeer.sent /\ k + 1 < SeqSpace
    BY <2>3, <2>4, SentBound, Sizes DEF EInv
  <2>6. T!Add(efinSeq', 1) = T!Add(epeer.isn, k + 1)
    BY <2>1, <2>3, <2>5, AddAdd, SentBound DEF EInv
  <2>7. Heard("last")'
    <3>1. \E i \in 0 .. epeer'.sent : T!Add(efinSeq, 1)' = T!Add(epeer'.isn, i)
      BY <1>1, <2>5, <2>6 DEF T!Add
    <3> QED BY <1>1, <1>4, <3>1 DEF Heard, PeerAt, DataOut, T!ExpectedAck
  <2>8. Sequence'
    BY <1>1, <1>4, <2>1, <2>2, <2>7 DEF EInv, Sequence, T!Sending
  <2>9. Polled'
    BY <1>1, <1>3, <2>1 DEF EInv, Polled
  <2> QED BY <1>1, <2>8, <2>9, PeerSame, OrderSame DEF EInv
<1> QED BY <1>5, <1>6

-----------------------------------------------------------------------------
(* Frames on the link and in the slots. *)

LEMMA KnownGrows ==
  ASSUME NEW f \in Seg, Known(f), Peer, epeer'.isn = epeer.isn, epeer'.sent \in Nat,
         epeer.sent <= epeer'.sent, DataOut => DataOut'
  PROVE  Known(f)'
<1>1. f.data # <<>> => \E s \in epeer'.out : s.data # <<>>
  BY DEF Known, DataOut
<1>2. CASE \/ ~f.ours /\ f.data = <<>>
           \/ f.flags = {"RST"} /\ f.data = <<>>
  BY <1>1, <1>2 DEF Known
<1>3. CASE \E k \in 0 .. epeer.sent : /\ k + Uses(f) <= epeer.sent /\ f.seq = T!Add(epeer.isn, k)
                                      /\ "SYN" \in f.flags => k = 0
  <2>1. PICK k \in 0 .. epeer.sent : /\ k + Uses(f) <= epeer.sent /\ f.seq = T!Add(epeer.isn, k)
                                     /\ "SYN" \in f.flags => k = 0
    BY <1>3
  <2>2. k \in 0 .. epeer'.sent /\ k + Uses(f) <= epeer'.sent
    BY <2>1, UsesIs, SentBound
  <2>3. f.seq = T!Add(epeer'.isn, k)
    BY <2>1
  <2> QED BY <1>1, <2>1, <2>2, <2>3 DEF Known
<1> QED BY <1>2, <1>3 DEF Known

LEMMA EchoSame == ASSUME eiss' = eiss PROVE \A f : Echo(f) <=> Echo(f)'
BY DEF Echo, T!IsEcho, T!ExpectedAck

LEMMA ItemIs == ASSUME NEW q \in Seq(Seg), NEW i \in 1 .. Len(q) PROVE q[i] \in Seg
<1> DEFINE S == Seg
<1> HIDE DEF S
<1>1. q \in Seq(S)
  BY DEF S
<1>2. q[i] \in S
  BY <1>1
<1> QED BY <1>2 DEF S

LEMMA StillKnown ==
  ASSUME Order, Peer, epeer'.isn = epeer.isn, epeer'.sent \in Nat, epeer.sent <= epeer'.sent,
         DataOut => DataOut'
  PROVE  (\A i \in 1 .. Len(erx) : Known(erx[i]) /\ (\A f : f = erx[i] => Known(f)'))
         /\ (\A i \in 1 .. Len(elink) : Known(elink[i]) /\ (\A f : f = elink[i] => Known(f)'))
<1>1. ASSUME NEW i \in 1 .. Len(erx), NEW f, f = erx[i] PROVE Known(f)'
  BY <1>1, ItemIs, KnownGrows DEF Order
<1>2. ASSUME NEW i \in 1 .. Len(elink), NEW f, f = elink[i] PROVE Known(f)'
  BY <1>2, ItemIs, KnownGrows DEF Order
<1> QED BY <1>1, <1>2 DEF Order

(* The peer goes on without sending. *)
LEMMA SilentOrder ==
  ASSUME Order, Peer, UNCHANGED <<erx, elink, eiss>>, epeer'.isn = epeer.isn, epeer'.sent \in Nat,
         epeer.sent <= epeer'.sent, DataOut <=> DataOut'
  PROVE  Order'
<1>1. \A i \in 1 .. Len(erx') : Known(erx[i])'
  BY StillKnown
<1>2. \A i \in 1 .. Len(elink') : Known(elink[i])'
  BY StillKnown
<1> QED BY <1>1, <1>2, EchoSame DEF Order, Fronted, HasEcho

(* The peer sends a frame: without data, after an echo, or an echo. *)
LEMMA SendOrder ==
  ASSUME Order, Peer, UNCHANGED <<erx, eiss>>, epeer'.isn = epeer.isn, epeer'.sent \in Nat,
         epeer.sent <= epeer'.sent, DataOut => DataOut',
         NEW f \in Seg, elink' = Append(elink, f), Known(f)',
         f.data = <<>> \/ DataOut \/ Echo(f), DataOut' => DataOut \/ Echo(f)
  PROVE  Order'
<1>1. \A i \in 1 .. Len(erx') : Known(erx[i])'
  BY StillKnown
<1>2. /\ elink' \in Seq(Seg) /\ Len(elink') = Len(elink) + 1 /\ elink'[Len(elink) + 1] = f
      /\ \A i \in 1 .. Len(elink) : elink'[i] = elink[i]
  BY AppendFrame DEF Order
<1>3. \A i \in 1 .. Len(elink') : Known(elink[i])'
  <2> SUFFICES ASSUME NEW i \in 1 .. Len(elink') PROVE Known(elink[i])'
    OBVIOUS
  <2>1. Len(elink) \in Nat
    BY DEF Order
  <2>2. CASE i = Len(elink) + 1
    BY <1>2, <2>2 DEF Known
  <2>3. CASE i \in 1 .. Len(elink)
    <3>1. PICK g : g = elink[i]
      OBVIOUS
    <3>2. Known(g)' /\ elink'[i] = g
      BY <1>2, <2>3, <3>1, StillKnown
    <3> QED BY <3>2 DEF Known
  <2> QED BY <1>2, <2>1, <2>2, <2>3
<1>4. Len(erx) < NumRx => /\ HasEcho(erx) \/ Fronted(elink')
                          /\ DataOut' => HasEcho(erx) \/ HasEcho(elink')
  BY FrontedAppend, HasEchoAppend DEF Order
<1>5. Fronted(erx)
  BY DEF Order
<1> QED BY <1>1, <1>2, <1>3, <1>4, <1>5, EchoSame DEF Order, Fronted, HasEcho

LEMMA ClientSame ==
  ASSUME Polled, UNCHANGED <<epc, eslot, echoed, eresult, eiss, erx>>
  PROVE  Polled'
BY DEF Polled, T!IsEcho, T!ExpectedAck

LEMMA TalkSame ==
  ASSUME Sequence, UNCHANGED <<epc, eiss, epeerIsn, etx, etxDone, eseqAfter, efinSeq, epeer, erefused>>
  PROVE  Sequence'
<1>1. \A s \in etx' : \E c \in T!Sending : s = OutAt(c)' /\ Heard(c)' /\ (epc' # "idle" => c = epc')
  BY TxSame
<1>2. epc # "idle" /\ ~etxDone => Heard(epc)'
  <2> SUFFICES ASSUME Heard(epc) PROVE Heard(epc)'
    BY DEF Sequence
  <2>1. PICK c : c = epc
    OBVIOUS
  <2>2. Heard(c)'
    BY <2>1, HeardSame
  <2> QED BY <2>1, <2>2
<1>3. epc # "idle" /\ etxDone => Heard(After(epc))'
  <2> SUFFICES ASSUME Heard(After(epc)) PROVE Heard(After(epc))'
    BY DEF Sequence
  <2>1. PICK c : c = After(epc)
    OBVIOUS
  <2>2. Heard(c)' /\ After(epc)' = c
    BY <2>1, HeardSame DEF After
  <2> QED BY <2>2
<1> QED BY <1>1, <1>2, <1>3 DEF Sequence

LEMMA RetransmitKeeps == ASSUME EInv, T!Retransmit PROVE EInv'
<1>1. UNCHANGED <<epc, eiss, epeerIsn, etx, etxDone, eslot, echoed, eseqAfter, efinSeq, eresult, erx,
                  epeer, erefused>>
  BY DEF T!Retransmit, T!clientVars
<1>2. PICK s \in epeer.out : elink' = Append(elink, [s EXCEPT !.ack = epeer.rcv])
  BY DEF T!Retransmit
<1>3. PICK f : f = [s EXCEPT !.ack = epeer.rcv]
  OBVIOUS
<1>4. s \in Seg /\ epeer.rcv \in T!SeqNo /\ Known(s)
  BY DEF EInv, Peer, PeerState
<1>5. f \in Seg /\ f.ours = s.ours /\ f.flags = s.flags /\ f.seq = s.seq /\ f.data = s.data
  BY <1>3, <1>4 DEF Seg
<1>6. Known(f)'
  BY <1>1, <1>4, <1>5 DEF Known, Uses
<1>7. DataOut' <=> DataOut
  BY <1>1 DEF DataOut
<1>8. f.data = <<>> \/ DataOut
  BY <1>5 DEF DataOut
<1>9. Order'
  <2>1. Order /\ Peer /\ UNCHANGED <<erx, eiss>> /\ elink' = Append(elink, f)
    BY <1>1, <1>2, <1>3 DEF EInv
  <2>2. epeer'.isn = epeer.isn /\ epeer'.sent \in Nat /\ epeer.sent <= epeer'.sent
    BY <1>1, <2>1, SentBound
  <2> QED BY <1>5, <1>6, <1>7, <1>8, <2>1, <2>2, SendOrder
<1> QED BY <1>1, <1>9, PeerSame, TalkSame, ClientSame DEF EInv

(* The NIC stores a frame that is known and keeps the order. *)
LEMMA StoreIs ==
  ASSUME Order, NEW f \in Seg, T!Store(f)
  PROVE  /\ Len(erx) = NumRx => erx' = erx
         /\ Len(erx) # NumRx => /\ Len(erx) < NumRx /\ erx' = Append(erx, f) /\ erx' \in Seq(Seg)
                                /\ Len(erx') = Len(erx) + 1 /\ Len(erx') <= NumRx /\ erx'[Len(erx) + 1] = f
                                /\ \A i \in 1 .. Len(erx) : erx'[i] = erx[i]
<1>1. NumRx \in Nat /\ Len(erx) \in Nat /\ Len(erx) <= NumRx
  BY TcpEchoAssumption DEF T!Assumptions, Order
<1>2. Len(erx) = NumRx => erx' = erx
  BY <1>1 DEF T!Store
<1>3. Len(erx) # NumRx => Len(erx) < NumRx /\ erx' = Append(erx, f)
  BY <1>1 DEF T!Store
<1>4. erx \in Seq(Seg)
  BY DEF Order
<1>5. Len(erx) # NumRx => /\ erx' \in Seq(Seg) /\ Len(erx') = Len(erx) + 1 /\ erx'[Len(erx) + 1] = f
                          /\ \A i \in 1 .. Len(erx) : erx'[i] = erx[i]
  BY <1>3, <1>4, AppendFrame
<1> QED BY <1>1, <1>2, <1>3, <1>5

LEMMA StoreKnown ==
  ASSUME Order, NEW f \in Seg, T!Store(f), Known(f), UNCHANGED epeer
  PROVE  \A i \in 1 .. Len(erx') : Known(erx[i])'
<1> SUFFICES ASSUME NEW i \in 1 .. Len(erx') PROVE Known(erx'[i])
  BY DEF Known
<1>1. CASE Len(erx) = NumRx
  BY <1>1, StoreIs DEF Order
<1>2. CASE Len(erx) # NumRx
  <2>1. Len(erx) \in Nat /\ Len(erx') = Len(erx) + 1 /\ erx'[Len(erx) + 1] = f
        /\ \A j \in 1 .. Len(erx) : erx'[j] = erx[j]
    BY <1>2, StoreIs DEF Order
  <2>2. CASE i = Len(erx) + 1
    BY <2>1, <2>2
  <2>3. CASE i \in 1 .. Len(erx)
    BY <2>1, <2>3 DEF Order
  <2> QED BY <2>1, <2>2, <2>3
<1> QED BY <1>1, <1>2

LEMMA StorePolled ==
  ASSUME Order, Polled, NEW f \in Seg, T!Store(f), UNCHANGED <<epc, eslot, echoed, eresult, eiss>>
  PROVE  Polled'
<1>1. Len(erx) \in Nat /\ Len(erx') \in Nat /\ Len(erx) <= Len(erx') /\ \A i \in 1 .. Len(erx) : erx'[i] = erx[i]
  BY StoreIs DEF Order
<1>2. erx # <<>> => Len(erx) > 0 /\ erx' # <<>> /\ erx'[1] = erx[1]
  <2>1. erx # <<>> => Len(erx) > 0 /\ Len(erx') > 0
    BY <1>1 DEF Order
  <2> QED BY <1>1, <2>1
<1>3. epc = "echo" => eslot \in 1 .. Len(erx') /\ \A i \in 2 .. eslot : ~T!IsEcho(erx'[i])
  <2> SUFFICES ASSUME epc = "echo" PROVE eslot \in 1 .. Len(erx') /\ \A i \in 2 .. eslot : ~T!IsEcho(erx'[i])
    OBVIOUS
  <2>1. eslot \in 1 .. Len(erx) /\ \A i \in 2 .. eslot : ~T!IsEcho(erx[i])
    BY DEF Polled
  <2>2. \A i \in 2 .. eslot : i \in 1 .. Len(erx)
    BY <1>1, <2>1
  <2> QED BY <1>1, <2>1, <2>2
<1>4. epc' \in {"ack", "data", "echo"} => erx' # <<>> /\ erx'[1].data = <<>>
  BY <1>2 DEF Polled
<1> QED BY <1>3, <1>4 DEF Polled, T!IsEcho, T!ExpectedAck

LEMMA ForeignKeeps == ASSUME EInv, T!Foreign PROVE EInv'
<1>1. /\ T!Store(T!Stray)
      /\ UNCHANGED <<epc, eiss, epeerIsn, etx, etxDone, eslot, echoed, eseqAfter, efinSeq, eresult,
                     epeer, elink, erefused>>
  BY DEF T!Foreign, T!clientVars
<1>2. PICK f : f = T!Stray
  OBVIOUS
<1>3. f \in Seg /\ Known(f) /\ f.data = <<>>
  BY <1>2, Sizes DEF T!Stray, Seg, Known, T!Flags
<1>4. Order'
  <2>1. Order /\ T!Store(f)
    BY <1>1, <1>2 DEF EInv
  <2>2. \A i \in 1 .. Len(erx') : Known(erx[i])'
    BY <1>1, <1>3, <2>1, StoreKnown
  <2>3. CASE Len(erx) = NumRx
    BY <1>1, <1>3, <2>1, <2>3, StoreIs, OrderSame
  <2>4. CASE Len(erx) # NumRx
    <3>1. /\ Len(erx) < NumRx /\ erx' = Append(erx, f) /\ erx' \in Seq(Seg) /\ Len(erx') <= NumRx
      BY <1>3, <2>1, <2>4, StoreIs
    <3>2. Fronted(erx') /\ (HasEcho(erx) => HasEcho(erx'))
      BY <1>3, <2>1, <3>1, FrontedAppend, HasEchoAppend DEF Order
    <3>3. \A i \in 1 .. Len(elink') : Known(elink[i])'
      BY <1>1, <2>1 DEF Order, Known
    <3>4. DataOut' <=> DataOut
      BY <1>1 DEF DataOut
    <3>5. /\ HasEcho(erx') \/ Fronted(elink)
          /\ DataOut => HasEcho(erx') \/ HasEcho(elink)
      BY <2>1, <3>1, <3>2 DEF Order
    <3>6. elink' = elink /\ elink \in Seq(Seg)
      BY <1>1, <2>1 DEF Order
    <3> QED BY <1>1, <2>2, <3>1, <3>2, <3>3, <3>4, <3>5, <3>6, EchoSame DEF Order, Fronted, HasEcho
  <2> QED BY <2>3, <2>4
<1>5. Polled'
  BY <1>1, <1>2, <1>3, StorePolled DEF EInv
<1> QED BY <1>1, <1>4, <1>5, PeerSame, TalkSame DEF EInv

LEMMA TailIs ==
  ASSUME NEW q \in Seq(Seg), q # <<>>
  PROVE  /\ Head(q) = q[1] /\ q[1] \in Seg /\ 1 \in 1 .. Len(q) /\ Tail(q) \in Seq(Seg) /\ Len(q) \in Nat
         /\ Len(Tail(q)) = Len(q) - 1 /\ \A i \in 1 .. Len(q) - 1 : Tail(q)[i] = q[i + 1]
<1> DEFINE S == Seg
<1> HIDE DEF S
<1>1. q \in Seq(S)
  BY DEF S
<1>2. /\ Head(q) = q[1] /\ q[1] \in S /\ 1 \in 1 .. Len(q) /\ Tail(q) \in Seq(S) /\ Len(q) \in Nat
      /\ Len(Tail(q)) = Len(q) - 1 /\ \A i \in 1 .. Len(q) - 1 : Tail(q)[i] = q[i + 1]
  BY <1>1
<1> QED BY <1>2 DEF S

(* The order of the rest, unless the first frame was the echo. *)
LEMMA FrontedTail ==
  ASSUME NEW q \in Seq(Seg), q # <<>>
  PROVE  /\ Fronted(q) => Echo(q[1]) \/ (q[1].data = <<>> /\ Fronted(Tail(q)))
         /\ HasEcho(q) => Echo(q[1]) \/ HasEcho(Tail(q))
<1> DEFINE r == Tail(q)
           n == Len(q)
<1>1. n \in Nat /\ 1 \in 1 .. n /\ Len(r) = n - 1 /\ \A i \in 1 .. n - 1 : r[i] = q[i + 1]
  BY TailIs
<1> HIDE DEF r, n
<1>2. ASSUME Fronted(q), ~Echo(q[1]) PROVE q[1].data = <<>> /\ Fronted(r)
  <2>1. \A i \in 1 .. n : q[i].data # <<>> => \E j \in 1 .. i : Echo(q[j])
    BY <1>2 DEF Fronted, n
  <2>2. q[1].data = <<>>
    BY <1>1, <1>2, <2>1
  <2>3. ASSUME NEW i \in 1 .. n - 1, r[i].data # <<>> PROVE \E j \in 1 .. i : Echo(r[j])
    <3>1. i + 1 \in 1 .. n /\ q[i + 1].data # <<>>
      BY <1>1, <2>3
    <3>2. PICK j \in 1 .. i + 1 : Echo(q[j])
      BY <2>1, <3>1
    <3>3. j # 1
      BY <1>2, <3>2
    <3>4. j - 1 \in 1 .. i /\ j - 1 \in 1 .. n - 1 /\ (j - 1) + 1 = j
      BY <1>1, <3>2, <3>3
    <3>5. r[j - 1] = q[j]
      BY <1>1, <3>4
    <3> QED BY <3>2, <3>4, <3>5
  <2> QED BY <1>1, <2>2, <2>3 DEF Fronted
<1>3. ASSUME HasEcho(q), ~Echo(q[1]) PROVE HasEcho(r)
  <2>1. PICK j \in 1 .. n : Echo(q[j])
    BY <1>3 DEF HasEcho, n
  <2>2. j # 1
    BY <1>3, <2>1
  <2>3. j - 1 \in 1 .. n - 1 /\ (j - 1) + 1 = j
    BY <1>1, <2>1, <2>2
  <2>4. r[j - 1] = q[j]
    BY <1>1, <2>3
  <2> QED BY <1>1, <2>1, <2>3, <2>4 DEF HasEcho
<1> QED BY <1>2, <1>3 DEF r

LEMMA DeliverKeeps == ASSUME EInv, T!Deliver PROVE EInv'
<1>1. /\ elink # <<>> /\ T!Store(Head(elink)) /\ elink' = Tail(elink)
      /\ UNCHANGED <<epc, eiss, epeerIsn, etx, etxDone, eslot, echoed, eseqAfter, efinSeq, eresult,
                     epeer, erefused>>
  BY DEF T!Deliver, T!clientVars
<1>2. Order /\ elink \in Seq(Seg)
  BY DEF EInv, Order
<1>3. PICK f \in Seg : f = elink[1] /\ T!Store(f) /\ 1 \in 1 .. Len(elink)
  BY <1>1, <1>2, TailIs
<1>4. Known(f)
  BY <1>2, <1>3 DEF Order
<1>5. \A i \in 1 .. Len(erx') : Known(erx[i])'
  BY <1>1, <1>2, <1>3, <1>4, StoreKnown
<1>6. elink' \in Seq(Seg) /\ \A i \in 1 .. Len(elink') : Known(elink[i])'
  <2>1. /\ elink' \in Seq(Seg) /\ Len(elink') = Len(elink) - 1 /\ Len(elink) \in Nat
        /\ \A i \in 1 .. Len(elink) - 1 : elink'[i] = elink[i + 1]
    BY <1>1, <1>2, TailIs
  <2>2. ASSUME NEW i \in 1 .. Len(elink') PROVE Known(elink[i])'
    <3>1. i + 1 \in 1 .. Len(elink) /\ elink'[i] = elink[i + 1]
      BY <2>1
    <3>2. Known(elink[i + 1])
      BY <1>2, <3>1 DEF Order
    <3> QED BY <1>1, <3>1, <3>2 DEF Known
  <2> QED BY <2>1, <2>2
<1>7. Order'
  <2>1. DataOut' <=> DataOut
    BY <1>1 DEF DataOut
  <2>2. CASE Len(erx) = NumRx
    <3>1. erx' = erx /\ Len(erx') \in Nat /\ NumRx \in Nat
      BY <1>2, <1>3, <2>2, StoreIs, TcpEchoAssumption DEF T!Assumptions, Order
    <3>2. ~(Len(erx') < NumRx)
      BY <2>2, <3>1
    <3>3. Fronted(erx) /\ erx \in Seq(Seg) /\ Len(erx) <= NumRx
      BY <1>2 DEF Order
    <3> QED BY <1>1, <1>5, <1>6, <3>1, <3>2, <3>3, EchoSame DEF Order, Fronted
  <2>3. CASE Len(erx) # NumRx
    <3>1. /\ Len(erx) < NumRx /\ erx' = Append(erx, f) /\ erx' \in Seq(Seg) /\ Len(erx') <= NumRx
      BY <1>2, <1>3, <2>3, StoreIs
    <3>2. /\ HasEcho(erx) \/ Fronted(elink)
          /\ DataOut => HasEcho(erx) \/ HasEcho(elink)
          /\ Fronted(erx) /\ erx \in Seq(Seg)
      BY <1>2, <3>1 DEF Order
    <3>3. /\ Fronted(elink) => Echo(f) \/ (f.data = <<>> /\ Fronted(elink'))
          /\ HasEcho(elink) => Echo(f) \/ HasEcho(elink')
      BY <1>1, <1>2, <1>3, FrontedTail
    <3>4. Fronted(erx') /\ (HasEcho(erx) \/ Echo(f) => HasEcho(erx'))
      BY <3>1, <3>2, <3>3, FrontedAppend, HasEchoAppend
    <3>5. /\ HasEcho(erx') \/ Fronted(elink')
          /\ DataOut => HasEcho(erx') \/ HasEcho(elink')
      BY <3>2, <3>3, <3>4
    <3> QED BY <1>1, <1>5, <1>6, <2>1, <3>1, <3>4, <3>5, EchoSame DEF Order, Fronted, HasEcho
  <2> QED BY <2>2, <2>3
<1>8. Polled'
  BY <1>1, <1>2, <1>3, StorePolled DEF EInv
<1> QED BY <1>1, <1>7, <1>8, PeerSame, TalkSame DEF EInv

-----------------------------------------------------------------------------
(* The peer sends of its own. *)

LEMMA Split ==
  ASSUME NEW q \in Seq(Nat), NEW n \in 0 .. Len(q)
  PROVE  /\ SubSeq(q, 1, n) \in Seq(Nat) /\ Len(SubSeq(q, 1, n)) = n
         /\ SubSeq(q, n + 1, Len(q)) \in Seq(Nat) /\ Len(SubSeq(q, n + 1, Len(q))) = Len(q) - n
         /\ n = 0 => SubSeq(q, 1, n) = <<>> /\ SubSeq(q, n + 1, Len(q)) = q
         /\ n > 0 => SubSeq(q, 1, n) # <<>>
<1>1. Len(q) \in Nat /\ n \in Nat /\ n <= Len(q)
  OBVIOUS
<1>2. SubSeq(q, 1, n) \in Seq(Nat) /\ Len(SubSeq(q, 1, n)) = n
  BY <1>1
<1>3. SubSeq(q, n + 1, Len(q)) \in Seq(Nat) /\ Len(SubSeq(q, n + 1, Len(q))) = Len(q) - n
  BY <1>1
<1>4. n = 0 => SubSeq(q, 1, n) = <<>> /\ SubSeq(q, n + 1, Len(q)) = q
  BY <1>1
<1>5. n > 0 => SubSeq(q, 1, n) # <<>>
  BY <1>2
<1> QED BY <1>2, <1>3, <1>4, <1>5

LEMMA Balance ==
  ASSUME NEW i \in Nat, NEW j \in Nat, NEW k \in Nat, NEW l \in Nat, NEW m \in Nat, j + k + 1 <= l + 2
  PROVE  (j + (i + m)) + (k - i) + (1 - m) <= l + 2
OBVIOUS

LEMMA PeerSendsKeeps == ASSUME EInv, T!PeerSends PROVE EInv'
<1>1. UNCHANGED <<epc, eiss, epeerIsn, etx, etxDone, eslot, echoed, eseqAfter, efinSeq, eresult, erx,
                  erefused>>
  BY DEF T!PeerSends, T!clientVars
<1>2. epeer.st \in {"est", "closewait"} /\ ~epeer.fin
  BY DEF T!PeerSends
<1>3. PICK n \in 0 .. Len(epeer.left), fin \in BOOLEAN :
        /\ n > 0 \/ fin
        /\ fin => n = Len(epeer.left)
        /\ LET e == T!Emit(epeer, IF fin THEN {"FIN", "ACK"} ELSE {"PSH", "ACK"}, SubSeq(epeer.left, 1, n))
           IN  /\ epeer' = [e.p EXCEPT !.left = SubSeq(@, n + 1, Len(@))]
               /\ elink' = Append(elink, e.seg)
  BY DEF T!PeerSends
<1>4. PICK fl \in T!Flags : fl = IF fin THEN {"FIN", "ACK"} ELSE {"PSH", "ACK"}
  BY DEF T!Flags
<1>5. /\ epeer \in PeerState /\ epeer.left \in Seq(Nat) /\ epeer.sent \in Nat /\ epeer.sent <= SeqSpace
      /\ epeer.isn \in T!SeqNo /\ epeer.sent < SeqSpace
  BY SentBound, Sizes DEF EInv, Peer, PeerState
<1>6. PICK d \in Seq(Nat) : /\ d = SubSeq(epeer.left, 1, n) /\ Len(d) = n
                            /\ (n = 0 => d = <<>>) /\ (n > 0 => d # <<>>)
  BY ZenonT(60), <1>5, Split
<1>7. PICK e : e = T!Emit(epeer, fl, d)
  OBVIOUS
<1>8. PICK f : f = T!Segment(fl, T!Add(epeer.isn, epeer.sent), epeer.rcv, d)
  OBVIOUS
<1>9. /\ e.seg = f /\ f \in Seg /\ e.p \in PeerState
      /\ e.p.st = epeer.st /\ e.p.isn = epeer.isn /\ e.p.rcv = epeer.rcv /\ e.p.left = epeer.left
      /\ e.p.sent = epeer.sent + Uses(f) /\ (e.p.fin <=> epeer.fin \/ "FIN" \in fl)
      /\ (Uses(f) = 0 => e.p.out = epeer.out) /\ (Uses(f) # 0 => e.p.out = epeer.out \cup {f})
  BY <1>5, <1>7, <1>8, EmitIs
<1>10. f.ours /\ f.flags = fl /\ f.seq = T!Add(epeer.isn, epeer.sent) /\ f.ack = epeer.rcv /\ f.data = d
  BY <1>8 DEF T!Segment
<1>11. ("FIN" \in fl <=> fin) /\ "SYN" \notin fl
  BY <1>4
<1>12. Uses(f) = n + (IF fin THEN 1 ELSE 0) /\ Uses(f) > 0 /\ Uses(f) \in Nat
  BY <1>3, <1>6, <1>9, <1>10, <1>11, UsesIs
<1>13. PICK rest \in Seq(Nat) : /\ rest = SubSeq(epeer.left, n + 1, Len(epeer.left))
                                /\ Len(rest) = Len(epeer.left) - n /\ (n = 0 => rest = epeer.left)
  BY <1>5, Split
<1>14. epeer' = [e.p EXCEPT !.left = rest] /\ elink' = Append(elink, f)
  BY <1>3, <1>4, <1>6, <1>7, <1>9, <1>13
<1>15. /\ epeer' \in PeerState /\ epeer'.left = rest /\ epeer'.st = epeer.st /\ epeer'.isn = epeer.isn
       /\ epeer'.rcv = epeer.rcv /\ epeer'.sent = e.p.sent /\ epeer'.fin = e.p.fin /\ epeer'.out = e.p.out
  BY <1>9, <1>13, <1>14 DEF PeerState
<1>16. epeer'.out = epeer.out \cup {f} /\ epeer'.sent = epeer.sent + Uses(f) /\ (epeer'.fin <=> fin)
  BY <1>2, <1>9, <1>11, <1>12, <1>15
<1>17. DataOut' <=> DataOut \/ f.data # <<>>
  BY <1>16 DEF DataOut
<1>18. f.data = <<>> \/ DataOut \/ Echo(f)
  <2> SUFFICES ASSUME f.data # <<>>, ~DataOut PROVE Echo(f)
    OBVIOUS
  <2>1. n > 0 /\ epeer.left # <<>>
    BY <1>5, <1>6, <1>10
  <2>2. epeer.left = Payload /\ epeer.rcv = T!ExpectedAck
    BY <1>2, <2>1 DEF EInv, Peer
  <2>3. T!IsPrefix(d, Payload)
    BY <1>6, <2>2, PieceIsPrefix
  <2> QED BY <1>10, <2>2, <2>3 DEF Echo, T!IsEcho
<1>19. epeer'.sent \in Nat /\ epeer.sent <= epeer'.sent
  BY <1>5, <1>12, <1>16
<1>20. Known(f)'
  <2>1. f.data # <<>> => \E s \in epeer'.out : s.data # <<>>
    BY <1>16
  <2>2. epeer.sent \in 0 .. epeer'.sent /\ epeer.sent + Uses(f) <= epeer'.sent
        /\ f.seq = T!Add(epeer'.isn, epeer.sent) /\ "SYN" \notin f.flags
    BY <1>5, <1>10, <1>11, <1>15, <1>16, <1>19
  <2> QED BY <2>1, <2>2 DEF Known
<1>21. Order'
  <2>1. Order /\ Peer /\ UNCHANGED <<erx, eiss>> /\ elink' = Append(elink, f) /\ f \in Seg
    BY <1>1, <1>9, <1>14 DEF EInv
  <2> QED BY <1>15, <1>17, <1>18, <1>19, <1>20, <2>1, SendOrder
<1>22. Peer'
  <2>1. epeer'.sent + Len(epeer'.left) + (IF epeer'.fin THEN 0 ELSE 1) <= Len(Payload) + 2
    <3>1. epeer.sent + Len(epeer.left) + 1 <= Len(Payload) + 2
      BY <1>2 DEF EInv, Peer
    <3>2. Len(epeer.left) \in Nat /\ n \in Nat
      BY <1>5
    <3>3. PICK m \in Nat : m <= 1 /\ m = IF fin THEN 1 ELSE 0
      OBVIOUS
    <3>4. epeer'.sent = epeer.sent + (n + m) /\ (IF epeer'.fin THEN 0 ELSE 1) = 1 - m
      BY <1>12, <1>16, <3>3
    <3>5. Len(epeer'.left) = Len(epeer.left) - n
      BY <1>13, <1>15
    <3>6. PICK i \in Nat, j \in Nat, k \in Nat, l \in Nat :
             i = n /\ j = epeer.sent /\ k = Len(epeer.left) /\ l = Len(Payload) /\ j + k + 1 <= l + 2
      BY <1>5, <3>1, <3>2, Sizes
    <3>7. (j + (i + m)) + (k - i) + (1 - m) <= l + 2
      BY <3>6, Balance
    <3> QED BY <3>4, <3>5, <3>6, <3>7
  <2>2. \A s \in epeer'.out : Known(s)'
    <3> SUFFICES ASSUME NEW s \in epeer'.out PROVE Known(s)'
      OBVIOUS
    <3>1. CASE s = f
      BY <1>20, <3>1
    <3>2. CASE s \in epeer.out
      <4>1. s \in Seg /\ Known(s) /\ Peer
        BY <3>2 DEF EInv, Peer, PeerState
      <4> QED BY <1>15, <1>17, <1>19, <4>1, KnownGrows
    <3> QED BY <1>16, <3>1, <3>2
  <2>3. epeer'.st # "closed" /\ epeer'.left # <<>> =>
          DataOut' \/ (epeer'.left = Payload /\ epeer'.rcv = T!ExpectedAck')
    <3>1. CASE n > 0
      BY <1>6, <1>10, <1>17, <3>1
    <3>2. CASE n = 0
      <4>1. epeer'.left = epeer.left
        BY <1>13, <1>15, <3>2
      <4> QED BY <1>1, <1>15, <1>17, <4>1 DEF EInv, Peer, T!ExpectedAck
    <3> QED BY <3>1, <3>2
  <2> QED BY <1>15, <2>1, <2>2, <2>3 DEF Peer
<1>23. ASSUME NEW c, Heard(c) PROVE Heard(c)'
  <2>1. PeerAt(c) /\ epeer.st \in {"est", "closewait"}
    BY <1>2, <1>23 DEF Heard
  <2>2. c \notin {"syn", "synack", "ack"}
    BY <2>1 DEF PeerAt
  <2>3. c = "data" => epeer'.left = <<>> /\ epeer'.sent = 1 + (IF epeer'.fin THEN 1 ELSE 0)
    <3> SUFFICES ASSUME c = "data" PROVE epeer'.left = <<>> /\ epeer'.sent = 1 + (IF epeer'.fin THEN 1 ELSE 0)
      OBVIOUS
    <3>1. epeer.left = <<>> /\ epeer.sent = 1
      BY <1>2, <2>1 DEF PeerAt
    <3>2. n = 0 /\ fin
      BY <1>3, <3>1
    <3> QED BY <1>12, <1>13, <1>15, <1>16, <3>1, <3>2
  <2>4. \A a : (\E k \in 0 .. epeer.sent : a = T!Add(epeer.isn, k)) =>
                 \E k \in 0 .. epeer'.sent : a = T!Add(epeer'.isn, k)
    BY <1>5, <1>15, <1>19
  <2>5. c = "fin" => \E k \in 0 .. epeer'.sent : eseqAfter' = T!Add(epeer'.isn, k)
    BY <1>1, <2>1, <2>4 DEF PeerAt
  <2>6. c = "last" => \E k \in 0 .. epeer'.sent : T!Add(efinSeq', 1) = T!Add(epeer'.isn, k)
    <3>1. c = "last" => \E k \in 0 .. epeer.sent : T!Add(efinSeq, 1) = T!Add(epeer.isn, k)
      BY <2>1 DEF PeerAt
    <3> QED BY <1>1, <2>4, <3>1
  <2>7. PeerAt(c)'
    BY <1>1, <1>15, <1>17, <2>1, <2>2, <2>3, <2>5, <2>6 DEF PeerAt, T!ExpectedAck
  <2> QED BY <2>7 DEF Heard
<1>24. Sequence'
  <2>1. \A s \in etx' : \E c \in T!Sending : s = OutAt(c)' /\ Heard(c)' /\ (epc' # "idle" => c = epc')
    <3> SUFFICES ASSUME NEW s \in etx
                 PROVE  \E c \in T!Sending : s = OutAt(c)' /\ Heard(c)' /\ (epc' # "idle" => c = epc')
      BY <1>1
    <3>1. PICK c \in T!Sending : s = OutAt(c) /\ Heard(c) /\ (epc # "idle" => c = epc)
      BY DEF EInv, Sequence
    <3>2. Heard(c)'
      BY <1>23, <3>1
    <3>3. OutAt(c)' = OutAt(c)
      BY <1>1 DEF OutAt, T!ExpectedAck
    <3> QED BY <1>1, <3>1, <3>2, <3>3
  <2>2. Heard(epc) => Heard(epc)'
    <3>1. PICK c : c = epc
      OBVIOUS
    <3>2. Heard(c) => Heard(c)'
      BY <1>23
    <3> QED BY <1>1, <3>1, <3>2
  <2>3. Heard(After(epc)) => Heard(After(epc))'
    <3>1. PICK c : c = After(epc)
      OBVIOUS
    <3>2. Heard(c) => Heard(c)'
      BY <1>23
    <3>3. After(epc)' = c
      BY <1>1, <3>1 DEF After
    <3> QED BY <3>1, <3>2, <3>3
  <2> QED BY <1>1, <2>1, <2>2, <2>3 DEF EInv, Sequence
<1> QED BY <1>1, <1>21, <1>22, <1>24, ClientSame DEF EInv

-----------------------------------------------------------------------------
(* The peer reacts to a segment of the client. *)

(* The fields of the segment of phase c. *)
LEMMA OutFields ==
  ASSUME Sequence, NEW c \in T!Sending, NEW s, s = OutAt(c)
  PROVE  /\ s \in Seg
         /\ c = "syn"  => s.flags = {"SYN"} /\ s.seq = eiss /\ s.data = <<>>
         /\ c = "ack"  => s.flags = {"ACK"} /\ s.seq = T!Add(eiss, 1) /\ s.ack = T!Add(epeerIsn, 1) /\ s.data = <<>>
         /\ c = "data" => s.flags = {"PSH", "ACK"} /\ s.seq = T!Add(eiss, 1) /\ s.ack = T!Add(epeerIsn, 1)
                          /\ s.data = Payload
         /\ c = "fin"  => s.flags = {"FIN", "ACK"} /\ s.seq = T!ExpectedAck /\ s.ack = eseqAfter /\ s.data = <<>>
         /\ c = "last" => s.flags = {"ACK"} /\ s.seq = T!Add(T!ExpectedAck, 1) /\ s.ack = T!Add(efinSeq, 1)
                          /\ s.data = <<>>
<1>1. PICK a \in T!SeqNo, b \in T!SeqNo, g \in T!SeqNo, h \in T!SeqNo, i \in T!SeqNo :
        a = T!Add(eiss, 1) /\ b = T!ExpectedAck /\ g = T!Add(T!ExpectedAck, 1)
        /\ h = T!Add(epeerIsn, 1) /\ i = T!Add(efinSeq, 1)
  <2>1. 1 \in Nat /\ 1 <= SeqSpace /\ epeerIsn \in T!SeqNo /\ efinSeq \in T!SeqNo
    BY Sizes DEF Sequence
  <2>2. T!Add(epeerIsn, 1) \in T!SeqNo /\ T!Add(efinSeq, 1) \in T!SeqNo
    BY <2>1, AddCases
  <2> QED BY <2>2, AckType
<1>2. eiss \in T!SeqNo /\ eseqAfter \in T!SeqNo /\ 0 \in T!SeqNo /\ Payload \in Seq(Nat) /\ <<>> \in Seq(Nat)
  BY Sizes DEF Sequence
<1>3. CASE c = "syn"
  BY <1>2, <1>3 DEF OutAt, T!Segment, Seg, T!Flags
<1>4. CASE c = "ack"
  BY <1>1, <1>2, <1>4 DEF OutAt, T!Segment, Seg, T!Flags
<1>5. CASE c = "data"
  BY <1>1, <1>2, <1>5 DEF OutAt, T!Segment, Seg, T!Flags
<1>6. CASE c = "fin"
  BY <1>1, <1>2, <1>6 DEF OutAt, T!Segment, Seg, T!Flags
<1>7. CASE c = "last"
  BY <1>1, <1>2, <1>7 DEF OutAt, T!Segment, Seg, T!Flags
<1> QED BY <1>3, <1>4, <1>5, <1>6, <1>7 DEF T!Sending

(***************************************************************************)
(* A peer that has heard what precedes a phase accepts the phase's segment: *)
(* it is in sequence, and the number it acknowledges, as an offset from    *)
(* the peer's initial one, is among those the peer has used.               *)
(***************************************************************************)
LEMMA Accepted ==
  ASSUME EInv, NEW c \in T!Sending, PeerAt(c), NEW s, s = OutAt(c)
  PROVE  ~T!Unacceptable(s)
<1>1. Sequence /\ Peer
  BY DEF EInv
<1>2. CASE c = "syn"
  BY <1>1, <1>2, OutFields DEF T!Unacceptable, PeerAt
<1>3. CASE c # "syn"
  <2>1. s.flags # {"SYN"}
    BY <1>1, <1>3, OutFields DEF T!Sending
  <2>2. epeer.st # "listen"
    BY <1>3 DEF PeerAt, T!Sending
  <2>3. s.seq = epeer.rcv
    BY <1>1, <1>3, OutFields DEF PeerAt, T!Sending
  <2>4. PICK k \in 0 .. epeer.sent : s.ack = T!Add(epeer.isn, k)
    <3>1. CASE c \in {"ack", "data"}
      <4>1. epeer.sent \in {1, 2} /\ epeerIsn = epeer.isn
        BY <3>1 DEF PeerAt
      <4>2. 1 \in 0 .. epeer.sent
        BY <4>1
      <4> QED BY <1>1, <3>1, <4>1, <4>2, OutFields
    <3>2. CASE c = "fin"
      BY <1>1, <3>2, OutFields DEF PeerAt
    <3>3. CASE c = "last"
      BY <1>1, <3>3, OutFields DEF PeerAt
    <3> QED BY <1>3, <3>1, <3>2, <3>3 DEF T!Sending
  <2>5. k \in Nat /\ k < SeqSpace /\ epeer.isn \in T!SeqNo /\ epeer.sent \in Nat
    BY <1>1, <2>4, SentBound, Sizes
  <2>6. T!Add(s.ack, SeqSpace - epeer.isn) = k
    BY <2>4, <2>5, Offset
  <2>7. ~(T!Add(s.ack, SeqSpace - epeer.isn) > epeer.sent)
    BY <2>4, <2>5, <2>6
  <2> QED BY <2>1, <2>2, <2>3, <2>7 DEF T!Unacceptable
<1> QED BY <1>2, <1>3

(* The number the peer expects after the segment of phase c. *)
LEMMA Expects ==
  ASSUME Sequence, NEW c \in T!Sending, NEW s, s = OutAt(c),
         NEW v, v = T!Add(s.seq, Len(s.data) + (IF s.flags \cap {"SYN", "FIN"} = {} THEN 0 ELSE 1))
  PROVE  /\ v \in T!SeqNo
         /\ c \in {"syn", "ack"}  => v = T!Add(eiss, 1)
         /\ c = "data"            => v = T!ExpectedAck
         /\ c \in {"fin", "last"} => v = T!Add(T!ExpectedAck, 1)
<1>1. Len(<<>>) = 0 /\ Len(Payload) \in Nat
  BY Sizes
<1>2. T!Add(eiss, 1) \in T!SeqNo /\ T!ExpectedAck \in T!SeqNo /\ T!Add(T!ExpectedAck, 1) \in T!SeqNo
  BY AckType
<1>3. CASE c = "syn"
  <2>1. s.flags \cap {"SYN", "FIN"} # {} /\ s.seq = eiss /\ s.data = <<>>
    BY <1>3, OutFields
  <2>2. v = T!Add(s.seq, 1)
    BY <1>1, <2>1
  <2> QED BY <1>2, <1>3, <2>1, <2>2
<1>4. CASE c \in {"ack", "last"}
  <2>1. s.flags \cap {"SYN", "FIN"} = {} /\ s.data = <<>>
    BY <1>4, OutFields
  <2>2. s.seq = IF c = "ack" THEN T!Add(eiss, 1) ELSE T!Add(T!ExpectedAck, 1)
    BY <1>4, OutFields
  <2>3. v = T!Add(s.seq, 0)
    BY <1>1, <2>1
  <2>4. v = s.seq
    BY <1>2, <1>4, <2>2, <2>3, AddZero
  <2> QED BY <1>2, <1>4, <2>2, <2>4
<1>5. CASE c = "data"
  <2>1. s.flags \cap {"SYN", "FIN"} = {} /\ s.seq = T!Add(eiss, 1) /\ s.data = Payload
    BY <1>5, OutFields
  <2>2. v = T!Add(T!Add(eiss, 1), Len(Payload))
    <3>1. Len(Payload) + 0 = Len(Payload)
      BY <1>1
    <3> QED BY <2>1, <3>1
  <2> QED BY <1>2, <1>5, <2>2 DEF T!ExpectedAck
<1>6. CASE c = "fin"
  <2>1. s.flags \cap {"SYN", "FIN"} # {} /\ s.seq = T!ExpectedAck /\ s.data = <<>>
    BY <1>6, OutFields
  <2>2. v = T!Add(s.seq, 1)
    BY <1>1, <2>1
  <2> QED BY <1>2, <1>6, <2>1, <2>2
<1> QED BY <1>3, <1>4, <1>5, <1>6 DEF T!Sending

LEMMA Concat ==
  ASSUME NEW q \in Seq(Seg), NEW f \in Seg
  PROVE  q \o <<>> = q /\ q \o <<f>> = Append(q, f)
<1> DEFINE S == Seg
<1> HIDE DEF S
<1>1. q \in Seq(S) /\ f \in S
  BY DEF S
<1> QED BY <1>1

(* A reaction that uses up no numbers: a bare ACK, a RST or nothing. *)
LEMMA ReactionKeeps ==
  ASSUME Order, Peer, UNCHANGED <<erx, eiss>>, epeer' \in PeerState, epeer'.isn = epeer.isn,
         epeer'.sent = epeer.sent, epeer'.fin <=> epeer.fin, epeer'.out = epeer.out,
         \/ epeer'.left = epeer.left
         \/ epeer'.left = Payload /\ epeer.sent = 1 /\ ~epeer.fin,
         epeer'.st # "closed" /\ epeer'.left # <<>> =>
           DataOut \/ (epeer'.left = Payload /\ epeer'.rcv = T!ExpectedAck),
         \/ elink' = elink
         \/ \E f \in Seg : /\ f.data = <<>> /\ elink' = Append(elink, f)
                           /\ f.flags = {"RST"} \/ (f.flags = {"ACK"} /\ f.seq = T!Add(epeer.isn, epeer.sent))
  PROVE  Peer' /\ Order'
<1>1. DataOut' <=> DataOut
  BY DEF DataOut
<1>2. epeer'.sent \in Nat /\ epeer.sent <= epeer'.sent /\ epeer.sent \in Nat
  BY SentBound
<1>3. Peer'
  <2>1. epeer'.sent + Len(epeer'.left) + (IF epeer'.fin THEN 0 ELSE 1) <= Len(Payload) + 2
    <3>1. CASE epeer'.left = epeer.left
      BY <3>1 DEF Peer
    <3>2. CASE epeer'.left = Payload /\ epeer.sent = 1 /\ ~epeer.fin
      <4>1. PICK n \in Nat : n = Len(Payload)
        BY Sizes
      <4>2. 1 + n + 1 <= n + 2
        OBVIOUS
      <4> QED BY <3>2, <4>1, <4>2
    <3> QED BY <3>1, <3>2
  <2>2. \A s \in epeer'.out : Known(s)'
    <3> SUFFICES ASSUME NEW s \in epeer.out PROVE Known(s)'
      OBVIOUS
    <3>1. s \in Seg /\ Known(s)
      BY DEF Peer, PeerState
    <3> QED BY <1>1, <1>2, <3>1, KnownGrows
  <2>3. T!ExpectedAck' = T!ExpectedAck
    BY DEF T!ExpectedAck
  <2> QED BY <1>1, <2>1, <2>2, <2>3 DEF Peer
<1>4. CASE elink' = elink
  BY <1>1, <1>2, <1>3, <1>4, SilentOrder
<1>5. ASSUME NEW f \in Seg, f.data = <<>>, elink' = Append(elink, f),
             f.flags = {"RST"} \/ (f.flags = {"ACK"} /\ f.seq = T!Add(epeer.isn, epeer.sent))
      PROVE  Order'
  <2>1. Known(f)'
    <3>1. CASE f.flags = {"RST"}
      BY <1>5, <3>1 DEF Known
    <3>2. CASE f.flags = {"ACK"} /\ f.seq = T!Add(epeer.isn, epeer.sent)
      <4>1. Uses(f) = 0
        <5>1. "SYN" \notin f.flags /\ "FIN" \notin f.flags /\ Len(f.data) = 0
          BY <1>5, <3>2
        <5> QED BY <5>1, UsesIs
      <4>2. epeer.sent \in 0 .. epeer'.sent /\ epeer.sent + Uses(f) <= epeer'.sent
            /\ f.seq = T!Add(epeer'.isn, epeer.sent) /\ "SYN" \notin f.flags
        BY <1>2, <3>2, <4>1
      <4> QED BY <1>5, <4>2 DEF Known
    <3> QED BY <1>5, <3>1, <3>2
  <2> QED BY <1>1, <1>2, <1>5, <2>1, SendOrder
<1> QED BY <1>3, <1>4, <1>5

(* What the peer may do on the segment of phase c. *)
Heeds(s) == [epeer EXCEPT !.rcv = T!Add(s.seq, Len(s.data) + (IF s.flags \cap {"SYN", "FIN"} = {} THEN 0 ELSE 1))]

Resets(s, p) == [p |-> [p EXCEPT !.st = "closed"], segs |-> <<T!Segment({"RST"}, s.ack, p.rcv, <<>>)>>]

LEMMA ReactSyn ==
  ASSUME NEW s, s.flags = {"SYN"}, s.data = <<>>, NEW p, p = Heeds(s), NEW e, e = T!Emit(p, {"SYN", "ACK"}, <<>>)
  PROVE  T!Reactions(s) = {Resets(s, p), [p |-> [e.p EXCEPT !.st = "synrcvd"], segs |-> <<e.seg>>]}
<1>1. T!Reactions(s) = LET f == T!Emit(Heeds(s), {"SYN", "ACK"}, <<>>)
                       IN  {Resets(s, Heeds(s)), [p |-> [f.p EXCEPT !.st = "synrcvd"], segs |-> <<f.seg>>]}
  BY DEF T!Reactions, Heeds, Resets
<1> QED BY <1>1

LEMMA ReactData ==
  ASSUME NEW s, s.flags # {"SYN"}, s.data # <<>>, "FIN" \notin s.flags, NEW p, p = Heeds(s),
         NEW q, q = [p EXCEPT !.left = s.data], NEW e, e = T!Emit(q, {"ACK"}, <<>>)
  PROVE  T!Reactions(s) = IF p.fin THEN {Resets(s, p)}
                          ELSE {[p |-> q, segs |-> <<>>], [p |-> e.p, segs |-> <<e.seg>>]}
<1>1. T!Reactions(s) = LET f == T!Emit([Heeds(s) EXCEPT !.left = s.data], {"ACK"}, <<>>)
                       IN  IF Heeds(s).fin THEN {Resets(s, Heeds(s))}
                           ELSE {[p |-> [Heeds(s) EXCEPT !.left = s.data], segs |-> <<>>],
                                 [p |-> f.p, segs |-> <<f.seg>>]}
  BY DEF T!Reactions, Heeds, Resets
<1> QED BY <1>1

LEMMA ReactFin ==
  ASSUME NEW s, s.flags # {"SYN"}, s.data = <<>>, "FIN" \in s.flags, NEW p, p = Heeds(s),
         NEW q, q = [p EXCEPT !.st = "closewait"], NEW e, e = T!Emit(q, {"ACK"}, <<>>)
  PROVE  T!Reactions(s) = {[p |-> q, segs |-> <<>>], [p |-> e.p, segs |-> <<e.seg>>]}
BY DEF T!Reactions, Heeds, Resets

LEMMA ReactAck ==
  ASSUME NEW s, s.flags # {"SYN"}, s.data = <<>>, "FIN" \notin s.flags, NEW p, p = Heeds(s)
  PROVE  T!Reactions(s) = {[p |-> [p EXCEPT !.st = IF p.st = "synrcvd" THEN "est" ELSE p.st], segs |-> <<>>]}
BY DEF T!Reactions, Heeds, Resets

(* The peer's record with a new rcv. *)
LEMMA HeedsIs ==
  ASSUME EInv, NEW c \in T!Sending, NEW s, s = OutAt(c), NEW p, p = Heeds(s)
  PROVE  /\ p \in PeerState /\ p.st = epeer.st /\ p.isn = epeer.isn /\ p.sent = epeer.sent
         /\ p.left = epeer.left /\ p.fin = epeer.fin /\ p.out = epeer.out
         /\ c \in {"syn", "ack"}  => p.rcv = T!Add(eiss, 1)
         /\ c = "data"            => p.rcv = T!ExpectedAck
         /\ c \in {"fin", "last"} => p.rcv = T!Add(T!ExpectedAck, 1)
<1>1. PICK v : v = T!Add(s.seq, Len(s.data) + (IF s.flags \cap {"SYN", "FIN"} = {} THEN 0 ELSE 1))
  OBVIOUS
<1>2. /\ v \in T!SeqNo
      /\ c \in {"syn", "ack"}  => v = T!Add(eiss, 1)
      /\ c = "data"            => v = T!ExpectedAck
      /\ c \in {"fin", "last"} => v = T!Add(T!ExpectedAck, 1)
  BY <1>1, Expects DEF EInv
<1>3. p = [epeer EXCEPT !.rcv = v]
  BY <1>1 DEF Heeds
<1>4. epeer \in PeerState
  BY DEF EInv, Peer
<1>5. /\ p \in PeerState /\ p.st = epeer.st /\ p.isn = epeer.isn /\ p.sent = epeer.sent
      /\ p.left = epeer.left /\ p.fin = epeer.fin /\ p.out = epeer.out /\ p.rcv = v
  BY <1>2, <1>3, <1>4 DEF PeerState
<1> QED BY <1>2, <1>5

(* It refuses: the connection is closed and a RST under way. *)
LEMMA ResetKeeps ==
  ASSUME EInv, NEW c \in T!Sending, NEW s, s = OutAt(c), NEW p, p = Heeds(s), NEW r, r = Resets(s, p),
         epeer' = r.p, elink' = elink \o r.segs, UNCHANGED <<erx, eiss>>
  PROVE  Peer' /\ Order' /\ epeer'.st = "closed"
<1>1. /\ p \in PeerState /\ p.isn = epeer.isn /\ p.sent = epeer.sent
      /\ p.left = epeer.left /\ p.fin = epeer.fin /\ p.out = epeer.out
  BY HeedsIs
<1>2. epeer' = [p EXCEPT !.st = "closed"]
  BY DEF Resets
<1>3. /\ epeer' \in PeerState /\ epeer'.isn = epeer.isn /\ epeer'.sent = epeer.sent /\ epeer'.left = epeer.left
      /\ epeer'.fin = epeer.fin /\ epeer'.out = epeer.out /\ epeer'.st = "closed"
  BY <1>1, <1>2 DEF PeerState
<1>4. PICK f : f = T!Segment({"RST"}, s.ack, p.rcv, <<>>)
  OBVIOUS
<1>5. f \in Seg /\ f.flags = {"RST"} /\ f.data = <<>>
  <2>1. s \in Seg
    BY OutFields DEF EInv
  <2>2. s.ack \in T!SeqNo /\ p.rcv \in T!SeqNo
    BY <1>1, <2>1 DEF Seg, PeerState
  <2> QED BY <1>4, <2>2 DEF T!Segment, Seg, T!Flags
<1>6. elink' = Append(elink, f)
  <2>1. r.segs = <<f>> /\ elink \in Seq(Seg)
    BY <1>4 DEF Resets, EInv, Order
  <2> QED BY <1>5, <2>1, Concat
<1>7. Peer' /\ Order'
  BY <1>3, <1>5, <1>6, ReactionKeeps DEF EInv
<1> QED BY <1>3, <1>7

(* It accepts, with or without a bare ACK. *)
LEMMA AckedKeeps ==
  ASSUME EInv, NEW q \in PeerState, q.isn = epeer.isn, q.sent = epeer.sent, q.fin = epeer.fin,
         q.out = epeer.out, NEW e, e = T!Emit(q, {"ACK"}, <<>>),
         NEW r \in {[p |-> q, segs |-> <<>>], [p |-> e.p, segs |-> <<e.seg>>]},
         \/ q.left = epeer.left
         \/ q.left = Payload /\ epeer.sent = 1 /\ ~epeer.fin,
         q.left # <<>> => DataOut \/ (q.left = Payload /\ q.rcv = T!ExpectedAck),
         epeer' = r.p, elink' = elink \o r.segs, UNCHANGED <<erx, eiss>>
  PROVE  /\ Peer' /\ Order'
         /\ epeer'.st = q.st /\ epeer'.isn = q.isn /\ epeer'.sent = q.sent /\ epeer'.rcv = q.rcv
         /\ epeer'.left = q.left /\ (epeer'.fin <=> q.fin) /\ epeer'.out = q.out
<1>1. PICK f : f = T!Segment({"ACK"}, T!Add(q.isn, q.sent), q.rcv, <<>>)
  OBVIOUS
<1>2. q.sent <= SeqSpace /\ {"ACK"} \in T!Flags /\ <<>> \in Seq(Nat)
  BY SentBound, Sizes DEF EInv, T!Flags
<1>3. /\ e.seg = f /\ f \in Seg /\ e.p \in PeerState
      /\ e.p.st = q.st /\ e.p.isn = q.isn /\ e.p.rcv = q.rcv /\ e.p.left = q.left
      /\ e.p.sent = q.sent + Uses(f) /\ (e.p.fin <=> q.fin \/ "FIN" \in {"ACK"})
      /\ (Uses(f) = 0 => e.p.out = q.out)
  <2>1. PICK fl \in T!Flags, d \in Seq(Nat) : fl = {"ACK"} /\ d = <<>>
    BY <1>2
  <2>2. e = T!Emit(q, fl, d) /\ f = T!Segment(fl, T!Add(q.isn, q.sent), q.rcv, d)
    BY <1>1, <2>1
  <2>3. /\ e.seg = f /\ f \in Seg /\ e.p \in PeerState
        /\ e.p.st = q.st /\ e.p.isn = q.isn /\ e.p.rcv = q.rcv /\ e.p.left = q.left
        /\ e.p.sent = q.sent + Uses(f) /\ (e.p.fin <=> q.fin \/ "FIN" \in fl)
        /\ (Uses(f) = 0 => e.p.out = q.out)
    BY <1>2, <2>2, EmitIs
  <2> QED BY <2>1, <2>3
<1>4. f.flags = {"ACK"} /\ f.data = <<>> /\ f.seq = T!Add(epeer.isn, epeer.sent)
  BY <1>1 DEF T!Segment
<1>5. Uses(f) = 0
  <2>1. "SYN" \notin f.flags /\ "FIN" \notin f.flags /\ Len(f.data) = 0
    BY <1>4
  <2> QED BY <1>3, <2>1, UsesIs
<1>6. e.p.sent = q.sent /\ e.p.out = q.out /\ (e.p.fin <=> q.fin)
  <2>1. q.sent \in Nat
    BY DEF PeerState
  <2> QED BY <1>3, <1>5, <2>1
<1>7. \/ epeer' = q /\ r.segs = <<>>
      \/ epeer' = e.p /\ r.segs = <<f>>
  BY <1>3
<1>8. /\ epeer' \in PeerState /\ epeer'.st = q.st /\ epeer'.isn = q.isn /\ epeer'.sent = q.sent
      /\ epeer'.rcv = q.rcv /\ epeer'.left = q.left /\ (epeer'.fin <=> q.fin) /\ epeer'.out = q.out
  BY <1>3, <1>6, <1>7
<1>9. elink' = elink \/ elink' = Append(elink, f)
  <2>1. elink \in Seq(Seg)
    BY DEF EInv, Order
  <2> QED BY <1>3, <1>7, <2>1, Concat
<1>10. Peer' /\ Order'
  BY <1>3, <1>4, <1>8, <1>9, ReactionKeeps DEF EInv
<1> QED BY <1>8, <1>10

LEMMA SynReacts ==
  ASSUME EInv, PeerAt("syn"), NEW s, s = OutAt("syn"), NEW r \in T!Reactions(s),
         epeer' = r.p, elink' = elink \o r.segs, UNCHANGED <<eiss, epeerIsn, eseqAfter, efinSeq, erx>>
  PROVE  Peer' /\ Order' /\ Heard("synack")'
<1>1. "syn" \in T!Sending
  BY DEF T!Sending
<1>2. PICK p : p = Heeds(s)
  OBVIOUS
<1>3. /\ p \in PeerState /\ p.isn = epeer.isn /\ p.sent = epeer.sent
      /\ p.left = epeer.left /\ p.fin = epeer.fin /\ p.out = epeer.out /\ p.rcv = T!Add(eiss, 1)
  BY <1>1, <1>2, HeedsIs
<1>4. ~epeer.fin /\ epeer.left = <<>> /\ epeer.sent = 0
  BY DEF PeerAt
<1>5. s.flags = {"SYN"} /\ s.data = <<>>
  BY <1>1, OutFields DEF EInv
<1>6. PICK fl \in T!Flags, d \in Seq(Nat) : fl = {"SYN", "ACK"} /\ d = <<>>
  <2>1. {"SYN", "ACK"} \in T!Flags
    BY DEF T!Flags
  <2>2. <<>> \in Seq(Nat)
    OBVIOUS
  <2> QED BY <2>1, <2>2
<1>7. PICK e : e = T!Emit(p, fl, d)
  OBVIOUS
<1>8. r \in {Resets(s, p), [p |-> [e.p EXCEPT !.st = "synrcvd"], segs |-> <<e.seg>>]}
  BY <1>2, <1>5, <1>6, <1>7, ReactSyn
<1>9. CASE r = Resets(s, p)
  <2>1. Peer' /\ Order' /\ epeer'.st = "closed"
    BY <1>1, <1>2, <1>9, ResetKeeps
  <2> QED BY <2>1 DEF Heard
<1>10. CASE r = [p |-> [e.p EXCEPT !.st = "synrcvd"], segs |-> <<e.seg>>]
  <2>1. PICK f : f = T!Segment(fl, T!Add(p.isn, p.sent), p.rcv, d)
    OBVIOUS
  <2>2. p.sent <= SeqSpace
    BY <1>3, SentBound, Sizes DEF EInv
  <2>3. /\ e.seg = f /\ f \in Seg /\ e.p \in PeerState
        /\ e.p.isn = p.isn /\ e.p.rcv = p.rcv /\ e.p.left = p.left
        /\ e.p.sent = p.sent + Uses(f) /\ (e.p.fin <=> p.fin \/ "FIN" \in fl)
        /\ (Uses(f) # 0 => e.p.out = p.out \cup {f})
    BY <1>3, <1>7, <2>1, <2>2, EmitIs
  <2>4. f.flags = {"SYN", "ACK"} /\ f.data = <<>> /\ f.seq = T!Add(epeer.isn, 0)
    BY <1>3, <1>4, <1>6, <2>1 DEF T!Segment
  <2>5. Uses(f) = 1
    <3>1. "SYN" \in f.flags /\ Len(f.data) = 0
      BY <2>4
    <3> QED BY <2>3, <3>1, UsesIs
  <2>6. "FIN" \notin fl
    BY <1>6
  <2>7. e.p.sent = 1 /\ e.p.out = epeer.out \cup {f} /\ ~e.p.fin /\ e.p.left = <<>>
    BY <1>3, <1>4, <2>3, <2>5, <2>6
  <2>8. epeer' = [e.p EXCEPT !.st = "synrcvd"] /\ r.segs = <<f>>
    BY <1>10, <2>3
  <2>9. /\ epeer' \in PeerState /\ epeer'.st = "synrcvd" /\ epeer'.isn = epeer.isn /\ epeer'.sent = 1
        /\ epeer'.rcv = T!Add(eiss, 1) /\ epeer'.left = <<>> /\ ~epeer'.fin /\ epeer'.out = epeer.out \cup {f}
    BY <1>3, <2>3, <2>7, <2>8 DEF PeerState
  <2>10. DataOut' <=> DataOut
    BY <2>4, <2>9 DEF DataOut
  <2>11. Known(f)'
    <3>1. 0 \in 0 .. epeer'.sent /\ 0 + Uses(f) <= epeer'.sent /\ f.seq = T!Add(epeer'.isn, 0)
      BY <2>4, <2>5, <2>9
    <3> QED BY <2>4, <3>1 DEF Known
  <2>12. Order /\ Peer /\ elink \in Seq(Seg) /\ epeer'.sent \in Nat /\ epeer.sent <= epeer'.sent
    BY <1>4, <2>9 DEF EInv, Order
  <2>13. elink' = Append(elink, f)
    BY <2>3, <2>8, <2>12, Concat
  <2>14. Order'
    BY <2>3, <2>4, <2>9, <2>10, <2>11, <2>12, <2>13, SendOrder
  <2>15. Peer'
    <3>1. epeer'.sent + Len(epeer'.left) + (IF epeer'.fin THEN 0 ELSE 1) <= Len(Payload) + 2
      <4>1. Len(epeer'.left) = 0 /\ Len(Payload) \in Nat
        BY <2>9, Sizes
      <4> QED BY <2>9, <4>1
    <3>2. \A g \in epeer'.out : Known(g)'
      <4> SUFFICES ASSUME NEW g \in epeer'.out PROVE Known(g)'
        OBVIOUS
      <4>1. CASE g = f
        BY <2>11, <4>1
      <4>2. CASE g \in epeer.out
        <5>1. g \in Seg /\ Known(g)
          BY <2>12, <4>2 DEF Peer, PeerState
        <5> QED BY <2>9, <2>10, <2>12, <5>1, KnownGrows
      <4> QED BY <2>9, <4>1, <4>2
    <3> QED BY <2>9, <3>1, <3>2 DEF Peer
  <2>16. Heard("synack")'
    <3>1. T!Add(eiss, 1)' = T!Add(eiss, 1)
      BY DEF T!Add
    <3> QED BY <2>9, <3>1 DEF Heard, PeerAt
  <2> QED BY <2>14, <2>15, <2>16
<1> QED BY <1>8, <1>9, <1>10

LEMMA AckReacts ==
  ASSUME EInv, NEW c \in {"ack", "last"}, PeerAt(c), NEW s, s = OutAt(c), NEW r \in T!Reactions(s),
         epeer' = r.p, elink' = elink \o r.segs, UNCHANGED <<eiss, epeerIsn, eseqAfter, efinSeq, erx>>
  PROVE  Peer' /\ Order' /\ Heard(After(c))'
<1>1. c \in T!Sending
  BY DEF T!Sending
<1>2. PICK p : p = Heeds(s)
  OBVIOUS
<1>3. /\ p \in PeerState /\ p.isn = epeer.isn /\ p.sent = epeer.sent /\ p.st = epeer.st
      /\ p.left = epeer.left /\ p.fin = epeer.fin /\ p.out = epeer.out
      /\ (c = "ack" => p.rcv = T!Add(eiss, 1)) /\ (c = "last" => p.rcv = T!Add(T!ExpectedAck, 1))
  BY <1>1, <1>2, HeedsIs
<1>4. s.flags = {"ACK"} /\ s.data = <<>>
  BY <1>1, OutFields DEF EInv
<1>5. PICK q : q = [p EXCEPT !.st = IF p.st = "synrcvd" THEN "est" ELSE p.st]
  OBVIOUS
<1>6. r = [p |-> q, segs |-> <<>>]
  <2>1. s.flags # {"SYN"} /\ "FIN" \notin s.flags
    BY <1>4
  <2> QED BY <1>2, <1>4, <1>5, <2>1, ReactAck
<1>7. /\ q \in PeerState /\ q.isn = epeer.isn /\ q.sent = epeer.sent /\ q.rcv = p.rcv
      /\ q.left = epeer.left /\ q.fin = epeer.fin /\ q.out = epeer.out
      /\ q.st = IF p.st = "synrcvd" THEN "est" ELSE p.st
  BY <1>3, <1>5 DEF PeerState
<1>8. q.left # <<>> => DataOut \/ (q.left = Payload /\ q.rcv = T!ExpectedAck)
  BY <1>7 DEF PeerAt
<1>9. /\ Peer' /\ Order'
      /\ epeer'.st = q.st /\ epeer'.isn = q.isn /\ epeer'.sent = q.sent /\ epeer'.rcv = q.rcv
      /\ epeer'.left = q.left /\ (epeer'.fin <=> q.fin) /\ epeer'.out = q.out
  <2>1. PICK e : e = T!Emit(q, {"ACK"}, <<>>)
    OBVIOUS
  <2> QED BY <1>6, <1>7, <1>8, <2>1, AckedKeeps
<1>10. Heard(After(c))'
  <2>1. CASE c = "ack"
    <3>1. epeer'.st = "est" /\ epeer'.rcv = T!Add(eiss', 1)
      BY <1>3, <1>7, <1>9, <2>1 DEF PeerAt
    <3>2. PeerAt("data")'
      BY <1>7, <1>9, <2>1, <3>1 DEF PeerAt
    <3> QED BY <2>1, <3>2 DEF Heard, After
  <2>2. CASE c = "last"
    <3>1. epeer'.st = "closewait" /\ epeer'.rcv = T!Add(T!ExpectedAck, 1)' /\ DataOut'
      BY <1>3, <1>7, <1>9, <2>2 DEF PeerAt, T!ExpectedAck, DataOut
    <3>2. \E k \in 0 .. epeer'.sent : T!Add(efinSeq, 1)' = T!Add(epeer'.isn, k)
      BY <1>7, <1>9, <2>2 DEF PeerAt
    <3>3. PeerAt("last")'
      BY <3>1, <3>2 DEF PeerAt
    <3> QED BY <2>2, <3>3 DEF Heard, After
  <2> QED BY <2>1, <2>2
<1> QED BY <1>9, <1>10

LEMMA DataReacts ==
  ASSUME EInv, PeerAt("data"), NEW s, s = OutAt("data"), NEW r \in T!Reactions(s),
         epeer' = r.p, elink' = elink \o r.segs, UNCHANGED <<eiss, epeerIsn, eseqAfter, efinSeq, erx>>
  PROVE  Peer' /\ Order' /\ Heard("echo")'
<1>1. "data" \in T!Sending
  BY DEF T!Sending
<1>2. PICK p : p = Heeds(s)
  OBVIOUS
<1>3. /\ p \in PeerState /\ p.isn = epeer.isn /\ p.sent = epeer.sent /\ p.st = epeer.st
      /\ p.fin = epeer.fin /\ p.out = epeer.out /\ p.rcv = T!ExpectedAck
  BY <1>1, <1>2, HeedsIs
<1>4. s.flags = {"PSH", "ACK"} /\ s.data = Payload
  BY <1>1, OutFields DEF EInv
<1>5. PICK q : q = [p EXCEPT !.left = s.data]
  OBVIOUS
<1>6. PICK e : e = T!Emit(q, {"ACK"}, <<>>)
  OBVIOUS
<1>7. r \in IF p.fin THEN {Resets(s, p)} ELSE {[p |-> q, segs |-> <<>>], [p |-> e.p, segs |-> <<e.seg>>]}
  <2>1. s.flags # {"SYN"} /\ "FIN" \notin s.flags /\ s.data # <<>>
    BY <1>4, Sizes
  <2> QED BY SMTT(30), <1>2, <1>5, <1>6, <2>1, ReactData
<1>8. CASE p.fin
  <2>1. r = Resets(s, p)
    BY <1>7, <1>8
  <2>2. Peer' /\ Order' /\ epeer'.st = "closed"
    BY <1>1, <1>2, <2>1, ResetKeeps
  <2> QED BY <2>2 DEF Heard
<1>9. CASE ~p.fin
  <2>1. /\ q \in PeerState /\ q.isn = epeer.isn /\ q.sent = epeer.sent /\ q.rcv = T!ExpectedAck
        /\ q.left = Payload /\ q.fin = epeer.fin /\ q.out = epeer.out /\ q.st = epeer.st
    BY <1>3, <1>4, <1>5, Sizes DEF PeerState
  <2>2. epeer.sent = 1 /\ ~epeer.fin /\ epeer.st = "est"
    BY <1>3, <1>9 DEF PeerAt
  <2>3. r \in {[p |-> q, segs |-> <<>>], [p |-> e.p, segs |-> <<e.seg>>]}
    BY <1>7, <1>9
  <2>4. Peer' /\ Order' /\ epeer'.st = q.st /\ epeer'.rcv = q.rcv
    BY <1>6, <2>1, <2>2, <2>3, AckedKeeps
  <2>5. epeer'.st = "est" /\ epeer'.rcv = T!ExpectedAck'
    BY <2>1, <2>2, <2>4 DEF T!ExpectedAck
  <2>6. PeerAt("echo")'
    BY <2>5 DEF PeerAt
  <2> QED BY <2>4, <2>6 DEF Heard
<1> QED BY <1>8, <1>9

LEMMA FinReacts ==
  ASSUME EInv, PeerAt("fin"), NEW s, s = OutAt("fin"), NEW r \in T!Reactions(s),
         epeer' = r.p, elink' = elink \o r.segs, UNCHANGED <<eiss, epeerIsn, eseqAfter, efinSeq, erx>>
  PROVE  Peer' /\ Order' /\ Heard("close")'
<1>1. "fin" \in T!Sending
  BY DEF T!Sending
<1>2. PICK p : p = Heeds(s)
  OBVIOUS
<1>3. /\ p \in PeerState /\ p.isn = epeer.isn /\ p.sent = epeer.sent /\ p.left = epeer.left
      /\ p.fin = epeer.fin /\ p.out = epeer.out /\ p.rcv = T!Add(T!ExpectedAck, 1)
  BY <1>1, <1>2, HeedsIs
<1>4. s.flags = {"FIN", "ACK"} /\ s.data = <<>>
  BY <1>1, OutFields DEF EInv
<1>5. PICK q : q = [p EXCEPT !.st = "closewait"]
  OBVIOUS
<1>6. PICK e : e = T!Emit(q, {"ACK"}, <<>>)
  OBVIOUS
<1>7. r \in {[p |-> q, segs |-> <<>>], [p |-> e.p, segs |-> <<e.seg>>]}
  <2>1. s.flags # {"SYN"} /\ "FIN" \in s.flags
    BY <1>4
  <2> QED BY <1>2, <1>4, <1>5, <1>6, <2>1, ReactFin
<1>8. /\ q \in PeerState /\ q.isn = epeer.isn /\ q.sent = epeer.sent /\ q.rcv = T!Add(T!ExpectedAck, 1)
      /\ q.left = epeer.left /\ q.fin = epeer.fin /\ q.out = epeer.out /\ q.st = "closewait"
  BY <1>3, <1>5 DEF PeerState
<1>9. DataOut
  BY DEF PeerAt
<1>10. Peer' /\ Order' /\ epeer'.st = q.st /\ epeer'.rcv = q.rcv /\ epeer'.out = q.out
  BY <1>6, <1>7, <1>8, <1>9, AckedKeeps
<1>11. PeerAt("close")'
  <2>1. epeer'.st = "closewait" /\ epeer'.rcv = T!Add(T!ExpectedAck, 1)' /\ DataOut'
    BY <1>8, <1>9, <1>10 DEF T!ExpectedAck, DataOut
  <2> QED BY <2>1 DEF PeerAt
<1> QED BY <1>10, <1>11 DEF Heard

LEMMA TransmitKeeps == ASSUME EInv, T!Transmit PROVE EInv'
<1>1. PICK s \in etx :
        /\ etx' = {} /\ etxDone'
        /\ IF epeer.st = "closed" THEN UNCHANGED <<epeer, elink, erefused>>
           ELSE IF T!Unacceptable(s) THEN erefused' = erefused \cup {s} /\ UNCHANGED <<epeer, elink>>
           ELSE \E r \in T!Reactions(s) : epeer' = r.p /\ elink' = elink \o r.segs /\ UNCHANGED erefused
        /\ UNCHANGED <<epc, eiss, epeerIsn, eslot, echoed, eseqAfter, efinSeq, eresult, erx>>
  BY DEF T!Transmit
<1>2. PICK c \in T!Sending : s = OutAt(c) /\ Heard(c) /\ (epc # "idle" => c = epc)
  BY DEF EInv, Sequence
<1>3. PICK d : d = After(c)
  OBVIOUS
<1>4. Peer' /\ Order' /\ Heard(d)' /\ erefused' = erefused
  <2>1. CASE epeer.st = "closed"
    BY <1>1, <2>1, PeerSame, OrderSame DEF EInv, Heard
  <2>2. CASE epeer.st # "closed"
    <3>1. PeerAt(c)
      BY <1>2, <2>2 DEF Heard
    <3>2. ~T!Unacceptable(s)
      BY <1>2, <3>1, Accepted
    <3>3. PICK r \in T!Reactions(s) : epeer' = r.p /\ elink' = elink \o r.segs /\ UNCHANGED erefused
      BY <1>1, <2>2, <3>2
    <3>4. CASE c = "syn"
      BY <1>1, <1>2, <1>3, <3>1, <3>3, <3>4, SynReacts DEF After
    <3>5. CASE c \in {"ack", "last"}
      <4>1. Peer' /\ Order' /\ Heard(After(c))'
        BY <1>1, <1>2, <3>1, <3>3, <3>5, AckReacts
      <4> QED BY <1>3, <3>3, <4>1
    <3>6. CASE c = "data"
      BY <1>1, <1>2, <1>3, <3>1, <3>3, <3>6, DataReacts DEF After
    <3>7. CASE c = "fin"
      BY <1>1, <1>2, <1>3, <3>1, <3>3, <3>7, FinReacts DEF After
    <3> QED BY <3>4, <3>5, <3>6, <3>7 DEF T!Sending
  <2> QED BY <2>1, <2>2
<1>5. Sequence'
  <2>1. epc' # "idle" => epc' = c /\ After(epc)' = d
    BY <1>1, <1>2, <1>3 DEF After
  <2> QED BY <1>1, <1>2, <1>4, <2>1 DEF EInv, Sequence
<1>6. Polled'
  BY <1>1, ClientSame DEF EInv
<1> QED BY <1>4, <1>5, <1>6 DEF EInv

LEMMA EchoInit == ASSUME T!Init PROVE EInv
<1>1. /\ epc = "syn" /\ eiss \in T!SeqNo /\ epeerIsn = 0 /\ etx = {} /\ ~etxDone /\ erx = <<>> /\ eslot = 0
      /\ echoed = <<>> /\ eseqAfter = 0 /\ efinSeq = 0 /\ eresult = "none" /\ elink = <<>> /\ erefused = {}
  BY TcpEchoAssumption DEF T!Init, T!Assumptions, T!SeqNo
<1>2. /\ epeer.st = "listen" /\ epeer.sent = 0 /\ epeer.left = <<>> /\ ~epeer.fin /\ epeer.out = {}
      /\ epeer \in PeerState
  <2>1. epeer \in [st : {"listen"}, isn : Isns, sent : {0}, rcv : {0}, left : {<<>>}, fin : {FALSE}, out : {{}}]
    BY DEF T!Init
  <2>2. Isns \subseteq T!SeqNo /\ 0 \in T!SeqNo /\ <<>> \in Seq(Nat)
    BY TcpEchoAssumption, Sizes DEF T!Assumptions, T!SeqNo
  <2>3. epeer.st = "listen" /\ epeer.sent = 0 /\ epeer.left = <<>> /\ ~epeer.fin /\ epeer.out = {}
    BY <2>1
  <2>4. epeer \in PeerState
    <3>1. PICK i \in Isns : epeer = [st |-> "listen", isn |-> i, sent |-> 0, rcv |-> 0, left |-> <<>>,
                                     fin |-> FALSE, out |-> {}]
      BY <2>1
    <3>2. i \in T!SeqNo /\ {} \in SUBSET Seg
      BY <2>2
    <3> QED BY <2>2, <3>1, <3>2 DEF PeerState
  <2> QED BY <2>3, <2>4
<1>3. Peer
  <2>1. Len(epeer.left) = 0 /\ Len(Payload) \in Nat
    BY <1>2, Sizes
  <2>2. epeer.sent + Len(epeer.left) + (IF epeer.fin THEN 0 ELSE 1) <= Len(Payload) + 2
    BY <1>2, <2>1
  <2> QED BY <1>2, <2>2 DEF Peer
<1>4. Sequence
  <2>1. PeerAt("syn")
    BY <1>2 DEF PeerAt
  <2> QED BY <1>1, <2>1, Sizes DEF Sequence, Heard, T!Sending
<1>5. Order
  <2>1. NumRx \in Nat /\ Len(erx) = 0 /\ Len(elink) = 0 /\ erx \in Seq(Seg) /\ elink \in Seq(Seg)
    BY <1>1, TcpEchoAssumption DEF T!Assumptions
  <2>2. ~DataOut
    BY <1>2 DEF DataOut
  <2> QED BY <2>1, <2>2 DEF Order, Fronted
<1>6. Polled
  BY <1>1 DEF Polled
<1> QED BY <1>3, <1>4, <1>5, <1>6 DEF EInv

LEMMA EchoNext == ASSUME EInv, [T!Next]_T!vars PROVE EInv'
<1>1. CASE T!Post
  BY <1>1, PostKeeps
<1>2. CASE T!Sent
  BY <1>2, SentKeeps
<1>3. CASE T!SendTimeout \/ T!PollTimeout
  BY <1>3, TimeoutsKeep
<1>4. CASE T!PollSynAck
  BY <1>4, SynAckKeeps
<1>5. CASE T!PollEcho
  BY <1>5, EchoKeeps
<1>6. CASE T!PollFin
  BY <1>6, FinKeeps
<1>7. CASE T!Transmit
  BY <1>7, TransmitKeeps
<1>8. CASE T!PeerSends
  BY <1>8, PeerSendsKeeps
<1>9. CASE T!Retransmit
  BY <1>9, RetransmitKeeps
<1>10. CASE T!Deliver
  BY <1>10, DeliverKeeps
<1>11. CASE T!Foreign
  BY <1>11, ForeignKeeps
<1>12. CASE UNCHANGED T!vars
  <2>1. UNCHANGED <<epc, eiss, epeerIsn, etx, etxDone, eslot, echoed, eseqAfter, efinSeq, eresult,
                    erx, epeer, elink, erefused>>
    BY <1>12 DEF T!vars, T!clientVars
  <2> QED BY <2>1, PeerSame, TalkSame, OrderSame, ClientSame DEF EInv
<1>13. CASE T!Hlt
  <2>1. UNCHANGED <<epc, eiss, epeerIsn, etx, etxDone, eslot, echoed, eseqAfter, efinSeq, eresult,
                    erx, epeer, elink, erefused>>
    BY <1>13 DEF T!Hlt
  <2> QED BY <2>1, PeerSame, TalkSame, OrderSame, ClientSame DEF EInv
<1> QED BY <1>1, <1>2, <1>3, <1>4, <1>5, <1>6, <1>7, <1>8, <1>9, <1>10, <1>11, <1>12, <1>13
        DEF T!Next

(* The invariant of tcp_echo_test, its peer and the link between them. *)
THEOREM EchoInvariance == T!Spec => []EInv
BY EchoInit, EchoNext, PTL DEF T!Spec

(***************************************************************************)
(* For every payload, every number space more than twice as large and      *)
(* every pair of initial sequence numbers, near the wrap or not: no        *)
(* segment tcp_echo_test sends is out of sequence for the peer or          *)
(* acknowledges what it has not sent, however often it retransmits.        *)
(***************************************************************************)
THEOREM SegmentsAccepted == T!Spec => []PeerAcceptsEverySegment
<1>1. EInv => PeerAcceptsEverySegment
  BY DEF EInv, Sequence, PeerAcceptsEverySegment, T!PeerAcceptsEverySegment
<1> QED BY <1>1, EchoInvariance, PTL

(***************************************************************************)
(* What a successful tcp_echo_test returns is a non-empty beginning of     *)
(* what it sent, whatever was echoed, in how many pieces, with how many    *)
(* retransmissions and frames of others in the slots between.              *)
(***************************************************************************)
THEOREM EchoRight == T!Spec => []EchoIsPrefix
<1>1. EInv => EchoIsPrefix
  BY DEF EInv, Polled, EchoIsPrefix, T!EchoIsPrefix
<1> QED BY <1>1, EchoInvariance, PTL


=============================================================================
