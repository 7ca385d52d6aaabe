-------------------------------- MODULE E1000 --------------------------------
(***************************************************************************)
(* net/e1000.rs: one request and one polled answer over the NIC's          *)
(* descriptor rings.  receive_test_frame ("netcheck"), arp_resolve, ping,  *)
(* tcp_syn_test, dns_query_test and resolve_hostname share one shape: a    *)
(* fresh RX ring of which only descriptor 0 has a buffer, a request on a   *)
(* fresh TX ring, then a loop that reads the descriptor, compares the      *)
(* clock and halts.  All but netcheck and arp_resolve run arp_resolve      *)
(* first, on rings of its own.                                             *)
(*                                                                         *)
(* The NIC runs concurrently: it transmits, and it receives between any    *)
(* two register writes.  A frame is abstracted to what the clients compare *)
(* (protocol, sender, question) plus `call`, the call whose request it     *)
(* answers, which no client can see.                                       *)
(***************************************************************************)
EXTENDS Integers, FiniteSets

CONSTANTS
  Hosts,       (* addresses a call may name                                *)
  Names,       (* host names, of equal length once encoded                 *)
  BadName,     (* a host name build_query refuses                          *)
  Ops,         (* operations of the instance                               *)
  Callers,     (* "boot": interrupts on; "shell": inside the keyboard ISR  *)
  Patience,    (* ticks a wait lasts (90 in the code)                      *)
  RingSize,    (* NUM_RX_DESCRIPTORS                                       *)
  MaxCalls,    (* bound on the calls of a behaviour                        *)
  MaxForeign   (* bound on the frames nobody asked for                     *)

AllOps == {"netcheck", "arp", "ping", "syn", "dns", "resolve"}

ASSUME OpsAssumption      == Ops \subseteq AllOps
ASSUME CallersAssumption  == Callers \subseteq {"boot", "shell"}
ASSUME NamesAssumption    == BadName \notin Names
ASSUME PatienceAssumption == Patience \in Nat
ASSUME RingSizeAssumption == RingSize \in Nat /\ RingSize > 1
ASSUME BoundsAssumption   == MaxCalls \in Nat /\ MaxForeign \in Nat

VARIABLES
  pc,       (* where the client is                                         *)
  call,     (* the call in progress or, when idle, the last one            *)
  phase,    (* "arp": inside arp_resolve; "main": the operation's own part *)
  wait,     (* which descriptor the loop polls, "tx" or "rx"               *)
  elapsed,  (* timer_ticks() - start_tick of this wait                     *)
  ring,     (* the RX descriptors RDBAL points the NIC at                  *)
  rdh,      (* RDH                                                         *)
  rdt,      (* RDT                                                         *)
  rctl,     (* RCTL.EN                                                     *)
  txq,      (* the request posted on the TX ring and not yet transmitted   *)
  txDone,   (* DD of TX descriptor 0                                       *)
  wire,     (* answers under way to the guest                              *)
  foreign,  (* frames nobody asked for sent so far                         *)
  result,   (* what the last call returned                                 *)
  heard,    (* history: frames the NIC stored since RDBAL last changed     *)
  missed    (* history: answers to this phase the NIC had no room for      *)

clientVars == <<pc, call, phase, wait, result>>
nicVars    == <<ring, rdh, rdt, rctl, txq, txDone>>
netVars    == <<wire, foreign>>
histVars   == <<heard, missed>>
vars == <<clientVars, elapsed, nicVars, netVars, histVars>>

-----------------------------------------------------------------------------
(* Frames, descriptors and results. *)

NoFrame  == [kind |-> "none"]
Junk(n)  == [kind |-> "junk", call |-> 0, n |-> n]
Answer(kind, req, body) ==
  [kind |-> kind, src |-> req.host, name |-> req.name, call |-> req.id, body |-> body]

Null    == [st |-> "null",   frame |-> NoFrame]   \* addr = 0
Posted  == [st |-> "posted", frame |-> NoFrame]   \* a buffer, status = 0
Done(f) == [st |-> "done",   frame |-> f]         \* a buffer, DD set

Slots     == 0 .. RingSize - 1
FreshRing == [i \in Slots |-> IF i = 0 THEN Posted ELSE Null]

NoCall == [op |-> "none", id |-> 0]
Idle   == [status |-> "none", frame |-> NoFrame]

(***************************************************************************)
(* What a peer may answer (external: QEMU's user network).  A SYN is       *)
(* accepted or reset; a DNS reply has an A record or none.                 *)
(***************************************************************************)
Answers(req) ==
  CASE req.kind = "arp"  -> {Answer("arp", req, "reply")}
    [] req.kind = "ping" -> {Answer("pong", req, "reply")}
    [] req.kind = "syn"  -> {Answer("tcp", req, b) : b \in {"synack", "rst"}}
    [] req.kind = "dns"  -> {Answer("dns", req, b) : b \in {"record", "empty"}}

(***************************************************************************)
(* The request each operation builds, and the one this phase posts.        *)
(* resolve_hostname is a dns_query_test of its own.                        *)
(***************************************************************************)
To(kind)    == [kind |-> kind, host |-> call.host, name |-> call.name, id |-> call.id]
ArpRequest  == To("arp")
EchoRequest == To("ping")
SynRequest  == To("syn")
DnsRequest  == To("dns")

Request ==
  IF phase = "arp" THEN ArpRequest
  ELSE CASE call.op \in {"netcheck", "arp"} -> ArpRequest
         [] call.op = "ping"                -> EchoRequest
         [] call.op = "syn"                 -> SynRequest
         [] call.op \in {"dns", "resolve"}  -> DnsRequest

(* The answer `f` is one to the request of the current phase. *)
AnswersNow(f) == pc # "idle" /\ f.call = call.id /\ f \in Answers(Request)

-----------------------------------------------------------------------------
(***************************************************************************)
(* Power-on, or the state a tcp_echo_test leaves behind: the receiver is   *)
(* on, RDT is past its last slot and RDH wherever the exchange ended.      *)
(***************************************************************************)
Init ==
  /\ pc = "idle"
  /\ call = NoCall
  /\ phase = "main"
  /\ wait = "tx"
  /\ elapsed = 0
  /\ \/ /\ rdh = 0 /\ rdt = 0 /\ rctl = FALSE
        /\ ring = [i \in Slots |-> Null]
     \/ /\ rdh \in Slots /\ rdt = RingSize - 1 /\ rctl = TRUE
        /\ ring = [i \in Slots |-> IF i < RingSize - 1 THEN Posted ELSE Null]
  /\ txq = {}
  /\ txDone = FALSE
  /\ wire = {}
  /\ foreign = 0
  /\ result = Idle
  /\ heard = {}
  /\ missed = {}

-----------------------------------------------------------------------------
(* Returning, and the start of a call. *)

Return(status, f) ==
  /\ pc' = "idle"
  /\ result' = [status |-> status, frame |-> f]
  /\ UNCHANGED <<call, phase, wait>>

(* A wait begins: its start_tick is read and descriptor 0 polled. *)
BeginWait(w) ==
  /\ pc' = "look"
  /\ wait' = w
  /\ elapsed' = 0

(* build_query refuses the name before anything is sent. *)
CallRefused(op, caller) ==
  /\ pc = "idle"
  /\ op \in {"dns", "resolve"}
  /\ call.id < MaxCalls
  /\ call' = [op |-> op, id |-> call.id + 1, caller |-> caller,
              host |-> CHOOSE h \in Hosts : TRUE, name |-> BadName]
  /\ result' = [status |-> "err", frame |-> NoFrame]
  /\ UNCHANGED <<pc, phase, wait, elapsed, nicVars, netVars, histVars>>

Call(op, caller, host, name) ==
  /\ pc = "idle"
  /\ call.id < MaxCalls
  /\ call' = [op |-> op, id |-> call.id + 1, caller |-> caller, host |-> host, name |-> name]
  /\ phase' = IF op = "netcheck" THEN "main" ELSE "arp"
  /\ pc' = "base"
  /\ result' = Idle
  /\ UNCHANGED <<wait, elapsed, nicVars, netVars, histVars>>

-----------------------------------------------------------------------------
(* Arming the receiver, one register at a time. *)

SetBaseStale ==    \* slip: the descriptors of the previous ring are kept
  /\ pc = "base"
  /\ pc' = "head"
  /\ heard' = {}
  /\ missed' = {}
  /\ UNCHANGED <<ring, call, phase, wait, result, elapsed, rdh, rdt, rctl, txq, txDone, netVars>>

(* A new ring in fresh frames, then RDBAL, RDBAH and RDLEN. *)
SetBase ==
  /\ pc = "base"
  /\ pc' = "head"
  /\ ring' = FreshRing
  /\ heard' = {}
  /\ missed' = {}
  /\ UNCHANGED <<call, phase, wait, result, elapsed, rdh, rdt, rctl, txq, txDone, netVars>>

SetHeadSkipped ==    \* slip: RDH keeps the previous ring's value
  /\ pc = "head"
  /\ pc' = "tail"
  /\ UNCHANGED <<call, phase, wait, result, elapsed, ring, rdh, rdt, rctl, txq, txDone,
                 netVars, histVars>>

SetHead ==
  /\ pc = "head"
  /\ pc' = "tail"
  /\ rdh' = 0
  /\ UNCHANGED <<call, phase, wait, result, elapsed, ring, rdt, rctl, txq, txDone,
                 netVars, histVars>>

(* RDT = 1, so that [RDH, RDT) is descriptor 0, then RCTL.EN. *)
SetTail ==
  /\ pc = "tail"
  /\ pc' = "post"
  /\ rdt' = 1
  /\ rctl' = TRUE
  /\ UNCHANGED <<call, phase, wait, result, elapsed, ring, rdh, txq, txDone,
                 netVars, histVars>>

(* The request on a TX ring of its own, then TDT = 1. *)
Post ==
  /\ pc = "post"
  /\ txq' = {Request}
  /\ txDone' = FALSE
  /\ BeginWait("tx")
  /\ UNCHANGED <<call, phase, result, ring, rdh, rdt, rctl, netVars, histVars>>

-----------------------------------------------------------------------------
(* The NIC and the network (external). *)

(* The NIC sends the request and sets DD; the peer answers or does not. *)
Transmit ==
  /\ \E req \in txq : \/ \E a \in Answers(req) : wire' = wire \cup {a}
                      \/ wire' = wire
  /\ txq' = {}
  /\ txDone' = TRUE
  /\ UNCHANGED <<clientVars, elapsed, ring, rdh, rdt, rctl, foreign, histVars>>

(***************************************************************************)
(* [RDH, RDT) belongs to the NIC; RDH = RDT means it has no room and drops *)
(* the frame.  Descriptors without a buffer are skipped, RDT or not.       *)
(***************************************************************************)
Receive(f) ==
  LET ahead(i) == (i - rdh) % RingSize
      usable   == {i \in Slots : ring[i].st # "null"}
  IN  IF rctl /\ rdh # rdt /\ usable # {}
      THEN LET s == CHOOSE i \in usable : \A j \in usable : ahead(i) <= ahead(j)
           IN  /\ ring' = [ring EXCEPT ![s] = Done(f)]
               /\ rdh' = (s + 1) % RingSize
               /\ heard' = heard \cup {f}
               /\ UNCHANGED missed
      ELSE /\ missed' = missed \cup {g \in {f} : AnswersNow(g)}
           /\ UNCHANGED <<ring, rdh, heard>>

Deliver(f) ==
  /\ f \in wire
  /\ wire' = wire \ {f}
  /\ Receive(f)
  /\ UNCHANGED <<clientVars, elapsed, rdt, rctl, txq, txDone, foreign>>

(* Broadcasts and traffic of other hosts. *)
Foreign ==
  /\ foreign < MaxForeign
  /\ foreign' = foreign + 1
  /\ Receive(Junk(foreign))
  /\ UNCHANGED <<clientVars, elapsed, rdt, rctl, txq, txDone, wire>>

-----------------------------------------------------------------------------
(* The polling loop. *)

(* What each operation accepts as its answer: netcheck takes any frame. *)
IsArpReply(f)  == f.kind = "arp"  /\ f.src = call.host
IsEchoReply(f) == f.kind = "pong" /\ f.src = call.host
IsSynAck(f)    == f.kind = "tcp"  /\ f.src = call.host /\ f.body = "synack"
IsDnsReply(f)  == f.kind = "dns"  /\ f.src = call.host

MatchesAnySender(f) ==    \* slip: the sender's address is not compared
  CASE call.op = "netcheck" -> TRUE
    [] phase = "arp"        -> f.kind = "arp"
    [] call.op = "ping"     -> f.kind = "pong"
    [] call.op = "syn"      -> f.kind = "tcp" /\ f.body = "synack"
    [] OTHER                -> f.kind = "dns"

(* The frame is the one this phase waits for. *)
Matches(f) ==
  CASE call.op = "netcheck" -> TRUE
    [] phase = "arp"        -> IsArpReply(f)
    [] call.op = "ping"     -> IsEchoReply(f)
    [] call.op = "syn"      -> IsSynAck(f)
    [] OTHER                -> IsDnsReply(f)

(* is_matching_rst. *)
MatchesRst(f) == call.op = "syn" /\ phase = "main" /\ f.kind = "tcp" /\ f.src = call.host
                 /\ f.body = "rst"

(* The value a matching frame makes the operation return. *)
Accept(f) ==
  IF call.op = "resolve" /\ f.body # "record" THEN Return("err", f) ELSE Return("ok", f)

(* TX descriptor 0: DD ends the wait and the loop polls RX next. *)
LookTx ==
  /\ pc = "look" /\ wait = "tx"
  /\ \/ /\ txDone
        /\ BeginWait("rx")
     \/ /\ ~txDone
        /\ pc' = "clock"
        /\ UNCHANGED <<wait, elapsed>>
  /\ UNCHANGED <<call, phase, result, nicVars, netVars, histVars>>

(* RX descriptor 0. *)
LookRx ==
  LET d == ring[0]
  IN  /\ pc = "look" /\ wait = "rx"
      /\ \/ /\ d.st # "done"
            /\ pc' = "clock"
            /\ UNCHANGED <<call, phase, wait, result>>
         \/ /\ d.st = "done" /\ Matches(d.frame)
            /\ \/ /\ phase = "arp" /\ call.op # "arp"
                  /\ phase' = "main"
                  /\ pc' = "base"
                  /\ UNCHANGED <<call, wait, result>>
               \/ /\ phase = "main" \/ call.op = "arp"
                  /\ Accept(d.frame)
         \/ /\ d.st = "done" /\ MatchesRst(d.frame)
            /\ Return("err", d.frame)
         \/ /\ d.st = "done" /\ ~Matches(d.frame) /\ ~MatchesRst(d.frame)
            /\ pc' = "rearm"
            /\ UNCHANGED <<call, phase, wait, result>>
      /\ UNCHANGED <<elapsed, nicVars, netVars, histVars>>

(* Not the answer: descriptor 0 is written again, and RDT = 1 again. *)
Rearm ==
  /\ pc = "rearm"
  /\ ring' = [ring EXCEPT ![0] = Posted]
  /\ rdt' = 1
  /\ pc' = "clock"
  /\ UNCHANGED <<call, phase, wait, result, elapsed, rdh, rctl, txq, txDone, netVars, histVars>>

(* A wait is over: netcheck ignores TX's, dns_query_test reports RX's. *)
TimedOut ==
  IF wait = "tx" /\ call.op = "netcheck" THEN BeginWait("rx") /\ UNCHANGED <<call, phase, result>>
  ELSE /\ IF wait = "rx" /\ phase = "main" /\ call.op = "dns"
          THEN Return("ok", NoFrame) ELSE Return("err", NoFrame)
       /\ UNCHANGED elapsed

ClockNever ==    \* slip: the loop never gives up
  /\ pc = "clock"
  /\ pc' = "halt"
  /\ UNCHANGED <<call, phase, wait, result, elapsed, nicVars, netVars, histVars>>

Clock ==
  /\ pc = "clock"
  /\ \/ elapsed > Patience /\ TimedOut
     \/ elapsed <= Patience /\ pc' = "halt" /\ UNCHANGED <<call, phase, wait, result, elapsed>>
  /\ UNCHANGED <<nicVars, netVars, histVars>>

(* The timer: it counts, and it ends the client's hlt; not inside an ISR. *)
Tick ==
  /\ pc \in {"look", "rearm", "clock", "halt"}
  /\ call.caller = "boot"
  /\ pc = "halt" \/ elapsed <= Patience
  /\ elapsed' = IF elapsed <= Patience THEN elapsed + 1 ELSE elapsed
  /\ pc' = IF pc = "halt" THEN "look" ELSE pc
  /\ UNCHANGED <<call, phase, wait, result, nicVars, netVars, histVars>>

-----------------------------------------------------------------------------
Client == SetBase \/ SetHead \/ SetTail \/ Post \/ LookTx \/ LookRx \/ Rearm \/ Clock

Next ==
  \/ \E op \in Ops, c \in Callers : CallRefused(op, c)
  \/ \E op \in Ops, c \in Callers, h \in Hosts, n \in Names : Call(op, c, h, n)
  \/ SetBase \/ SetHead \/ SetTail \/ Post
  \/ Transmit
  \/ \E f \in wire : Deliver(f)
  \/ Foreign
  \/ LookTx \/ LookRx \/ Rearm \/ Clock
  \/ Tick

Spec == Init /\ [][Next]_vars

(* The client executes, the timer fires; the network owes nothing. *)
FairSpec == Spec /\ WF_vars(Client) /\ WF_vars(Tick)

-----------------------------------------------------------------------------
Requests == [kind : {"arp", "ping", "syn", "dns"}, host : Hosts, name : Names, id : 1 .. MaxCalls]
Frames   == (UNION {Answers(r) : r \in Requests}) \cup {Junk(n) : n \in 0 .. MaxForeign}

TypeOK ==
  /\ pc \in {"idle", "base", "head", "tail", "post", "look", "rearm", "clock", "halt"}
  /\ call \in {NoCall} \cup [op : Ops, id : 1 .. MaxCalls, caller : Callers, host : Hosts,
                             name : Names \cup {BadName}]
  /\ phase \in {"arp", "main"}
  /\ wait \in {"tx", "rx"}
  /\ elapsed \in 0 .. Patience + 1
  /\ ring \in [Slots -> {Null, Posted} \cup {Done(f) : f \in Frames}]
  /\ rdh \in Slots /\ rdt \in Slots
  /\ rctl \in BOOLEAN /\ txDone \in BOOLEAN
  /\ txq \subseteq Requests
  /\ wire \subseteq Frames
  /\ foreign \in 0 .. MaxForeign
  /\ result \in [status : {"none", "ok", "err"}, frame : Frames \cup {NoFrame}]
  /\ heard \subseteq Frames /\ missed \subseteq Frames

-----------------------------------------------------------------------------
(* Properties *)

(***************************************************************************)
(* receive_test_frame: the ring is armed before the request is sent, since *)
(* an unarmed one would drop the answer.  The NIC has no room for the      *)
(* answer to the current request only if another frame took the slot.      *)
(***************************************************************************)
OnlyCrowdedOut == missed # {} => heard # {}

(***************************************************************************)
(* The frame a call returns arrived on the ring the call armed for it: no  *)
(* client reads a frame left over from an earlier exchange.                *)
(***************************************************************************)
AnswerIsFresh == result.frame # NoFrame => result.frame \in heard

(***************************************************************************)
(* Whatever else is on the wire, a call that succeeds with an answer got   *)
(* it from the host it asked, never from another host's late answer.       *)
(***************************************************************************)
AnswerFromTarget ==
  result.status = "ok" /\ result.frame # NoFrame /\ call.op # "netcheck" =>
    result.frame.src = call.host

(***************************************************************************)
(* No answer of an earlier exchange is taken for that of the current one:  *)
(* not one left over in the ring, and not one that arrives late from the   *)
(* host asked before.                                                      *)
(***************************************************************************)
AnswerIsOwn == AnswerIsFresh /\ AnswerFromTarget

(***************************************************************************)
(* Every wait is bounded, whatever the NIC and the network do: a call      *)
(* returns.                                                                *)
(***************************************************************************)
CallReturns == (pc # "idle") ~> (pc = "idle")

=============================================================================
