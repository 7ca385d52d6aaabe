-------------------------------- MODULE MCNet --------------------------------
(***************************************************************************)
(* TLC instance of the network drivers: the request/answer clients of      *)
(* E1000, the conversation of TcpEcho and the virtio rings of Virtio.  The *)
(* kernel is in one of them at a time and each runs on rings of its own,   *)
(* so a behaviour is one of the three; the other two stay as they were     *)
(* initialised.                                                            *)
(***************************************************************************)
EXTENDS E1000, Sequences

CONSTANTS
  SeqSpace, Isns, Payload, NumRx, EchoForeign, MaxDup,   (* of TcpEcho     *)
  QueueNums, VirtioForeign                               (* of Virtio      *)

VARIABLES
  part,   (* the driver in use: "e1000", "echo" or "virtio"                *)
  ecaller, ehalted, epc, eiss, epeerIsn, etx, etxDone, erx, eslot, echoed, eseqAfter, efinSeq,
  eresult, epeer, elink, eforeign, edups, erefused,
  vpc, vtx, vrx, vdesc, vkicked, vbuf, vtxBefore, vbefore, vlen, vresult,
  vowed, vforeign, vwire, vstored, vlost

MCPayload == <<1, 2>>

T == INSTANCE TcpEcho WITH
       MaxForeign <- EchoForeign, caller <- ecaller, halted <- ehalted, pc <- epc, iss <- eiss, peerIsn <- epeerIsn,
       tx <- etx, txDone <- etxDone, rx <- erx, slot <- eslot,
       seqAfter <- eseqAfter, finSeq <- efinSeq, result <- eresult,
       peer <- epeer, link <- elink, foreign <- eforeign, dups <- edups,
       refused <- erefused

V == INSTANCE Virtio WITH
       MaxForeign <- VirtioForeign, pc <- vpc, tx <- vtx, rx <- vrx,
       desc <- vdesc, kicked <- vkicked, buf <- vbuf, txBefore <- vtxBefore,
       before <- vbefore, len <- vlen, result <- vresult, owed <- vowed,
       foreign <- vforeign, wire <- vwire, stored <- vstored, lost <- vlost

ASSUME TcpEchoAssumption == T!Assumptions
ASSUME VirtioAssumption  == V!Assumptions

(* The layout of the rings is sound for every queue size up to 1024. *)
ASSUME RingsFitAssumption == \A n \in 1 .. 1024 : V!RingsFit(n)

evars == <<ecaller, ehalted, epc, eiss, epeerIsn, etx, etxDone, erx, eslot, echoed,
           eseqAfter, efinSeq, eresult, epeer, elink, eforeign, edups, erefused>>
vvars == <<vpc, vtx, vrx, vdesc, vkicked, vbuf, vtxBefore, vbefore, vlen,
           vresult, vowed, vforeign, vwire, vstored, vlost>>
all   == <<part, vars, evars, vvars>>

(* A driver that is not in use: one of its initial states is enough. *)
E1000Idle == Init /\ rdh = 0 /\ rctl = FALSE
EchoIdle  == T!Init /\ ecaller = "boot" /\ epeer.isn = eiss /\ eiss = CHOOSE i \in Isns : TRUE

MCInit ==
  \/ part = "e1000"  /\ Init /\ EchoIdle /\ V!Init
  \/ part = "echo"   /\ E1000Idle /\ T!Init /\ V!Init
  \/ part = "virtio" /\ E1000Idle /\ EchoIdle /\ V!Init

MCNext ==
  \/ part = "e1000"  /\ Next   /\ UNCHANGED <<part, evars, vvars>>
  \/ part = "echo"   /\ T!Next /\ UNCHANGED <<part, vars, vvars>>
  \/ part = "virtio" /\ V!Next /\ UNCHANGED <<part, vars, evars>>

(* The fairness of E1000 and of TcpEcho. *)
E1000Client == part = "e1000" /\ Client /\ UNCHANGED <<part, evars, vvars>>
E1000Tick   == part = "e1000" /\ Tick   /\ UNCHANGED <<part, evars, vvars>>
EchoClient  == part = "echo" /\ T!Client      /\ UNCHANGED <<part, vars, vvars>>
EchoUnsent  == part = "echo" /\ T!SendTimeout /\ UNCHANGED <<part, vars, vvars>>
EchoUnheard == part = "echo" /\ T!PollTimeout /\ UNCHANGED <<part, vars, vvars>>

MCSpec ==
  /\ MCInit /\ [][MCNext]_all
  /\ WF_all(E1000Client) /\ WF_all(E1000Tick)
  /\ WF_all(EchoClient) /\ WF_all(EchoUnsent) /\ WF_all(EchoUnheard)

-----------------------------------------------------------------------------
(***************************************************************************)
(* Every segment tcp_echo_test sends is in sequence for the peer and       *)
(* acknowledges nothing the peer has not sent, wrapping included.          *)
(***************************************************************************)
PeerAcceptsEverySegment == T!PeerAcceptsEverySegment

(***************************************************************************)
(* A tcp_echo_test that succeeds returns a non-empty beginning of what was *)
(* sent, in spite of bare ACKs, retransmissions and frames of others.      *)
(***************************************************************************)
EchoIsPrefix == T!EchoIsPrefix

(***************************************************************************)
(* tcp_echo_test called by the boot, with interrupts on, returns whatever  *)
(* the peer and the NIC do; called by the shell, inside the keyboard       *)
(* handler, it returns or halts for ever in one of its waits.              *)
(***************************************************************************)
EchoReturns == part = "echo" => T!EchoReturns

(***************************************************************************)
(* Whatever the virtio device's delay, it sends the two frames once each,  *)
(* in order and as written.                                                *)
(***************************************************************************)
FramesSentIntact == V!FramesSentIntact

(***************************************************************************)
(* The reply to receive_test_frame's request is dropped only if two other  *)
(* frames came first, the wait cannot sleep through it, and alone it is    *)
(* reported.                                                               *)
(***************************************************************************)
ReplyNotMissed == V!ReplyNotMissed
=============================================================================
