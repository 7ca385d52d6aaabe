------------------------------- MODULE TcpEcho -------------------------------
(***************************************************************************)
(* tcp_echo_test (net/e1000.rs): handshake, one data segment, its echo and *)
(* a graceful close, each frame sent through a TX descriptor of its own    *)
(* and every received frame kept in one of NumRx descriptors armed up      *)
(* front and never reused.  arp_resolve has succeeded; RX is armed.        *)
(* The boot calls it with interrupts on, the shell's tcpecho from inside   *)
(* the keyboard handler, with interrupts off.                              *)
(*                                                                         *)
(* The peer is the TCP of QEMU's user network in front of a stream server: *)
(* it may refuse, close early, echo in pieces, close together with the     *)
(* last piece, and retransmit.  The link is FIFO; the NIC drops what finds *)
(* no free descriptor.  Sequence numbers are taken modulo SeqSpace (2^32).   *)
(***************************************************************************)
EXTENDS Integers, Sequences, SequencesExt

CONSTANTS
  SeqSpace,    (* 2^32 in the code                                         *)
  Isns,        (* initial sequence numbers, of either side                 *)
  Payload,     (* the bytes sent, a sequence                               *)
  NumRx,       (* NUM_RX_SLOTS                                             *)
  MaxForeign,  (* bound on frames of other conversations                   *)
  MaxDup       (* bound on retransmissions by the peer                     *)

(* What is assumed of them; the instance in MCNet evaluates it. *)
Assumptions ==
  /\ SeqSpace \in Nat /\ SeqSpace > 2 * (Len(Payload) + 2)
  /\ Isns \subseteq 0 .. SeqSpace - 1
  /\ Payload \in Seq(Nat) /\ Payload # <<>>
  /\ NumRx \in Nat \ {0}
  /\ MaxForeign \in Nat /\ MaxDup \in Nat

VARIABLES
  caller,   (* "boot", or "shell": the keyboard handler                    *)
  halted,   (* in a hlt that nothing ends                                  *)
  pc,       (* the phase of the exchange                                   *)
  iss,      (* initial_seq                                                 *)
  peerIsn,  (* peer_isn, once known                                        *)
  tx,       (* the segment posted and not yet transmitted                  *)
  txDone,   (* DD of the TX descriptor in use                              *)
  rx,       (* the frames in the RX descriptors, in arrival order          *)
  slot,     (* the RX descriptor polled next                               *)
  echoed,   (* echo_result's bytes                                         *)
  seqAfter, (* peer_seq_after_echo                                         *)
  finSeq,   (* seq_num of the segment taken for the peer's FIN             *)
  result,   (* what the call returned                                      *)
  peer,     (* the peer's connection                                       *)
  link,     (* frames under way to the guest                               *)
  foreign, dups,   (* frames of other conversations, retransmissions       *)
  refused   (* history: segments the peer could not accept                 *)

clientVars == <<caller, halted, pc, iss, peerIsn, tx, txDone, slot, echoed, seqAfter, finSeq, result>>
vars == <<clientVars, rx, peer, link, foreign, dups, refused>>

Add(n, k) == (n + k) % SeqSpace     \* wrapping_add

Segment(flags, seq, ack, data) ==
  [ours |-> TRUE, flags |-> flags, seq |-> seq, ack |-> ack, data |-> data]
Stray == [ours |-> FALSE, flags |-> {}, seq |-> 0, ack |-> 0, data |-> <<>>]

Init ==
  /\ caller \in {"boot", "shell"}
  /\ halted = FALSE
  /\ pc = "syn"
  /\ iss \in Isns
  /\ peerIsn = 0
  /\ tx = {}
  /\ txDone = FALSE
  /\ rx = <<>>
  /\ slot = 0
  /\ echoed = <<>>
  /\ seqAfter = 0
  /\ finSeq = 0
  /\ result = "none"
  /\ peer \in [st : {"listen"}, isn : Isns, sent : {0}, rcv : {0}, left : {<<>>},
               fin : {FALSE}, out : {{}}]
  /\ link = <<>>
  /\ foreign = 0
  /\ dups = 0
  /\ refused = {}

-----------------------------------------------------------------------------
(* The client: segments sent. *)

ExpectedAck == Add(Add(iss, 1), Len(Payload))

OutgoingShort ==    \* slip: the FIN reuses the sequence number of the data
  CASE pc = "syn"  -> Segment({"SYN"}, iss, 0, <<>>)
    [] pc = "ack"  -> Segment({"ACK"}, Add(iss, 1), Add(peerIsn, 1), <<>>)
    [] pc = "data" -> Segment({"PSH", "ACK"}, Add(iss, 1), Add(peerIsn, 1), Payload)
    [] pc = "fin"  -> Segment({"FIN", "ACK"}, Add(iss, 1), seqAfter, <<>>)
    [] pc = "last" -> Segment({"ACK"}, Add(ExpectedAck, 1), Add(finSeq, 1), <<>>)

(* The segment each sending phase builds. *)
Outgoing ==
  CASE pc = "syn"  -> Segment({"SYN"}, iss, 0, <<>>)
    [] pc = "ack"  -> Segment({"ACK"}, Add(iss, 1), Add(peerIsn, 1), <<>>)
    [] pc = "data" -> Segment({"PSH", "ACK"}, Add(iss, 1), Add(peerIsn, 1), Payload)
    [] pc = "fin"  -> Segment({"FIN", "ACK"}, ExpectedAck, seqAfter, <<>>)
    [] pc = "last" -> Segment({"ACK"}, Add(ExpectedAck, 1), Add(finSeq, 1), <<>>)

Sending == {"syn", "ack", "data", "fin", "last"}

(* send_and_wait, first half: a fresh descriptor, then TDT. *)
Post ==
  /\ pc \in Sending /\ ~halted
  /\ tx = {} /\ ~txDone
  /\ tx' = {Outgoing}
  /\ UNCHANGED <<caller, halted, pc, iss, peerIsn, txDone, slot, echoed, seqAfter, finSeq,
                 result, rx, peer, link, foreign, dups, refused>>

Return(r) == pc' = "idle" /\ result' = r

(* ... second half: DD is set, the next phase begins. *)
Sent ==
  /\ pc \in Sending /\ ~halted
  /\ txDone
  /\ txDone' = FALSE
  /\ \/ pc = "last" /\ Return("ok")
     \/ /\ pc # "last"
        /\ pc' = CASE pc = "syn" -> "synack" [] pc = "ack"  -> "data"
                   [] pc = "data" -> "echo"  [] pc = "fin"  -> "close"
        /\ UNCHANGED result
  /\ slot' = IF pc = "data" THEN 1 ELSE slot
  /\ UNCHANGED <<caller, halted, iss, peerIsn, tx, echoed, seqAfter, finSeq, rx, peer, link,
                 foreign, dups, refused>>

(***************************************************************************)
(* ... or DD came too late: the error propagates, from the last ACK too.   *)
(* timer_ticks moves on only for a caller with interrupts on.              *)
(***************************************************************************)
SendTimeout ==
  /\ pc \in Sending /\ caller = "boot"
  /\ tx # {} \/ txDone
  /\ Return("err")
  /\ UNCHANGED <<caller, halted, iss, peerIsn, tx, txDone, slot, echoed, seqAfter, finSeq, rx, peer, link,
                 foreign, dups, refused>>

-----------------------------------------------------------------------------
(* The client: frames polled. *)

Polling == {"synack", "echo", "close"}

Filled == slot < NumRx /\ slot < Len(rx)
Frame  == rx[slot + 1]

rxUnchanged == UNCHANGED <<caller, halted, iss, tx, txDone, rx, peer, link, foreign, dups, refused>>

IsSynAck(f) == f.ours /\ f.flags = {"SYN", "ACK"} /\ f.ack = Add(iss, 1)
IsRst(f)    == f.ours /\ "RST" \in f.flags

(* Phase 1: slot 0 decides, whatever it holds. *)
PollSynAck ==
  /\ pc = "synack" /\ ~halted
  /\ Filled
  /\ \/ /\ IsSynAck(Frame)
        /\ peerIsn' = Frame.seq
        /\ pc' = "ack"
        /\ UNCHANGED result
     \/ /\ ~IsSynAck(Frame)
        /\ Return(IF IsRst(Frame) THEN "reset" ELSE "err")
        /\ UNCHANGED peerIsn
  /\ UNCHANGED <<slot, echoed, seqAfter, finSeq>>
  /\ rxUnchanged

IsEchoOrAck(f) == f.ours /\ f.ack = ExpectedAck    \* slip: an empty echo passes

IsEcho(f) == f.ours /\ f.ack = ExpectedAck /\ f.data # <<>>

(* Phase 4: the slots in arrival order until one holds the echo. *)
PollEcho ==
  /\ pc = "echo" /\ ~halted
  /\ Filled
  /\ slot' = slot + 1
  /\ \/ /\ IsEcho(Frame)
        /\ echoed' = Frame.data
        /\ seqAfter' = Add(Frame.seq, Len(Frame.data))
        /\ pc' = "fin"
     \/ /\ ~IsEcho(Frame)
        /\ UNCHANGED <<echoed, seqAfter, pc>>
  /\ UNCHANGED <<peerIsn, finSeq, result>>
  /\ rxUnchanged

IsFin(f) == f.ours /\ "FIN" \in f.flags

(* Phase 6: the remaining slots until one holds the peer's FIN. *)
PollFin ==
  /\ pc = "close" /\ ~halted
  /\ Filled
  /\ \/ /\ IsFin(Frame)
        /\ finSeq' = Frame.seq
        /\ pc' = "last"
        /\ UNCHANGED slot
     \/ /\ ~IsFin(Frame)
        /\ slot' = slot + 1
        /\ UNCHANGED <<finSeq, pc>>
  /\ UNCHANGED <<peerIsn, echoed, seqAfter, result>>
  /\ rxUnchanged

PollTimeoutOnEmpty ==    \* slip: running out of slots is not noticed
  /\ pc \in Polling
  /\ slot < NumRx /\ caller = "boot"
  /\ Return(IF pc = "close" THEN "ok" ELSE "err")
  /\ UNCHANGED <<peerIsn, slot, echoed, seqAfter, finSeq>>
  /\ rxUnchanged

(***************************************************************************)
(* The slots ran out, or the clock did: a frame may still land between the *)
(* last look and the comparison.  Without the peer's FIN the call is ok.   *)
(* With interrupts off the clock stands still.                             *)
(***************************************************************************)
PollTimeout ==
  /\ pc \in Polling
  /\ slot = NumRx \/ caller = "boot"
  /\ Return(IF pc = "close" THEN "ok" ELSE "err")
  /\ UNCHANGED <<peerIsn, slot, echoed, seqAfter, finSeq>>
  /\ rxUnchanged

(***************************************************************************)
(* The hlt between two looks.  A timer tick ends it for the boot, which    *)
(* looks again; with interrupts off it never ends, so that one look that   *)
(* finds the descriptor not done is the shell's last.                      *)
(***************************************************************************)
Hlt ==
  /\ caller = "shell" /\ ~halted
  /\ \/ pc \in Sending /\ tx # {}
     \/ pc \in Polling /\ slot < NumRx /\ ~Filled
  /\ halted' = TRUE
  /\ UNCHANGED <<caller, pc, iss, peerIsn, tx, txDone, slot, echoed, seqAfter, finSeq,
                 result, rx, peer, link, foreign, dups, refused>>

-----------------------------------------------------------------------------
(* The peer (external). *)

Nxt(p) == Add(p.isn, p.sent)     \* the peer's next sequence number

(* The peer sends flags and data; both, and SYN and FIN, use up numbers. *)
Emit(p, flags, data) ==
  LET s == Segment(flags, Nxt(p), p.rcv, data)
      n == Len(data) + (IF flags \cap {"SYN", "FIN"} = {} THEN 0 ELSE 1)
  IN  [seg |-> s,
       p |-> [p EXCEPT !.sent = @ + n, !.fin = @ \/ "FIN" \in flags,
                       !.out = IF n = 0 THEN @ ELSE @ \cup {s}]]

(* A segment no TCP would take: out of sequence, or acking the unsent. *)
Unacceptable(s) ==
  IF s.flags = {"SYN"} THEN peer.st # "listen"
  ELSE \/ peer.st = "listen"
       \/ s.seq # peer.rcv
       \/ Add(s.ack, SeqSpace - peer.isn) > peer.sent

(* The states the peer may go to on segment s, with what it sends back. *)
Reactions(s) ==
  LET p    == [peer EXCEPT !.rcv = Add(s.seq, Len(s.data) +
                                     (IF s.flags \cap {"SYN", "FIN"} = {} THEN 0 ELSE 1))]
      rst  == [p |-> [p EXCEPT !.st = "closed"], segs |-> <<Segment({"RST"}, s.ack, p.rcv, <<>>)>>]
      quiet(q) == [p |-> q, segs |-> <<>>]
      acked(q) == LET e == Emit(q, {"ACK"}, <<>>) IN {quiet(q), [p |-> e.p, segs |-> <<e.seg>>]}
  IN  CASE s.flags = {"SYN"} ->
             LET e == Emit(p, {"SYN", "ACK"}, <<>>)
             IN  {rst, [p |-> [e.p EXCEPT !.st = "synrcvd"], segs |-> <<e.seg>>]}
        [] s.data # <<>> ->
             IF p.fin THEN {rst} ELSE acked([p EXCEPT !.left = s.data])
        [] "FIN" \in s.flags -> acked([p EXCEPT !.st = "closewait"])
        [] OTHER -> {quiet([p EXCEPT !.st = IF @ = "synrcvd" THEN "est" ELSE @])}

(* The NIC transmits, DD is set and the peer reacts. *)
Transmit ==
  \E s \in tx :
    /\ tx' = {}
    /\ txDone' = TRUE
    /\ IF peer.st = "closed" THEN UNCHANGED <<peer, link, refused>>
       ELSE IF Unacceptable(s) THEN refused' = refused \cup {s} /\ UNCHANGED <<peer, link>>
       ELSE \E r \in Reactions(s) :
              peer' = r.p /\ link' = link \o r.segs /\ UNCHANGED refused
    /\ UNCHANGED <<caller, halted, pc, iss, peerIsn, slot, echoed, seqAfter, finSeq, result,
                   rx, foreign, dups>>

(* The peer on its own initiative: echo, close, or both at once. *)
PeerSends ==
  /\ peer.st \in {"est", "closewait"} /\ ~peer.fin
  /\ \E n \in 0 .. Len(peer.left), fin \in BOOLEAN :
       /\ n > 0 \/ fin
       /\ fin => n = Len(peer.left)
       /\ LET e == Emit(peer, IF fin THEN {"FIN", "ACK"} ELSE {"PSH", "ACK"},
                        SubSeq(peer.left, 1, n))
          IN  /\ peer' = [e.p EXCEPT !.left = SubSeq(@, n + 1, Len(@))]
              /\ link' = Append(link, e.seg)
  /\ UNCHANGED <<clientVars, rx, foreign, dups, refused>>

Retransmit ==
  /\ dups < MaxDup
  /\ dups' = dups + 1
  /\ peer.st # "closed"
  /\ \E s \in peer.out : link' = Append(link, [s EXCEPT !.ack = peer.rcv])
  /\ UNCHANGED <<clientVars, rx, peer, foreign, refused>>

(* The NIC stores a frame in the next armed descriptor, or drops it. *)
Store(f) == rx' = IF Len(rx) < NumRx THEN Append(rx, f) ELSE rx

Deliver ==
  /\ link # <<>>
  /\ Store(Head(link))
  /\ link' = Tail(link)
  /\ UNCHANGED <<clientVars, peer, foreign, dups, refused>>

Foreign ==
  /\ foreign < MaxForeign
  /\ foreign' = foreign + 1
  /\ Store(Stray)
  /\ UNCHANGED <<clientVars, peer, link, dups, refused>>

-----------------------------------------------------------------------------
Client == Post \/ Sent \/ PollSynAck \/ PollEcho \/ PollFin \/ Hlt

Next == \/ Post \/ Sent \/ SendTimeout
        \/ PollSynAck \/ PollEcho \/ PollFin \/ PollTimeout \/ Hlt
        \/ Transmit \/ PeerSends \/ Retransmit \/ Deliver \/ Foreign

Spec == Init /\ [][Next]_vars

(***************************************************************************)
(* The client executes, and for the boot, whose hlt a tick ends, the clock *)
(* runs out (the timeouts are not enabled for the shell unless the slots   *)
(* ran out).  Peer and NIC promise nothing.                                *)
(***************************************************************************)
FairSpec == Spec /\ WF_vars(Client) /\ WF_vars(SendTimeout) /\ WF_vars(PollTimeout)

-----------------------------------------------------------------------------
SeqNo    == 0 .. SeqSpace - 1
Flags    == SUBSET {"SYN", "ACK", "PSH", "FIN", "RST"}
Pieces   == {SubSeq(Payload, i, j) : i \in 1 .. Len(Payload) + 1, j \in 0 .. Len(Payload)}
Segments == [ours : BOOLEAN, flags : Flags, seq : SeqNo, ack : SeqNo, data : Pieces]

TypeOK ==
  /\ caller \in {"boot", "shell"} /\ halted \in BOOLEAN
  /\ pc \in Sending \cup Polling \cup {"idle"}
  /\ iss \in SeqNo /\ peerIsn \in SeqNo /\ seqAfter \in SeqNo /\ finSeq \in SeqNo
  /\ tx \subseteq Segments /\ txDone \in BOOLEAN
  /\ \A i \in DOMAIN rx : rx[i] \in Segments
  /\ Len(rx) <= NumRx
  /\ slot \in 0 .. NumRx
  /\ echoed \in Pieces
  /\ result \in {"none", "ok", "err", "reset"}
  /\ peer \in [st : {"listen", "synrcvd", "est", "closewait", "closed"}, isn : SeqNo,
               sent : 0 .. Len(Payload) + 2, rcv : SeqNo, left : Pieces, fin : BOOLEAN,
               out : SUBSET Segments]
  /\ \A i \in DOMAIN link : link[i] \in Segments
  /\ foreign \in 0 .. MaxForeign /\ dups \in 0 .. MaxDup
  /\ refused \subseteq Segments

-----------------------------------------------------------------------------
(* Properties *)

(***************************************************************************)
(* Every segment the client sends is in sequence for the peer and          *)
(* acknowledges nothing the peer has not sent, wrapping included: the FIN  *)
(* follows the data, acknowledges the echo, the last ACK follows the FIN.  *)
(***************************************************************************)
PeerAcceptsEverySegment == refused = {}

(***************************************************************************)
(* A call that succeeds returns a non-empty beginning of what was sent,    *)
(* in spite of bare ACKs, retransmissions and frames of others between.    *)
(***************************************************************************)
EchoIsPrefix == result = "ok" => echoed # <<>> /\ IsPrefix(echoed, Payload)

(***************************************************************************)
(* Every phase is bounded for a caller with interrupts on: the boot's call *)
(* returns whatever peer and NIC do.  The shell's, inside the keyboard     *)
(* handler, returns or halts for ever in the first wait that is not over   *)
(* when it begins (the divergence the run e1000_shell reports).            *)
(***************************************************************************)
EchoReturns == <>(pc = "idle" \/ (caller = "shell" /\ halted))

=============================================================================
