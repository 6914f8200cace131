------------------------------- MODULE MCBody -------------------------------
(* A body on its way: how it is framed (BodyTransfer), how it is coded       *)
(* (ContentCoding) and how hyper moves its bytes (HyperTransport).  The      *)
(* layers share no state; each behaviour looks at one.  Bodies have up to    *)
(* four bytes in pieces of up to three, so that a body is shorter than,      *)
(* equal to and longer than its length; limits are absent, or below the      *)
(* longest body.                                                             *)
EXTENDS BodyTransfer, ContentCoding, HyperTransport

VARIABLE layer

MCSizes == 0 .. 3
MCLengths == {1, 3}
MCLimits == {0, 1, 2}

MCInit ==
    /\ Init /\ CodingInit /\ HyperInit /\ layer \in {"framing", "coding", "transport"}
    /\ layer # "framing" => te.kind = "Eof" /\ ~http_10
    /\ layer # "coding" =>
        conf = [encoding |-> "Identity", own |-> "none", status |-> 200, body |-> "None",
                total |-> 0, decompress |-> TRUE, limit |-> 0]
    /\ layer # "transport" => remote.differs = 1
Framing(A) == layer = "framing" /\ A /\ UNCHANGED <<cvars, hyvars, layer>>
Coding(A) == layer = "coding" /\ A /\ UNCHANGED <<vars, hyvars, layer>>
Transport(A) == layer = "transport" /\ A /\ UNCHANGED <<vars, cvars, layer>>
MCNext == Framing(Next) \/ Coding(CodingNext) \/ Transport(HyperNext)

(* Framing: the fairness of BodyTransfer.  Coding: both ends are polled and  *)
(* the pool's threads end; nobody waits for the deadline, which may be off.  *)
(* Transport: the fairness of HyperSpec.                                     *)
MCSpec ==
    /\ MCInit /\ [][MCNext]_<<vars, cvars, hyvars, layer>>
    /\ WF_vars(Framing(\E k \in 1 .. Len(wire) : Receive(k))) /\ WF_vars(Framing(poll_next))
    /\ WF_cvars(Coding(Encode)) /\ WF_cvars(Coding(Decode)) /\ WF_cvars(Coding(Blocking))
    /\ WF_hyvars(Transport(Detect)) /\ WF_hyvars(Transport(PollReads))
    /\ WF_hyvars(Transport(PollWrites)) /\ WF_hyvars(Transport(PollFlush))
    /\ WF_hyvars(Transport(PollShutdowns)) /\ WF_hyvars(Transport(Transmit))
    /\ WF_hyvars(Transport(ShutDone))

(* A body that was written to its end is read to its end or to an error      *)
(* (BodyTransfer), a reader that collects a coded body gets it or fails      *)
(* (ContentCoding), and neither half of hyper's transport waits for ever     *)
(* (HyperTransport).                                                         *)
TransfersEnd == BodyEnds /\ Collected /\ HyperProceeds
=============================================================================
