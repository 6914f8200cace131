-------------------------- MODULE Sessions_proofs --------------------------
(***************************************************************************)
(* What a host keeps open: the stream of a WebSocket, for any number of    *)
(* sinks, payloads of any length and any size limit, with its opening      *)
(* handshake, for any keys; and the client of the C interface, for any     *)
(* number of requests, retries and slots, and any length of the command    *)
(* channel.                                                                *)
(*                                                                         *)
(* Numbered says that the payloads on their way continue what the server's *)
(* application has been given.  Fragments follows R_CONTINUATION of the    *)
(* server's codec through the frames on their way: behind the last of them *)
(* it is what the sinks take it for.                                       *)
(*                                                                         *)
(* Commands ties the channel to the requests: a request waits for exactly  *)
(* one Send command while it is queued, so that no task is started twice.  *)
(* Tries relates the attempts that have failed to those that reached a     *)
(* connection.  Pauses says where the sender of a paused request is.       *)
(***************************************************************************)
EXTENDS WebSocket, Handshake, FfiClient, FiniteSetTheorems, TLAPS

Ops == {"Text", "Binary", "Continue", "Ping", "Pong", "Close"}
Frames == [op : Ops, fin : BOOLEAN, mask : BOOLEAN, len : Lens, n : Nat]

WsTypes ==
    /\ wflags \in [Sinks -> SUBSET {"W_CONTINUATION", "CLOSED"}]
    /\ data \in Nat /\ misused \in BOOLEAN
    /\ up \in Seq(Frames) /\ dst \in Seq(Nat)
    /\ t \in [flags : SUBSET {"CONTINUATION", "PROTO_ERR", "CLOSED"}, rcont : BOOLEAN]
    /\ tio \in {"open", "closing", "closed"}

(* The number of the payload that was sent before frame i *)
Before(i) == IF i = 1 THEN Len(dst) ELSE up[i - 1].n
IsData(f) == f.op \in {"Text", "Binary", "Continue"}

Numbered ==
    /\ dst = [k \in 1 .. Len(dst) |-> k] /\ Len(dst) <= data
    /\ \A i \in 1 .. Len(up) : up[i].n <= data
    /\ tio = "open" =>
        /\ \A i \in 1 .. Len(up) : up[i].n = Before(i) + (IF IsData(up[i]) THEN 1 ELSE 0)
        /\ Before(Len(up) + 1) = data

(* A frame that the server supports *)
Supported(f) ==
    /\ f.mask /\ ~(f.len > max_size) /\ f.op \in Ops \ {"Text", "Pong"}
    /\ f.op = "Ping" => ~(f.len > 125)
    /\ f.op = "Close" => f.fin

Fragments ==
    ~misused =>
        /\ \A j, k \in Sinks : Started(j) /\ Started(k) => j = k
        /\ \A i \in 1 .. Len(up) : Supported(up[i])
        /\ tio = "open" => \E st \in [0 .. Len(up) -> BOOLEAN] :
            /\ st[0] = t.rcont /\ st[Len(up)] = (\E k \in Sinks : Started(k))
            /\ \A i \in 1 .. Len(up) : /\ ~DecodeFails(up[i], st[i - 1])
                                       /\ st[i] = Continuation(up[i], st[i - 1])

(* The transport and its codec agree on whether a message is unfinished. *)
SameMessage == tio = "open" => (t.rcont <=> "CONTINUATION" \in t.flags)

WsInv == WsTypes /\ Numbered /\ Fragments /\ SameMessage /\ NoFalseAlarm

-----------------------------------------------------------------------------
(* The frame that Codec::encodev makes of a message *)
EncodesTo(m, len, n, op, fin) ==
    /\ Message(m, len, n) = write_message(op, fin, TRUE, len, n)
    /\ m \in Data <=> op \in {"Text", "Binary", "Continue"}
    /\ m \in {"Text", "Binary", "Ping", "Close"} => op = m /\ fin = TRUE
    /\ m = "FirstText" => op = "Text"
    /\ m = "FirstBinary" => op = "Binary" /\ fin = FALSE
    /\ m = "Continue" => op = "Continue" /\ fin = FALSE
    /\ m = "Last" => op = "Continue" /\ fin = TRUE

(* Every message makes one. *)
LEMMA Encoded ==
  ASSUME NEW m \in Messages, NEW len \in Lens, NEW n \in Nat
  PROVE  \E op \in Ops, fin \in BOOLEAN : EncodesTo(m, len, n, op, fin)
<1>1. CASE m \in {"Text", "Binary", "Ping", "Close"}
  BY <1>1, Zenon DEF EncodesTo, Message, Ops, Data
<1>2. CASE m = "FirstText"
  BY <1>2, Zenon DEF EncodesTo, Message, Ops, Data
<1>3. CASE m = "FirstBinary"
  BY <1>3, Zenon DEF EncodesTo, Message, Ops, Data
<1>4. CASE m = "Continue"
  BY <1>4, Zenon DEF EncodesTo, Message, Ops, Data
<1>5. CASE m = "Last"
  BY <1>5, Zenon DEF EncodesTo, Message, Ops, Data
<1>6. QED
  BY <1>1, <1>2, <1>3, <1>4, <1>5, Zenon DEF Messages, Data

(* A frame that is supported is never an error to Parser::parse. *)
LEMMA ParserAccepts ==
  ASSUME NEW f, Supported(f), f.mask \in BOOLEAN, NEW bytes
  PROVE  parse(f, bytes, TRUE) # "error"
<1>1. parse_metadata(f, bytes, TRUE) # "error"
  BY DEF parse_metadata, Supported
<1>2. ~(f.op \in {"Ping", "Pong"} /\ f.len > 125)
  BY DEF Supported, Ops
<1>3. QED
  BY <1>1, <1>2, Zenon DEF parse

-----------------------------------------------------------------------------
(* The stream stops being read.  What it has not read no longer counts. *)
LEMMA StopKeeps ==
  ASSUME WsInv, tio' \in {"closing", "closed"}, UNCHANGED <<wflags, data, misused, dst>>,
         up' = up \/ (up # <<>> /\ up' = Tail(up)),
         t' \in [flags : SUBSET {"CONTINUATION", "PROTO_ERR", "CLOSED"}, rcont : BOOLEAN],
         "PROTO_ERR" \in t'.flags => misused \/ "PROTO_ERR" \in t.flags
  PROVE  WsInv'
<1>1. WsTypes /\ Numbered /\ Fragments /\ NoFalseAlarm
  BY DEF WsInv
<1>2. /\ up' \in Seq(Frames)
      /\ \A i \in 1 .. Len(up') : \E j \in 1 .. Len(up) : up'[i] = up[j]
  <2>1. CASE up' = up
    BY <1>1, <2>1 DEF WsTypes
  <2>2. CASE up # <<>> /\ up' = Tail(up)
    <3>1. /\ up' \in Seq(Frames)
          /\ \A i \in 1 .. Len(up') : i + 1 \in 1 .. Len(up) /\ up'[i] = up[i + 1]
      BY <1>1, <2>2 DEF WsTypes
    <3>2. QED
      BY <3>1
  <2>3. QED
    BY <2>1, <2>2
<1>3. WsTypes'
  BY <1>1, <1>2 DEF WsTypes
<1>4. Numbered'
  BY <1>1, <1>2 DEF Numbered
<1>5. Fragments'
  <2>1. ~misused => \A i \in 1 .. Len(up') : Supported(up'[i])
    BY <1>1, <1>2 DEF Fragments
  <2>2. QED
    BY <1>1, <2>1, Zenon DEF Fragments, Started
<1>6. NoFalseAlarm' /\ SameMessage'
  BY <1>1 DEF NoFalseAlarm, SameMessage
<1>7. QED
  BY <1>3, <1>4, <1>5, <1>6 DEF WsInv

(* The first frame on its way, unless a sink has misused the connection *)
LEMMA FirstFrame ==
  ASSUME WsInv, ~misused, tio = "open", up # <<>>
  PROVE  /\ up[1] \in Frames /\ Supported(up[1]) /\ ~DecodeFails(up[1], t.rcont)
         /\ parse(up[1], have, TRUE) # "error"
<1>1. WsTypes /\ Fragments
  BY DEF WsInv
<1>2. 1 \in 1 .. Len(up) /\ up[1] \in Frames
  BY <1>1 DEF WsTypes
<1>3. Supported(up[1]) /\ ~DecodeFails(up[1], t.rcont)
  <2>1. PICK st \in [0 .. Len(up) -> BOOLEAN] :
            st[0] = t.rcont /\ \A i \in 1 .. Len(up) : ~DecodeFails(up[i], st[i - 1])
    BY <1>1, Zenon DEF Fragments
  <2>2. ~DecodeFails(up[1], st[1 - 1]) /\ 1 - 1 = 0
    BY <1>2, <2>1
  <2>3. QED
    BY <1>1, <1>2, <2>1, <2>2 DEF Fragments
<1>4. QED
  BY <1>2, <1>3, ParserAccepts, Zenon DEF Frames

(* A protocol error *)
LEMMA ReadErrorKeeps == ASSUME WsInv, ReadError PROVE WsInv'
<1>1. misused
  <2>1. misused \in BOOLEAN
    BY DEF WsInv, WsTypes
  <2>2. ~misused => FALSE
    BY FirstFrame, Zenon DEF ReadError
  <2>3. QED
    BY <2>1, <2>2
<1>2. tio' = "closing" /\ t' = [t EXCEPT !.flags = t.flags \union {"PROTO_ERR"}]
      /\ UNCHANGED <<wflags, data, misused, dst, up>>
  BY DEF ReadError, Fails
<1>3. t' \in [flags : SUBSET {"CONTINUATION", "PROTO_ERR", "CLOSED"}, rcont : BOOLEAN]
  BY <1>2 DEF WsInv, WsTypes
<1>4. QED
  BY <1>1, <1>2, <1>3, StopKeeps

(* The application closes, and the transport shuts down. *)
LEMMA CloseKeeps == ASSUME WsInv, ServerClose \/ shutdown PROVE WsInv'
<1>1. t \in [flags : SUBSET {"CONTINUATION", "PROTO_ERR", "CLOSED"}, rcont : BOOLEAN]
  BY DEF WsInv, WsTypes
<1>2. CASE ServerClose
  BY <1>1, <1>2, StopKeeps DEF ServerClose
<1>3. CASE shutdown
  <2>1. /\ t' \in [flags : SUBSET {"CONTINUATION", "PROTO_ERR", "CLOSED"}, rcont : BOOLEAN]
        /\ "PROTO_ERR" \in t'.flags => "PROTO_ERR" \in t.flags
    <3>1. t' = t \/ t' = [t EXCEPT !.flags = t.flags \union {"CLOSED"}]
      BY <1>3, Zenon DEF shutdown
    <3>2. QED
      BY <1>1, <3>1
  <2>2. QED
    BY <1>3, <2>1, StopKeeps DEF shutdown
<1>4. QED
  BY <1>2, <1>3

(* What neither sends nor reads a frame *)
LEMMA IdleKeeps ==
  ASSUME WsInv, UNCHANGED <<wflags, data, misused, up, t, dst, tio>>
  PROVE  WsInv'
<1>1. WsTypes /\ Numbered /\ Fragments /\ SameMessage /\ NoFalseAlarm
  BY Zenon DEF WsInv
<1>2. WsTypes' /\ SameMessage' /\ NoFalseAlarm'
  BY <1>1, Zenon DEF WsTypes, SameMessage, NoFalseAlarm
<1>3. Numbered'
  BY <1>1, Zenon DEF Numbered, Before
<1>4. Fragments'
  BY <1>1, Zenon DEF Fragments, Started
<1>5. QED
  BY <1>2, <1>3, <1>4, Zenon DEF WsInv

-----------------------------------------------------------------------------
(* The server goes on after a frame: the application has its payload, and    *)
(* R_CONTINUATION says whether the message is unfinished.                    *)
LEMMA ReadOnKeeps ==
  ASSUME WsInv, tio = "open", tio' = "open", up # <<>>, up' = Tail(up),
         dst' = (IF IsData(up[1]) THEN Append(dst, up[1].n) ELSE dst),
         t' \in [flags : SUBSET {"CONTINUATION", "PROTO_ERR", "CLOSED"}, rcont : BOOLEAN],
         t'.rcont = Continuation(up[1], t.rcont), t'.rcont <=> "CONTINUATION" \in t'.flags,
         "PROTO_ERR" \in t'.flags => "PROTO_ERR" \in t.flags, UNCHANGED <<wflags, data, misused>>
  PROVE  WsInv'
<1>1. WsTypes /\ Numbered /\ Fragments /\ NoFalseAlarm
  BY DEF WsInv
<1>2. /\ Len(up) \in Nat /\ 1 \in 1 .. Len(up) /\ up[1] \in Frames /\ up[1].n \in Nat
      /\ up' \in Seq(Frames) /\ Len(up') = Len(up) - 1 /\ Len(up') \in Nat
      /\ \A i \in 1 .. Len(up') : i + 1 \in 1 .. Len(up) /\ up'[i] = up[i + 1]
  <2>1. up \in Seq(Frames)
    BY <1>1 DEF WsTypes
  <2>2. up[1] \in Frames /\ 1 \in 1 .. Len(up)
    BY <2>1
  <2>3. up[1].n \in Nat
    BY <2>2 DEF Frames
  <2>4. QED
    BY <2>1, <2>2, <2>3
<1>3. dst \in Seq(Nat) /\ dst' \in Seq(Nat) /\ data \in Nat
  BY <1>1, <1>2 DEF WsTypes
<1>4. up[1].n = Len(dst) + (IF IsData(up[1]) THEN 1 ELSE 0)
  BY <1>1, <1>2 DEF Numbered, Before
<1>5. Len(dst') = up[1].n /\ dst' = [k \in 1 .. Len(dst') |-> k]
  <2>1. CASE IsData(up[1])
    <3>1. dst = [k \in 1 .. Len(dst) |-> k] /\ dst' = Append(dst, Len(dst) + 1) /\ up[1].n = Len(dst) + 1
      BY <1>1, <1>3, <1>4, <2>1 DEF Numbered
    <3>2. QED
      BY <1>3, <3>1
  <2>2. CASE ~IsData(up[1])
    BY <1>1, <1>3, <1>4, <2>2 DEF Numbered
  <2>3. QED
    BY <2>1, <2>2
<1>6. WsTypes'
  BY <1>1, <1>2, <1>3 DEF WsTypes
<1>7. Numbered'
  <2>1. \A i \in 1 .. Len(up') + 1 : Before(i)' = Before(i + 1)
    <3>1. ASSUME NEW i \in 1 .. Len(up') + 1, i # 1
          PROVE  up'[i - 1] = up[i] /\ i + 1 # 1 /\ (i + 1) - 1 = i
      BY <1>2, <3>1
    <3>2. QED
      BY <1>2, <1>5, <3>1 DEF Before
  <2>2. \A i \in 1 .. Len(up') : up'[i].n <= data
    BY <1>1, <1>2 DEF Numbered
  <2>3. \A i \in 1 .. Len(up') : up'[i].n = Before(i)' + (IF IsData(up'[i]) THEN 1 ELSE 0)
    <3>1. ASSUME NEW i \in 1 .. Len(up')
          PROVE  up'[i].n = Before(i)' + (IF IsData(up'[i]) THEN 1 ELSE 0)
      <4>1. i + 1 \in 1 .. Len(up) /\ up'[i] = up[i + 1] /\ i \in 1 .. Len(up') + 1
        BY <1>2
      <4>2. up[i + 1].n = Before(i + 1) + (IF IsData(up[i + 1]) THEN 1 ELSE 0)
        BY <1>1, <4>1 DEF Numbered
      <4>3. QED
        BY <2>1, <4>1, <4>2
    <3>2. QED
      BY <3>1
  <2>4. (Before(Len(up) + 1) = data)'
    <3>1. PICK n \in Nat : n = Len(up')
      BY <1>2, Zenon
    <3>2. Before(Len(up) + 1) = data /\ n + 1 \in 1 .. Len(up') + 1 /\ (n + 1) + 1 = Len(up) + 1
      BY <1>1, <1>2, <3>1 DEF Numbered
    <3>3. Before(n + 1)' = data
      BY <2>1, <3>2
    <3>4. QED
      BY <3>1, <3>3 DEF Before
  <2>5. Len(dst') <= data
    BY <1>1, <1>2, <1>5 DEF Numbered
  <2>6. QED
    BY <1>5, <2>2, <2>3, <2>4, <2>5, Zenon DEF Numbered, IsData
<1>8. Fragments'
  <2> SUFFICES ASSUME ~misused
               PROVE  /\ \A j, k \in Sinks : Started(j)' /\ Started(k)' => j = k
                      /\ \A i \in 1 .. Len(up') : Supported(up'[i])
                      /\ \E st \in [0 .. Len(up') -> BOOLEAN] :
                            /\ st[0] = t'.rcont /\ st[Len(up')] = (\E k \in Sinks : Started(k)')
                            /\ \A i \in 1 .. Len(up') : /\ ~DecodeFails(up'[i], st[i - 1])
                                                        /\ st[i] = Continuation(up'[i], st[i - 1])
    BY Zenon DEF Fragments
  <2>1. \A j, k \in Sinks : Started(j)' /\ Started(k)' => j = k
    BY <1>1 DEF Fragments, Started
  <2>2. \A i \in 1 .. Len(up') : Supported(up'[i])
    BY <1>1, <1>2 DEF Fragments
  <2>3. PICK st \in [0 .. Len(up) -> BOOLEAN] :
            /\ st[0] = t.rcont /\ st[Len(up)] = (\E k \in Sinks : Started(k))
            /\ \A i \in 1 .. Len(up) : /\ ~DecodeFails(up[i], st[i - 1])
                                       /\ st[i] = Continuation(up[i], st[i - 1])
    BY <1>1, Zenon DEF Fragments
  <2> DEFINE nst == [i \in 0 .. Len(up') |-> st[i + 1]]
  <2>4. nst \in [0 .. Len(up') -> BOOLEAN]
    BY <1>2
  <2>5. nst[0] = t'.rcont
    <3>1. st[1] = Continuation(up[1], st[1 - 1]) /\ 1 - 1 = 0
      BY <1>2, <2>3
    <3>2. nst[0] = st[1]
      BY <1>2
    <3>3. QED
      BY <2>3, <3>1, <3>2
  <2>6. nst[Len(up')] = (\E k \in Sinks : Started(k)')
    <3>1. nst[Len(up')] = st[Len(up)]
      BY <1>2
    <3>2. (\E k \in Sinks : Started(k)') = (\E k \in Sinks : Started(k))
      BY DEF Started
    <3>3. QED
      BY <2>3, <3>1, <3>2, Zenon
  <2>7. ASSUME NEW i \in 1 .. Len(up')
        PROVE  ~DecodeFails(up'[i], nst[i - 1]) /\ nst[i] = Continuation(up'[i], nst[i - 1])
    <3>1. /\ i + 1 \in 1 .. Len(up) /\ up'[i] = up[i + 1]
          /\ nst[i - 1] = st[(i + 1) - 1] /\ nst[i] = st[i + 1]
      BY <1>2
    <3>2. QED
      BY <2>3, <3>1
  <2> HIDE DEF nst
  <2>8. QED
    BY <2>1, <2>2, <2>4, <2>5, <2>6, <2>7, Zenon
<1>9. NoFalseAlarm' /\ SameMessage'
  BY <1>1 DEF NoFalseAlarm, SameMessage
<1>10. QED
  BY <1>6, <1>7, <1>8, <1>9 DEF WsInv

(* WsTransport::process_read_buf takes a frame. *)
LEMMA ReadFrameKeeps == ASSUME WsInv, ReadFrame PROVE WsInv'
<1> DEFINE f == up[1]
<1>1. /\ tio = "open" /\ up # <<>> /\ up' = Tail(up) /\ UNCHANGED <<wflags, data, misused>>
      /\ ~DecodeFails(f, t.rcont)
  BY DEF ReadFrame, Taken
<1>2. /\ f \in Frames /\ misused \in BOOLEAN
      /\ t \in [flags : SUBSET {"CONTINUATION", "PROTO_ERR", "CLOSED"}, rcont : BOOLEAN]
      /\ t.rcont <=> "CONTINUATION" \in t.flags
  BY <1>1 DEF WsInv, WsTypes, SameMessage
<1>3. f.op \in Ops /\ f.fin \in BOOLEAN
  BY <1>2 DEF Frames
<1>4. \/ f.op = "Text" /\ Fails /\ dst' = dst
      \/ f.op = "Binary" /\ Pass(f, t.flags \union (IF f.fin THEN {} ELSE {"CONTINUATION"}))
      \/ /\ f.op = "Continue" /\ "CONTINUATION" \in t.flags
         /\ Pass(f, t.flags \ (IF f.fin THEN {"CONTINUATION"} ELSE {}))
      \/ f.op = "Ping" /\ t' = t /\ dst' = dst /\ tio' = tio
      \/ f.op = "Close" /\ tio' = "closing" /\ t' = t /\ dst' = dst
  BY Zenon DEF ReadFrame
<1> HIDE DEF f
<1>5. CASE f.op = "Text" /\ Fails /\ dst' = dst
  <2>1. misused
    BY <1>1, <1>2, <1>5, FirstFrame DEF Supported, f
  <2>2. tio' = "closing" /\ t' = [t EXCEPT !.flags = t.flags \union {"PROTO_ERR"}]
    BY <1>5 DEF Fails
  <2>3. t' \in [flags : SUBSET {"CONTINUATION", "PROTO_ERR", "CLOSED"}, rcont : BOOLEAN]
    BY <1>2, <2>2
  <2>4. QED
    BY <1>1, <1>5, <2>1, <2>2, <2>3, StopKeeps
<1>6. CASE f.op = "Binary" /\ Pass(f, t.flags \union (IF f.fin THEN {} ELSE {"CONTINUATION"}))
  <2>1. /\ t' = [flags |-> t.flags \union (IF f.fin THEN {} ELSE {"CONTINUATION"}),
                 rcont |-> Continuation(f, t.rcont)]
        /\ dst' = Append(dst, f.n) /\ tio' = tio
    BY <1>6 DEF Pass
  <2>2. Continuation(f, t.rcont) = (t.rcont \/ ~f.fin)
    BY <1>2, <1>3, <1>6 DEF Continuation, Opens
  <2>3. /\ t' \in [flags : SUBSET {"CONTINUATION", "PROTO_ERR", "CLOSED"}, rcont : BOOLEAN]
        /\ t'.rcont = Continuation(f, t.rcont) /\ t'.rcont <=> "CONTINUATION" \in t'.flags
        /\ "PROTO_ERR" \in t'.flags => "PROTO_ERR" \in t.flags
    BY <1>2, <1>3, <2>1, <2>2, Zenon
  <2>4. IsData(f)
    BY <1>6 DEF IsData
  <2>5. QED
    BY <1>1, <2>1, <2>3, <2>4, ReadOnKeeps DEF f
<1>7. CASE f.op = "Continue" /\ Pass(f, t.flags \ (IF f.fin THEN {"CONTINUATION"} ELSE {}))
  <2>1. /\ t' = [flags |-> t.flags \ (IF f.fin THEN {"CONTINUATION"} ELSE {}),
                 rcont |-> Continuation(f, t.rcont)]
        /\ dst' = Append(dst, f.n) /\ tio' = tio
    BY <1>7 DEF Pass
  <2>2. Continuation(f, t.rcont) = (t.rcont /\ ~f.fin)
    BY <1>2, <1>3, <1>7 DEF Continuation, Opens
  <2>3. /\ t' \in [flags : SUBSET {"CONTINUATION", "PROTO_ERR", "CLOSED"}, rcont : BOOLEAN]
        /\ t'.rcont = Continuation(f, t.rcont) /\ t'.rcont <=> "CONTINUATION" \in t'.flags
        /\ "PROTO_ERR" \in t'.flags => "PROTO_ERR" \in t.flags
    BY <1>2, <1>3, <2>1, <2>2, Zenon
  <2>4. IsData(f)
    BY <1>7 DEF IsData
  <2>5. QED
    BY <1>1, <2>1, <2>3, <2>4, ReadOnKeeps DEF f
<1>8. CASE f.op = "Ping" /\ t' = t /\ dst' = dst /\ tio' = tio
  <2>1. ~IsData(f) /\ Continuation(f, t.rcont) = t.rcont
    BY <1>2, <1>8 DEF IsData, Continuation, Opens
  <2>2. QED
    BY <1>1, <1>2, <1>8, <2>1, ReadOnKeeps DEF f
<1>9. CASE f.op = "Close" /\ tio' = "closing" /\ t' = t /\ dst' = dst
  BY <1>1, <1>2, <1>9, StopKeeps
<1>10. QED
  BY <1>4, <1>5, <1>6, <1>7, <1>8, <1>9

-----------------------------------------------------------------------------
(* A sink keeps to one message at a time, and no other sink is in the middle *)
(* of one: the frame continues what is on its way.                           *)
LEMMA SinkFollows ==
  ASSUME wflags \in [Sinks -> SUBSET {"W_CONTINUATION", "CLOSED"}],
         \A i, j \in Sinks : Started(i) /\ Started(j) => i = j,
         NEW k \in Sinks, NEW m \in Messages, EncodeOK(k, m),
         m # "FirstText", m = "FirstBinary" => \A j \in Sinks \ {k} : ~Started(j),
         wflags' = [wflags EXCEPT ![k] = FlagsAfter(k, m)]
  PROVE  /\ \A i, j \in Sinks : Started(i)' /\ Started(j)' => i = j
         /\ m \in {"Text", "Binary", "Ping", "Close"} =>
                (\E j \in Sinks : Started(j)') = (\E j \in Sinks : Started(j))
         /\ m = "FirstBinary" => ~(\E j \in Sinks : Started(j)) /\ \E j \in Sinks : Started(j)'
         /\ m = "Continue" => (\E j \in Sinks : Started(j)) /\ \E j \in Sinks : Started(j)'
         /\ m = "Last" => (\E j \in Sinks : Started(j)) /\ ~(\E j \in Sinks : Started(j)')
<1>1. \A j \in Sinks : j # k => (Started(j)' <=> Started(j))
  BY DEF Started
<1>2. m \in Messages \ {"FirstText", "FirstBinary", "Last"} => (Started(k)' <=> Started(k))
  BY DEF Started, FlagsAfter, Messages, Data
<1>3. m = "FirstBinary" => ~Started(k) /\ Started(k)'
  BY DEF Started, FlagsAfter, EncodeOK
<1>4. m = "Last" => Started(k) /\ ~Started(k)'
  BY DEF Started, FlagsAfter, EncodeOK
<1>5. m = "Continue" => Started(k)
  BY DEF EncodeOK
<1>6. CASE m \in Messages \ {"FirstText", "FirstBinary", "Last"}
  <2>1. \A j \in Sinks : Started(j)' <=> Started(j)
    BY <1>1, <1>2, <1>6
  <2>2. QED
    BY <1>5, <1>6, <2>1
<1>7. CASE m = "FirstBinary"
  BY <1>1, <1>3, <1>7
<1>8. CASE m = "Last"
  BY <1>1, <1>4, <1>8
<1>9. QED
  BY <1>6, <1>7, <1>8

(* WsSink::send *)
LEMMA SendKeeps ==
  ASSUME WsInv, NEW k \in Sinks, NEW m \in Messages, NEW len \in Lens, send(k, m, len)
  PROVE  WsInv'
<1>1. WsTypes /\ Numbered /\ Fragments /\ SameMessage /\ NoFalseAlarm
  BY DEF WsInv
<1>2. PICK f : f = Message(m, len, data')
  BY Zenon
<1>3. /\ EncodeOK(k, m) /\ data' = (IF m \in Data THEN data + 1 ELSE data)
      /\ misused' = (misused \/ Misuse(k, m, len)) /\ up' = Append(up, f)
      /\ wflags' = [wflags EXCEPT ![k] = FlagsAfter(k, m)] /\ UNCHANGED <<t, dst, tio>>
  BY <1>2 DEF send
<1>4. data \in Nat /\ data' \in Nat
  BY <1>1, <1>3 DEF WsTypes
<1>0. PICK n \in Nat : n = data'
  BY <1>4
<1>p. PICK op \in Ops, fin \in BOOLEAN : EncodesTo(m, len, n, op, fin)
  BY Encoded, Zenon
<1>5. /\ Message(m, len, n) = write_message(op, fin, TRUE, len, n)
      /\ m \in Data <=> op \in {"Text", "Binary", "Continue"}
      /\ m \in {"Text", "Binary", "Ping", "Close"} => op = m /\ fin = TRUE
      /\ m = "FirstText" => op = "Text"
      /\ m = "FirstBinary" => op = "Binary" /\ fin = FALSE
      /\ m = "Continue" => op = "Continue" /\ fin = FALSE
      /\ m = "Last" => op = "Continue" /\ fin = TRUE
  BY <1>p, Zenon DEF EncodesTo
<1>6. f \in Frames /\ f.op = op /\ f.fin = fin /\ f.mask /\ f.len = len /\ f.n = data'
  <2>1. f = write_message(op, fin, TRUE, len, n)
    BY <1>0, <1>2, <1>5
  <2> DEFINE w == write_message(op, fin, TRUE, len, n)
  <2>2. w \in Frames /\ w.op = op /\ w.fin = fin /\ w.mask /\ w.len = len /\ w.n = n
    BY DEF write_message, Frames
  <2> HIDE DEF w
  <2>3. f = w
    BY <2>1 DEF w
  <2>4. QED
    BY <1>0, <2>2, <2>3
<1>7. /\ up \in Seq(Frames) /\ up' \in Seq(Frames) /\ Len(up) \in Nat /\ Len(up') = Len(up) + 1
      /\ \A i \in 1 .. Len(up) : up'[i] = up[i]
      /\ up'[Len(up) + 1] = f
  BY <1>1, <1>3, <1>6, SMTT(30) DEF WsTypes
<1>8. WsTypes'
  <2>1. FlagsAfter(k, m) \in SUBSET {"W_CONTINUATION", "CLOSED"}
    BY <1>1 DEF WsTypes, FlagsAfter
  <2>2. wflags' \in [Sinks -> SUBSET {"W_CONTINUATION", "CLOSED"}]
    BY <1>1, <1>3, <2>1 DEF WsTypes
  <2>3. misused' \in BOOLEAN
    BY <1>1, <1>3 DEF WsTypes
  <2>4. QED
    BY <1>1, <1>3, <1>4, <1>7, <2>2, <2>3 DEF WsTypes
<1>9. Numbered'
  <2>1. data' = data + (IF IsData(f) THEN 1 ELSE 0)
    <3>1. IsData(f) <=> m \in Data
      BY <1>5, <1>6, Zenon DEF IsData
    <3>2. QED
      BY <1>3, <1>4, <3>1
  <2>2. \A i \in 1 .. Len(up') : up'[i].n <= data'
    <3>1. \A i \in 1 .. Len(up) : up[i].n <= data /\ up[i].n \in Nat
      <4>1. \A i \in 1 .. Len(up) : up[i] \in Frames /\ up[i].n <= data
        BY <1>1, <1>7 DEF Numbered
      <4>2. QED
        BY <4>1 DEF Frames
    <3>2. \A i \in 1 .. Len(up) : up'[i].n <= data'
      BY <1>4, <1>7, <2>1, <3>1
    <3>3. f.n <= data' /\ up'[Len(up) + 1] = f /\ Len(up') = Len(up) + 1 /\ Len(up) \in Nat
      BY <1>4, <1>6, <1>7
    <3>4. \A i \in 1 .. Len(up') : i \in 1 .. Len(up) \/ i = Len(up) + 1
      BY <3>3
    <3>5. QED
      BY <3>2, <3>3, <3>4, Zenon
  <2>3. Len(dst') <= data' /\ dst' = [j \in 1 .. Len(dst') |-> j]
    <3>1. PICK l \in Nat : l = Len(dst)
      BY <1>1 DEF WsTypes
    <3>2. l <= data
      BY <1>1, <3>1, Zenon DEF Numbered
    <3>3. data <= data'
      BY <1>3, <1>4
    <3>4. l <= data'
      BY <1>4, <3>1, <3>2, <3>3
    <3>5. dst' = dst
      BY <1>3, Zenon
    <3>6. dst = [j \in 1 .. Len(dst) |-> j]
      BY <1>1, Zenon DEF Numbered
    <3>7. QED
      BY <3>1, <3>4, <3>5, <3>6, Zenon
  <2>4. \A i \in 1 .. Len(up) + 1 : Before(i)' = Before(i)
    BY <1>3, <1>7 DEF Before
  <2>5. ASSUME tio = "open"
        PROVE  \A i \in 1 .. Len(up') : up'[i].n = Before(i)' + (IF IsData(up'[i]) THEN 1 ELSE 0)
    <3>1. \A i \in 1 .. Len(up) : up[i].n = Before(i) + (IF IsData(up[i]) THEN 1 ELSE 0)
      BY <1>1, <2>5 DEF Numbered
    <3>2. Before(Len(up) + 1) = data
      BY <1>1, <2>5 DEF Numbered
    <3>3. PICK l \in Nat : l = Len(up) /\ Len(up') = l + 1
      BY <1>7, Zenon
    <3>4. l + 1 \in 1 .. l + 1 /\ \A i \in 1 .. l + 1 : i \in 1 .. l \/ i = l + 1
      BY <3>3
    <3>5. ASSUME NEW i \in 1 .. l
          PROVE  up'[i].n = Before(i)' + (IF IsData(up'[i]) THEN 1 ELSE 0)
      <4>1. i \in 1 .. l + 1
        BY <3>3
      <4>2. QED
        BY <1>7, <2>4, <3>1, <3>3, <4>1, Zenon
    <3>6. /\ up'[l + 1].n = data' /\ Before(l + 1)' = data
          /\ data' = data + (IF IsData(up'[l + 1]) THEN 1 ELSE 0)
      BY <1>6, <1>7, <2>1, <2>4, <3>2, <3>3, <3>4, Zenon
    <3>7. QED
      BY <3>3, <3>4, <3>5, <3>6, Zenon
  <2>6. (Before(Len(up) + 1) = data)'
    <3>1. PICK l \in Nat : l = Len(up) /\ Len(up') = l + 1
      BY <1>7, Zenon
    <3>2. l + 1 + 1 # 1 /\ l + 1 + 1 - 1 = l + 1
      BY <3>1
    <3>3. Len(up') + 1 # 1 /\ up'[Len(up') + 1 - 1].n = data'
      BY <1>6, <1>7, <3>1, <3>2, Zenon
    <3>4. QED
      BY <3>3 DEF Before
  <2>7. QED
    BY <1>3, <2>2, <2>3, <2>5, <2>6, Zenon DEF Numbered, IsData
<1>10. Fragments'
  <2> SUFFICES ASSUME ~misused'
               PROVE  /\ \A i, j \in Sinks : Started(i)' /\ Started(j)' => i = j
                      /\ \A i \in 1 .. Len(up') : Supported(up'[i])
                      /\ tio = "open" => \E st \in [0 .. Len(up') -> BOOLEAN] :
                            /\ st[0] = t'.rcont /\ st[Len(up')] = (\E j \in Sinks : Started(j)')
                            /\ \A i \in 1 .. Len(up') : /\ ~DecodeFails(up'[i], st[i - 1])
                                                        /\ st[i] = Continuation(up'[i], st[i - 1])
    BY <1>3, Zenon DEF Fragments
  <2>1. ~misused /\ ~Misuse(k, m, len)
    BY <1>3, Zenon
  <2>2. /\ m \notin {"Text", "FirstText"} /\ ~(len > max_size) /\ (m = "Ping" => ~(len > 125))
        /\ m = "FirstBinary" => \A j \in Sinks \ {k} : ~Started(j)
    BY <2>1 DEF Misuse
  <2>3. \A i, j \in Sinks : Started(i) /\ Started(j) => i = j
    BY <1>1, <2>1 DEF Fragments
  <2>4. /\ \A i, j \in Sinks : Started(i)' /\ Started(j)' => i = j
        /\ m \in {"Text", "Binary", "Ping", "Close"} =>
                (\E j \in Sinks : Started(j)') = (\E j \in Sinks : Started(j))
        /\ m = "FirstBinary" => ~(\E j \in Sinks : Started(j)) /\ \E j \in Sinks : Started(j)'
        /\ m = "Continue" => (\E j \in Sinks : Started(j)) /\ \E j \in Sinks : Started(j)'
        /\ m = "Last" => (\E j \in Sinks : Started(j)) /\ ~(\E j \in Sinks : Started(j)')
    <3>1. wflags \in [Sinks -> SUBSET {"W_CONTINUATION", "CLOSED"}] /\ m # "FirstText"
      BY <1>1, <2>2 DEF WsTypes
    <3>2. QED
      BY <1>3, <2>2, <2>3, <3>1, SinkFollows, Zenon
  <2>5. Supported(f)
    BY <1>5, <1>6, <2>2 DEF Supported, Messages, Data, Ops
  <2>6. \A i \in 1 .. Len(up') : Supported(up'[i])
    <3>1. \A i \in 1 .. Len(up) : Supported(up[i])
      BY <1>1, <2>1, Zenon DEF Fragments
    <3>2. 1 .. Len(up') = 1 .. Len(up) \union {Len(up) + 1}
      BY <1>7
    <3>3. QED
      BY <1>7, <2>5, <3>1, <3>2, Zenon
  <2> DEFINE was == \E j \in Sinks : Started(j)
             now == \E j \in Sinks : Started(j)'
  <2>7. ~DecodeFails(f, was) /\ now = Continuation(f, was)
    <3>1. was \in BOOLEAN /\ now \in BOOLEAN
      OBVIOUS
    <3>2. /\ m \in {"Binary", "Ping", "Close"} => now = was
          /\ m = "FirstBinary" => ~was /\ now
          /\ m = "Continue" => was /\ now
          /\ m = "Last" => was /\ ~now
      BY <2>4
    <3>3. m \in {"Binary", "Ping", "Close", "FirstBinary", "Continue", "Last"}
      BY <2>2 DEF Messages, Data
    <3> HIDE DEF was, now
    <3>4. QED
      BY <1>5, <1>6, <3>1, <3>2, <3>3 DEF DecodeFails, Continuation, Opens
  <2>8. ASSUME tio = "open"
        PROVE  \E st \in [0 .. Len(up') -> BOOLEAN] :
                    /\ st[0] = t'.rcont /\ st[Len(up')] = now
                    /\ \A i \in 1 .. Len(up') : /\ ~DecodeFails(up'[i], st[i - 1])
                                                /\ st[i] = Continuation(up'[i], st[i - 1])
    <3>1. PICK st \in [0 .. Len(up) -> BOOLEAN] :
            /\ st[0] = t.rcont /\ st[Len(up)] = was
            /\ \A i \in 1 .. Len(up) : /\ ~DecodeFails(up[i], st[i - 1])
                                       /\ st[i] = Continuation(up[i], st[i - 1])
      BY <1>1, <2>1, <2>8, Zenon DEF Fragments
    <3>2. now \in BOOLEAN
      OBVIOUS
    <3> HIDE DEF was, now
    <3> DEFINE nst == [i \in 0 .. Len(up') |-> IF i <= Len(up) THEN st[i] ELSE now]
    <3>3. nst \in [0 .. Len(up') -> BOOLEAN]
      BY <1>7, <3>2
    <3>4. nst[0] = t'.rcont /\ nst[Len(up')] = now
      BY <1>3, <1>7, <3>1, SMTT(30)
    <3>5. ASSUME NEW i \in 1 .. Len(up')
          PROVE  ~DecodeFails(up'[i], nst[i - 1]) /\ nst[i] = Continuation(up'[i], nst[i - 1])
      <4>1. CASE i \in 1 .. Len(up)
        <5>1. up'[i] = up[i] /\ nst[i - 1] = st[i - 1] /\ nst[i] = st[i]
          <6>1. /\ i \in 0 .. Len(up') /\ i - 1 \in 0 .. Len(up') /\ i <= Len(up) /\ i - 1 <= Len(up)
            <7>1. PICK l \in Nat : l = Len(up) /\ Len(up') = l + 1
              BY <1>7, Zenon
            <7>2. i \in 0 .. l + 1 /\ i - 1 \in 0 .. l + 1 /\ i <= l /\ i - 1 <= l
              BY <4>1, <7>1
            <7> QED
              BY <7>1, <7>2, Zenon
          <6>2. up'[i] = up[i]
            BY <1>7, <4>1, Zenon
          <6> QED
            BY <6>1, <6>2, Zenon
        <5> HIDE DEF nst
        <5>2. QED
          BY <3>1, <4>1, <5>1, Zenon
      <4>2. CASE i = Len(up) + 1
        <5>1. up'[i] = f /\ nst[i - 1] = st[Len(up)] /\ nst[i] = now
          BY <1>7, <4>2
        <5>2. QED
          BY <2>7, <3>1, <5>1
      <4>3. PICK l \in Nat : l = Len(up) /\ Len(up') = l + 1
        BY <1>7, Zenon
      <4>4. i \in 1 .. l + 1
        BY <4>3, Zenon
      <4>5. i \in 1 .. l \/ i = l + 1
        BY <4>3, <4>4
      <4>6. QED
        BY <4>1, <4>2, <4>3, <4>5, Zenon
    <3> HIDE DEF nst
    <3>6. QED
      BY <3>3, <3>4, <3>5
  <2>9. QED
    BY <2>4, <2>6, <2>8, Zenon
<1>11. NoFalseAlarm' /\ SameMessage'
  BY <1>1, <1>3, Zenon DEF NoFalseAlarm, SameMessage
<1>12. QED
  BY <1>8, <1>9, <1>10, <1>11 DEF WsInv

-----------------------------------------------------------------------------
(* The connection after the handshake *)
LEMMA WsInvInit == Init => WsInv
<1> SUFFICES ASSUME Init
             PROVE  WsInv
  OBVIOUS
<1>1. WsTypes
  <2>1. wflags \in [Sinks -> SUBSET {"W_CONTINUATION", "CLOSED"}]
    BY DEF Init
  <2>2. up \in Seq(Frames) /\ dst \in Seq(Nat)
    BY DEF Init
  <2>3. t \in [flags : SUBSET {"CONTINUATION", "PROTO_ERR", "CLOSED"}, rcont : BOOLEAN]
    BY DEF Init
  <2>4. QED
    BY <2>1, <2>2, <2>3, Zenon DEF Init, WsTypes
<1>2. Numbered
  BY DEF Init, Numbered, Before
<1>3. Fragments
  <2>1. ~\E k \in Sinks : Started(k)
    BY DEF Init, Started
  <2>2. Len(up) = 0 /\ t.rcont = FALSE
    BY DEF Init
  <2> DEFINE st == [i \in 0 .. Len(up) |-> FALSE]
  <2>3. st \in [0 .. Len(up) -> BOOLEAN] /\ st[0] = FALSE /\ st[Len(up)] = FALSE
    BY <2>2
  <2>4. st[Len(up)] = (\E k \in Sinks : Started(k)) /\ st[0] = t.rcont
    BY <2>1, <2>2, <2>3, Zenon
  <2>5. \A i \in 1 .. Len(up) : FALSE
    BY <2>2
  <2> HIDE DEF st
  <2>6. QED
    BY <2>1, <2>3, <2>4, <2>5, Zenon DEF Fragments
<1>4. SameMessage /\ NoFalseAlarm
  BY DEF Init, SameMessage, NoFalseAlarm
<1>5. QED
  BY <1>1, <1>2, <1>3, <1>4 DEF WsInv

LEMMA WsInvStep == WsInv /\ [Next]_vars => WsInv'
<1> SUFFICES ASSUME WsInv, [Next]_vars
             PROVE  WsInv'
  OBVIOUS
<1>1. ASSUME NEW k \in Sinks, NEW m \in Messages, NEW len \in Lens, send(k, m, len)
      PROVE  WsInv'
  BY <1>1, SendKeeps
<1>2. ASSUME NEW n, Arrive(n)
      PROVE  WsInv'
  BY <1>2, IdleKeeps DEF Arrive
<1>3. CASE Client
  BY <1>3, IdleKeeps, Zenon DEF Client, ClientFrame, ClientGone
<1>4. CASE Reads
  BY <1>4, ReadErrorKeeps, ReadFrameKeeps DEF Reads
<1>5. CASE ServerClose \/ shutdown
  BY <1>5, CloseKeeps
<1>6. CASE UNCHANGED vars
  BY <1>6, IdleKeeps DEF vars
<1>7. QED
  BY <1>1, <1>2, <1>3, <1>4, <1>5, <1>6, Zenon DEF Next

(* The inductive invariant of the stream *)
LEMMA WsInvariant == Spec => []WsInv
BY WsInvInit, WsInvStep, PTL DEF Spec

(* The server's application reads the payloads the sinks sent, each once and *)
(* in order, for payloads of any length cut anywhere.                        *)
THEOREM StreamIsIntact == Spec => []StreamIntact
<1>1. WsInv => StreamIntact
  BY DEF WsInv, Numbered, StreamIntact
<1>2. QED
  BY <1>1, WsInvariant, PTL

(* WsTransport reports a protocol error only after a sink has sent what it   *)
(* does not support.                                                         *)
THEOREM NoAlarmIsFalse == Spec => []NoFalseAlarm
<1>1. WsInv => NoFalseAlarm
  BY DEF WsInv
<1>2. QED
  BY <1>1, WsInvariant, PTL

(* While frames are read, CONTINUATION of WsTransport and R_CONTINUATION of  *)
(* its codec are equal: what the codec accepts as the continuation of a      *)
(* message has started for the transport too, so continuation_must_start     *)
(* never fails and ReadFrame needs no such alternative.                      *)
THEOREM MessageIsTheSame == Spec => []SameMessage
<1>1. WsInv => SameMessage
  BY DEF WsInv
<1>2. QED
  BY <1>1, WsInvariant, PTL

-----------------------------------------------------------------------------
(* The opening handshake. *)
WsHeaders == [upgrade : {"websocket", "other"}, version : {"13", "12"},
              host : {Unset, "given", "from uri"}, key : Keys \union {NoKey}]
WsHandshakes == [is : {TRUE}, method : {"GET"}, connection : {"upgrade"}, headers : WsHeaders]
Whys == {"none", "connect", "Timeout", "Disconnected", "InvalidResponseStatus", "InvalidUpgradeHeader",
         "MissingConnectionHeader", "InvalidConnectionHeader", "MissingWebSocketAcceptHeader",
         "InvalidChallengeResponse"}

WsCfgs == [headers : WsHeaders, timeout : BOOLEAN, server_mode : BOOLEAN, uri : {"ok", "refused"}]
WsClients == [at : {"configuring", "invalid uri", "idle", "connecting", "waiting", "connected", "failed"},
              key : Keys \union {NoKey}, masks : BOOLEAN, drawn : SUBSET Keys, why : Whys]
WsServers == [is : {"geario", "other"}, did : {"nothing", "switched", "refused"},
              for : Keys \union {NoKey}]

OpeningTypes ==
    /\ ws_cfg \in WsCfgs /\ ws_client \in WsClients /\ ws_server \in WsServers
    /\ ws_req \in WsHandshakes \union {NoHandshake} /\ ws_res \in Answer \union {NoAnswer}

(* The request on its way is that of this attempt. *)
ThisAttempt ==
    ws_req.is =>
        /\ ws_client.at \notin {"configuring", "invalid uri", "idle", "connected"}
        /\ ws_req.headers.key = ws_client.key /\ ws_client.key \in Keys
        /\ ws_req.headers.upgrade = ws_cfg.headers.upgrade
        /\ ws_req.headers.version = ws_cfg.headers.version
        /\ ~ws_res.is /\ ws_server.did = "nothing"

(* So is the answer, and a geario server remembers what it answered. *)
ThisAnswer ==
    /\ ws_res.is => ws_client.at \in {"waiting", "connected", "failed"}
    /\ ws_server.is = "geario" /\ ws_server.did = "nothing" => ~ws_res.is
    /\ ws_server.did = "switched" => /\ ws_res = [is |-> TRUE, status |-> 101, upgrade |-> "websocket",
                                                  connection |-> "upgrade", accept |-> ws_client.key]
                                     /\ ws_server.for = ws_client.key /\ ws_client.key \in Keys
    /\ ws_server.did = "refused" => /\ ws_res = error_response
                                    /\ ws_client.at # "configuring"
    /\ ws_server.did # "nothing" => ws_server.is = "geario" /\ ws_client.at # "connecting"
    /\ ws_client.at = "connected" => ws_res.is /\ check(ws_res, ws_client.key) = "ok"

OpeningInv == OpeningTypes /\ ThisAttempt /\ ThisAnswer /\ HandshakeAgrees

(* While the client is being configured nothing is on its way. *)
LEMMA Configuring ==
  ASSUME OpeningInv, ws_client.at = "configuring"
  PROVE  ~ws_req.is /\ ~ws_res.is /\ ws_server.did = "nothing"
<1>1. OpeningTypes /\ ThisAttempt /\ ThisAnswer
  BY DEF OpeningInv
<1>2. ~ws_req.is /\ ~ws_res.is
  BY <1>1 DEF ThisAttempt, ThisAnswer
<1>3. ws_server.did # "switched"
  <2>1. ASSUME ws_server.did = "switched"
        PROVE  ws_res.is = TRUE
    BY <1>1, <2>1, SMTT(30) DEF ThisAnswer
  <2>2. QED
    BY <1>2, <2>1, Zenon
<1>4. ws_server.did # "refused"
  BY <1>1 DEF ThisAnswer
<1>5. QED
  BY <1>1, <1>2, <1>3, <1>4, Zenon DEF OpeningTypes, WsCfgs, WsClients, WsServers

(* The configuration is being made. *)
LEMMA SetHeaderKeeps ==
  ASSUME OpeningInv, NEW k \in DOMAIN Option, NEW v \in Option[k], NEW if_unset \in BOOLEAN,
         SetHeader(k, v, if_unset)
  PROVE  OpeningInv'
<1>1. OpeningTypes /\ ThisAttempt /\ ThisAnswer /\ HandshakeAgrees
  BY DEF OpeningInv
<1>2. /\ ws_client.at = "configuring" /\ UNCHANGED <<ws_client, ws_req, ws_server, ws_res>>
      /\ ws_cfg' = ws_cfg \/ ws_cfg' = [ws_cfg EXCEPT !.headers[k] = v]
  BY DEF SetHeader
<1>3. k \in {"upgrade", "version", "host", "key"}
  BY DEF Option
<1>4. v \in (CASE k = "upgrade" -> {"websocket", "other"} [] k = "version" -> {"13", "12"}
               [] k = "host" -> {"given"} [] k = "key" -> Keys)
  BY <1>3 DEF Option
<1>5. ws_cfg.headers \in WsHeaders
  BY <1>1, Zenon DEF OpeningTypes, WsCfgs, WsClients, WsServers
<1>6. [ws_cfg.headers EXCEPT ![k] = v] \in WsHeaders
  BY <1>3, <1>4, <1>5, Zenon DEF WsHeaders
<1>7. ws_cfg' \in WsCfgs
  BY <1>1, <1>2, <1>6, Zenon DEF OpeningTypes, WsCfgs, WsClients, WsServers
<1>8. OpeningTypes'
  BY <1>1, <1>2, <1>7, Zenon DEF OpeningTypes, WsCfgs, WsClients, WsServers
<1>9. ~ws_req.is /\ ws_server.did = "nothing"
  BY <1>2, Configuring
<1>10. ThisAttempt' /\ ThisAnswer'
  BY <1>1, <1>2, <1>9, Zenon DEF ThisAttempt, ThisAnswer
<1>11. HandshakeAgrees'
  <2>1. WsTypeOK'
    BY <1>8, Zenon DEF OpeningTypes, WsCfgs, WsClients, WsServers, WsTypeOK, WsHeaders, Option
  <2>2. QED
    BY <1>1, <1>2, <1>9, <2>1 DEF HandshakeAgrees
<1>12. QED
  BY <1>8, <1>10, <1>11 DEF OpeningInv

(* The types WsTypeOK asks for *)
LEMMA OpeningTyped == (OpeningTypes => WsTypeOK) /\ (OpeningTypes' => WsTypeOK')
BY Zenon DEF OpeningTypes, WsCfgs, WsClients, WsServers, WsTypeOK, WsHeaders, Option

(* WsClient::new *)
LEMMA NewClientKeeps == ASSUME OpeningInv, NewClient PROVE OpeningInv'
<1>1. OpeningTypes /\ ThisAttempt /\ ThisAnswer /\ HandshakeAgrees
  BY DEF OpeningInv
<1>2. PICK a \in {"idle", "invalid uri"} :
         /\ ws_client.at = "configuring" /\ ws_client' = [ws_client EXCEPT !.at = a]
         /\ UNCHANGED <<ws_cfg, ws_req, ws_server, ws_res>>
  BY Zenon DEF NewClient
<1>3. OpeningTypes' /\ ws_client'.at = a /\ ws_client'.key = ws_client.key
  BY <1>1, <1>2, Zenon DEF OpeningTypes, WsCfgs, WsClients, WsServers
<1>4. ~ws_req.is /\ ~ws_res.is /\ ws_server.did = "nothing"
  BY <1>2, Configuring, Zenon
<1>6. ThisAttempt' /\ ThisAnswer'
  BY <1>2, <1>3, <1>4, Zenon DEF ThisAttempt, ThisAnswer
<1>7. HandshakeAgrees'
  BY <1>2, <1>3, <1>4, OpeningTyped, Zenon DEF HandshakeAgrees
<1>8. QED
  BY <1>3, <1>6, <1>7, Zenon DEF OpeningInv

(* connect: a new attempt, with a key and a connection of its own *)
LEMMA ConnectWsKeeps == ASSUME OpeningInv, ConnectWs PROVE OpeningInv'
<1>1. OpeningTypes
  BY DEF OpeningInv
<1>2. PICK k \in Keys :
        /\ ws_client' = [ws_client EXCEPT !.at = "connecting", !.key = k,
                                          !.drawn = ws_client.drawn \union {k}]
        /\ ws_req' = [is |-> TRUE, method |-> "GET", connection |-> "upgrade",
                      headers |-> [ws_cfg.headers EXCEPT
                          !.host = IF ws_cfg.headers.host = Unset THEN "from uri" ELSE ws_cfg.headers.host,
                          !.key = k]]
        /\ ws_res' = NoAnswer /\ ws_server' = [ws_server EXCEPT !.did = "nothing"]
        /\ ws_cfg' = ws_cfg
  BY Zenon DEF ConnectWs
<1> DEFINE h == [ws_cfg.headers EXCEPT
                   !.host = IF ws_cfg.headers.host = Unset THEN "from uri" ELSE ws_cfg.headers.host,
                   !.key = k]
<1>3. ws_cfg.headers \in WsHeaders
  BY <1>1, Zenon DEF OpeningTypes, WsCfgs, WsClients, WsServers
<1>4. /\ h \in WsHeaders /\ h.key = k /\ h.upgrade = ws_cfg.headers.upgrade
      /\ h.version = ws_cfg.headers.version
  BY <1>3, Zenon DEF WsHeaders
<1>5. ws_req' = [is |-> TRUE, method |-> "GET", connection |-> "upgrade", headers |-> h]
  BY <1>2
<1> HIDE DEF h
<1>6. ws_req' \in WsHandshakes /\ ws_req'.headers = h
  BY <1>4, <1>5 DEF WsHandshakes
<1>7. /\ ws_client' \in WsClients
      /\ ws_client'.at = "connecting" /\ ws_client'.key = k
  BY <1>1, <1>2, Zenon DEF OpeningTypes, WsCfgs, WsClients, WsServers
<1>8. /\ ws_server' \in WsServers
      /\ ws_server'.did = "nothing"
  BY <1>1, <1>2, Zenon DEF OpeningTypes, WsCfgs, WsClients, WsServers
<1>9. ws_res' = NoAnswer /\ ~ws_res'.is
  BY <1>2 DEF NoAnswer
<1>10. OpeningTypes'
  BY <1>1, <1>2, <1>6, <1>7, <1>8, <1>9, Zenon DEF OpeningTypes, WsCfgs, WsClients, WsServers
<1>11. ThisAttempt'
  BY <1>2, <1>4, <1>6, <1>7, <1>8, <1>9 DEF ThisAttempt
<1>12. ThisAnswer'
  BY <1>7, <1>8, <1>9 DEF ThisAnswer
<1>13. HandshakeAgrees'
  BY <1>7, <1>8, <1>10, OpeningTyped DEF HandshakeAgrees
<1>14. QED
  BY <1>10, <1>11, <1>12, <1>13 DEF OpeningInv

(* The client gives up, or waits for the answer; the request may get lost. *)
LEMMA OpenedKeeps ==
  ASSUME OpeningInv, ws_client.at \in {"connecting", "waiting"},
         NEW a \in {"waiting", "failed"}, NEW why \in {ws_client.why, "connect", "Timeout", "Disconnected"},
         a = "waiting" \/ why \in {"connect", "Timeout", "Disconnected"},
         ws_client' = [ws_client EXCEPT !.at = a, !.why = why],
         ws_req' = ws_req \/ ws_req' = NoHandshake, UNCHANGED <<ws_cfg, ws_server, ws_res>>
  PROVE  OpeningInv'
<1>1. OpeningTypes /\ ThisAttempt /\ ThisAnswer /\ HandshakeAgrees
  BY DEF OpeningInv
<1>2. OpeningTypes' /\ ws_client'.at = a /\ ws_client'.key = ws_client.key /\ ws_client'.why = why
  <2>1. why \in Whys
    BY <1>1, Zenon DEF OpeningTypes, WsCfgs, WsClients, WsServers, Whys
  <2>2. QED
    BY <1>1, <2>1, ZenonT(60) DEF OpeningTypes, WsCfgs, WsClients, WsServers
<1>3. ws_req'.is => ws_req' = ws_req
  BY DEF NoHandshake
<1>4. ThisAttempt'
  BY <1>1, <1>2, <1>3, Zenon DEF ThisAttempt
<1>5. ThisAnswer'
  BY <1>1, <1>2 DEF ThisAnswer
<1>6. HandshakeAgrees'
  BY <1>1, <1>2, OpeningTyped DEF HandshakeAgrees
<1>7. QED
  BY <1>2, <1>4, <1>5, <1>6 DEF OpeningInv

(* verify_handshake turns down only what was configured away. *)
LEMMA Verified ==
  ASSUME NEW r \in WsHandshakes, r.headers.key \in Keys
  PROVE  verify_handshake(r) # "ok" => r.headers.upgrade # "websocket" \/ r.headers.version # "13"
<1>1. r.method = "GET" /\ r.connection = "upgrade" /\ r.headers.key # NoKey
  BY HandshakeAssumption DEF WsHandshakes
<1>2. r.headers.upgrade = "websocket" /\ r.headers.version = "13" => verify_handshake(r) = "ok"
  BY <1>1 DEF verify_handshake, Unset
<1>3. QED
  BY <1>2

(* The answers of a geario server, as the client sees them *)
LEMMA Checked ==
  ASSUME NEW key \in Keys
  PROVE  /\ check([is |-> TRUE, status |-> 101, upgrade |-> "websocket", connection |-> "upgrade",
                   accept |-> key], key) = "ok"
         /\ check(error_response, key) # "ok"
BY HandshakeAssumption DEF check, error_response, Unset

(* handshake() of a geario server *)
LEMMA ServeKeeps == ASSUME OpeningInv, Serve PROVE OpeningInv'
<1>1. OpeningTypes /\ ThisAttempt /\ ThisAnswer /\ HandshakeAgrees
  BY DEF OpeningInv
<1>2. /\ ws_server.is = "geario" /\ ws_req.is /\ ws_client.at # "connecting"
      /\ ws_req' = NoHandshake /\ ws_cfg' = ws_cfg /\ ws_client' = ws_client
  BY DEF Serve
<1>3. /\ ws_client.at \in {"waiting", "failed"} /\ ws_req.headers.key = ws_client.key
      /\ ws_client.key \in Keys /\ ws_server.did = "nothing"
      /\ ws_req.headers.upgrade = ws_cfg.headers.upgrade
      /\ ws_req.headers.version = ws_cfg.headers.version
  BY <1>1, <1>2, Zenon DEF ThisAttempt, OpeningTypes, WsCfgs, WsClients, WsServers
<1>4. ws_req \in WsHandshakes /\ ~ws_req'.is
  <2>1. ~NoHandshake.is
    BY DEF NoHandshake
  <2>2. ws_req \in WsHandshakes \union {NoHandshake}
    BY <1>1, Zenon DEF OpeningTypes, WsCfgs, WsClients, WsServers
  <2>3. QED
    BY <1>2, <2>1, <2>2, Zenon
<1>5. ThisAttempt'
  BY <1>4, Zenon DEF ThisAttempt
<1> DEFINE ok == [is |-> TRUE, status |-> 101, upgrade |-> "websocket", connection |-> "upgrade",
                  accept |-> ws_client.key]
<1>6. ok \in Answer /\ error_response \in Answer
  BY <1>3 DEF Answer, error_response, Unset
<1>7. CASE /\ ws_res' = handshake_response(ws_req)
           /\ ws_server' = [ws_server EXCEPT !.did = "switched", !.for = ws_req.headers.key]
  <2>1. ws_res' = ok
    BY <1>3, <1>7 DEF handshake_response
  <2>2. /\ ws_server' \in WsServers
        /\ ws_server'.is = "geario" /\ ws_server'.did = "switched" /\ ws_server'.for = ws_client.key
    BY <1>1, <1>2, <1>3, <1>7, Zenon DEF OpeningTypes, WsCfgs, WsClients, WsServers
  <2>3. OpeningTypes'
    BY <1>1, <1>2, <1>6, <2>1, <2>2, Zenon DEF OpeningTypes, WsCfgs, WsClients, WsServers
  <2>4. ThisAnswer'
    BY <1>2, <1>3, <2>1, <2>2 DEF ThisAnswer
  <2>5. HandshakeAgrees'
    BY <1>1, <1>2, <1>3, <2>2, <2>3, OpeningTyped DEF HandshakeAgrees
  <2>6. QED
    BY <1>5, <2>3, <2>4, <2>5 DEF OpeningInv
<1>8. CASE /\ verify_handshake(ws_req) # "ok" /\ ws_res' = error_response
           /\ ws_server' = [ws_server EXCEPT !.did = "refused"]
  <2>1. /\ ws_server' \in WsServers
        /\ ws_server'.is = "geario" /\ ws_server'.did = "refused"
    BY <1>1, <1>2, <1>8, Zenon DEF OpeningTypes, WsCfgs, WsClients, WsServers
  <2>2. OpeningTypes'
    BY <1>1, <1>2, <1>6, <1>8, <2>1, Zenon DEF OpeningTypes, WsCfgs, WsClients, WsServers
  <2>3. ThisAnswer'
    BY <1>2, <1>3, <1>8, <2>1 DEF ThisAnswer
  <2>4. ws_cfg.headers.upgrade # "websocket" \/ ws_cfg.headers.version # "13"
    BY <1>3, <1>4, <1>8, Verified
  <2>5. HandshakeAgrees'
    BY <1>2, <1>3, <2>1, <2>2, <2>4, OpeningTyped DEF HandshakeAgrees
  <2>6. QED
    BY <1>5, <2>2, <2>3, <2>5 DEF OpeningInv
<1>9. QED
  BY <1>7, <1>8 DEF Serve

(* Another server answers what it likes. *)
LEMMA ServeOtherKeeps == ASSUME OpeningInv, ServeOther PROVE OpeningInv'
<1>1. OpeningTypes /\ ThisAttempt /\ ThisAnswer /\ HandshakeAgrees
  BY DEF OpeningInv
<1>2. /\ ws_server.is = "other" /\ ws_req.is /\ ws_client.at # "connecting" /\ ws_res' \in Answer
      /\ ws_req' = NoHandshake /\ UNCHANGED <<ws_cfg, ws_client, ws_server>>
  BY DEF ServeOther
<1>3. ws_client.at \in {"waiting", "failed"} /\ ws_server.did = "nothing"
  BY <1>1, <1>2, Zenon DEF ThisAttempt, OpeningTypes, WsCfgs, WsClients, WsServers
<1>4. ThisAttempt'
  BY <1>2, Zenon DEF ThisAttempt, NoHandshake
<1>5. OpeningTypes'
  BY <1>1, <1>2, Zenon DEF OpeningTypes, WsCfgs, WsClients, WsServers
<1>6. ThisAnswer'
  BY <1>2, <1>3 DEF ThisAnswer
<1>7. HandshakeAgrees'
  BY <1>2, <1>3, <1>5, OpeningTyped DEF HandshakeAgrees
<1>8. QED
  BY <1>4, <1>5, <1>6, <1>7 DEF OpeningInv

(* The client checks the answer. *)
LEMMA RecvAnswerKeeps == ASSUME OpeningInv, RecvAnswer PROVE OpeningInv'
<1>1. OpeningTypes /\ ThisAttempt /\ ThisAnswer /\ HandshakeAgrees
  BY DEF OpeningInv
<1>2. /\ ws_client.at = "waiting" /\ ws_res.is /\ UNCHANGED <<ws_cfg, ws_req, ws_server, ws_res>>
      /\ \/ /\ check(ws_res, ws_client.key) # "ok"
            /\ ws_client' = [ws_client EXCEPT !.at = "failed", !.why = check(ws_res, ws_client.key)]
         \/ /\ check(ws_res, ws_client.key) = "ok"
            /\ ws_client' = [ws_client EXCEPT !.at = "connected", !.masks = ~ws_cfg.server_mode]
  BY DEF RecvAnswer, Failing
<1>3. ~ws_req.is
  BY <1>1, <1>2 DEF ThisAttempt
<1>4. ThisAttempt'
  BY <1>2, <1>3, Zenon DEF ThisAttempt
<1>5. check(ws_res, ws_client.key) \in Whys \union {"ok"}
  BY DEF check, Whys
<1>6. ws_server.is = "geario" =>
        \/ ws_server.did = "refused" /\ check(ws_res, ws_client.key) # "ok"
        \/ /\ ws_server.did = "switched" /\ ws_server.for = ws_client.key
           /\ check(ws_res, ws_client.key) = "ok"
  <2>1. ws_server.is = "geario" => ws_server.did \in {"switched", "refused"}
    BY <1>1, <1>2, Zenon DEF ThisAnswer, OpeningTypes, WsCfgs, WsClients, WsServers
  <2>2. CASE ws_server.did = "switched"
    BY <1>1, <2>2, Checked DEF ThisAnswer
  <2>3. CASE ws_server.did = "refused"
    <3>1. check(error_response, ws_client.key) # "ok"
      BY DEF check, error_response
    <3>2. QED
      BY <1>1, <2>3, <3>1 DEF ThisAnswer
  <2>4. QED
    BY <2>1, <2>2, <2>3
<1>7. CASE /\ check(ws_res, ws_client.key) # "ok"
           /\ ws_client' = [ws_client EXCEPT !.at = "failed", !.why = check(ws_res, ws_client.key)]
  <2>1. OpeningTypes' /\ ws_client'.at = "failed" /\ ws_client'.key = ws_client.key
    BY <1>1, <1>2, <1>5, <1>7, Zenon DEF OpeningTypes, WsCfgs, WsClients, WsServers
  <2>2. ThisAnswer'
    BY <1>1, <1>2, <2>1 DEF ThisAnswer
  <2>3. HandshakeAgrees'
    BY <1>1, <1>2, <1>6, <1>7, <2>1, OpeningTyped DEF HandshakeAgrees
  <2>4. QED
    BY <1>4, <2>1, <2>2, <2>3 DEF OpeningInv
<1>8. CASE /\ check(ws_res, ws_client.key) = "ok"
           /\ ws_client' = [ws_client EXCEPT !.at = "connected", !.masks = ~ws_cfg.server_mode]
  <2>1. OpeningTypes' /\ ws_client'.at = "connected" /\ ws_client'.key = ws_client.key
    BY <1>1, <1>2, <1>8, Zenon DEF OpeningTypes, WsCfgs, WsClients, WsServers
  <2>2. ThisAnswer'
    BY <1>1, <1>2, <1>8, <2>1 DEF ThisAnswer
  <2>3. ws_res.status = 101 /\ ws_res.accept = ws_client.key
    BY <1>8 DEF check
  <2>4. HandshakeAgrees'
    BY <1>1, <1>2, <1>6, <1>8, <2>1, <2>3, OpeningTyped DEF HandshakeAgrees
  <2>5. QED
    BY <1>4, <2>1, <2>2, <2>4 DEF OpeningInv
<1>9. QED
  BY <1>2, <1>7, <1>8

LEMMA OpeningInit == WsInit => OpeningInv
<1> SUFFICES ASSUME WsInit
             PROVE  OpeningInv
  OBVIOUS
<1>1. /\ ws_client = [at |-> "configuring", key |-> NoKey, masks |-> TRUE, drawn |-> {}, why |-> "none"]
      /\ ws_req = NoHandshake /\ ws_res = NoAnswer
      /\ \E is \in {"geario", "other"} : ws_server = [is |-> is, did |-> "nothing", for |-> NoKey]
  BY Zenon DEF WsInit
<1>2. /\ ws_client \in WsClients
      /\ ws_server \in WsServers
      /\ ws_client.at = "configuring" /\ ws_server.did = "nothing" /\ ~ws_req.is /\ ~ws_res.is
  BY <1>1 DEF WsClients, WsServers, Whys, NoHandshake, NoAnswer
<1>3. ws_cfg \in WsCfgs
  <2>1. [upgrade |-> "websocket", version |-> "13", host |-> Unset, key |-> NoKey] \in WsHeaders
    BY DEF WsHeaders
  <2>2. QED
    BY <2>1 DEF WsInit, WsCfgs
<1>4. OpeningTypes
  BY <1>1, <1>2, <1>3 DEF OpeningTypes, WsCfgs, WsClients, WsServers
<1>5. ThisAttempt /\ ThisAnswer
  BY <1>2 DEF ThisAttempt, ThisAnswer
<1>6. HandshakeAgrees
  BY <1>2, <1>4, OpeningTyped DEF HandshakeAgrees
<1>7. QED
  BY <1>4, <1>5, <1>6 DEF OpeningInv

LEMMA OpeningStep == OpeningInv /\ [WsNext]_wsvars => OpeningInv'
<1> SUFFICES ASSUME OpeningInv, [WsNext]_wsvars
             PROVE  OpeningInv'
  OBVIOUS
<1>1. ASSUME NEW k \in DOMAIN Option, NEW v \in Option[k], NEW if_unset \in BOOLEAN,
             SetHeader(k, v, if_unset)
      PROVE  OpeningInv'
  BY <1>1, SetHeaderKeeps
<1>2. CASE NewClient \/ ConnectWs \/ Serve \/ ServeOther \/ RecvAnswer
  BY <1>2, NewClientKeeps, ConnectWsKeeps, ServeKeeps, ServeOtherKeeps, RecvAnswerKeeps
<1>4. CASE Opened
  <2>1. CASE ws_client' = [ws_client EXCEPT !.at = "waiting"] /\ ws_req' = ws_req
    <3>1. ws_client' = [ws_client EXCEPT !.at = "waiting", !.why = ws_client.why]
      BY <2>1, Zenon DEF OpeningInv, OpeningTypes, WsCfgs, WsClients, WsServers
    <3>2. QED
      BY <1>4, <2>1, <3>1, OpenedKeeps, Zenon DEF Opened
  <2>2. CASE Failing("connect") /\ ws_req' = NoHandshake
    BY <1>4, <2>2, OpenedKeeps DEF Opened, Failing
  <2>3. QED
    BY <1>4, <2>1, <2>2 DEF Opened
<1>5. CASE TimeoutWs
  BY <1>5, OpenedKeeps DEF TimeoutWs, Failing
<1>6. CASE DisconnectWs
  BY <1>6, OpenedKeeps DEF DisconnectWs, Failing
<1>7. CASE UNCHANGED wsvars
  <2>1. UNCHANGED <<ws_cfg, ws_client, ws_req, ws_server, ws_res>>
    BY <1>7 DEF wsvars
  <2>2. OpeningTypes'
    <3>1. OpeningTypes
      BY DEF OpeningInv
    <3>2. QED
      BY <2>1, <3>1 DEF OpeningTypes
  <2>3. ThisAttempt' /\ ThisAnswer'
    BY <2>1, Zenon DEF OpeningInv, ThisAttempt, ThisAnswer
  <2>4. HandshakeAgrees'
    BY <2>1, <2>2, OpeningTyped DEF OpeningInv, HandshakeAgrees
  <2>5. QED
    BY <2>2, <2>3, <2>4 DEF OpeningInv
<1>8. QED
  BY <1>1, <1>2, <1>4, <1>5, <1>6, <1>7 DEF WsNext

(* connect() succeeds only with the answer to its own key, and a geario      *)
(* server then has switched for this request; the two ends disagree only     *)
(* about a request whose headers were configured away, for any set of keys.  *)
THEOREM HandshakesAgree == WsSpec => []HandshakeAgrees
<1>1. OpeningInv => HandshakeAgrees
  BY DEF OpeningInv
<1>2. QED
  BY <1>1, OpeningInit, OpeningStep, PTL DEF WsSpec

-----------------------------------------------------------------------------
(* The client of the C interface. *)

(* The commands in the channel, and what has been numbered so far *)
Commands ==
    /\ \A id \in Jobs : stage[id] = "none" <=> id >= next_id
    /\ \A i \in 1 .. Len(chan) : chan[i].t # "Shutdown" => chan[i].id \in Jobs
    /\ \A i \in 1 .. Len(chan) : chan[i].t = "Send" => stage[chan[i].id] = "queued"
    /\ \A i, j \in 1 .. Len(chan) :
            chan[i].t = "Send" /\ chan[j].t = "Send" /\ chan[i].id = chan[j].id => i = j

(* How often a request was handed over, by what it is doing *)
TriesOf(id) ==
    /\ wire[id] <= attempts(id) /\ failed[id] <= attempts(id)
    /\ stage[id] \in {"none", "queued", "start"} => wire[id] = 0 /\ failed[id] = 0
    /\ stage[id] = "checkout" => wire[id] <= failed[id] /\ failed[id] < attempts(id)
    /\ stage[id] = "sending" => wire[id] <= failed[id] + 1 /\ failed[id] < attempts(id)
Tries == \A id \in Jobs : TriesOf(id)

(* The sender of a paused request is in PAUSED or has been used; nobody      *)
(* else has one, and only who is pausing or paused may be asked for.         *)
Pauses ==
    client_worker = "up" =>
        /\ PAUSED \subseteq Jobs /\ resumed \subseteq Jobs /\ PAUSED \cap resumed = {}
        /\ \A id \in Jobs : stage[id] = "paused" <=> id \in PAUSED \union resumed
        /\ \A id \in asked : stage[id] \in {"pausing", "paused"}
        /\ paused = Cardinality({id \in Jobs : stage[id] = "paused"})

Slots == inflight = Count(Live) + bad

ClientInv == ClientTypeOK /\ Commands /\ Tries /\ Pauses /\ Slots /\ ResumeNotLost

-----------------------------------------------------------------------------
(* Counting requests, as Counters does *)
LEMMA Counting ==
  ASSUME NEW S \in SUBSET Jobs
  PROVE  /\ IsFiniteSet(S) /\ Cardinality(S) \in 0 .. MaxJobs
         /\ \A id \in Jobs : /\ id \notin S => Cardinality(S \union {id}) = Cardinality(S) + 1
                             /\ id \in S => Cardinality(S \ {id}) = Cardinality(S) - 1
<1>1. IsFiniteSet(Jobs) /\ Cardinality(Jobs) = MaxJobs /\ MaxJobs \in Nat
  BY FS_Interval, ClientAssumption DEF Jobs
<1>2. IsFiniteSet(S) /\ Cardinality(S) <= Cardinality(Jobs)
  BY <1>1, FS_Subset, Zenon
<1>3. Cardinality(S) \in Nat
  BY <1>2, FS_CardinalityType, Zenon
<1>4. \A id \in Jobs : id \notin S => Cardinality(S \union {id}) = Cardinality(S) + 1
  BY <1>2, FS_AddElement, Zenon
<1>5. \A id \in Jobs : id \in S => Cardinality(S \ {id}) = Cardinality(S) - 1
  BY <1>2, FS_RemoveElement, Zenon
<1>6. QED
  BY <1>1, <1>2, <1>3, <1>4, <1>5

(* A request that moves while its slot is held leaves the number of slots. *)
LEMMA SlotKept ==
  ASSUME ClientTypeOK, NEW id \in Jobs, NEW s \in Live, stage[id] \in Live, Go(id, s)
  PROVE  Count(Live)' = Count(Live)
<1>1. {j \in Jobs : stage'[j] \in Live} = {j \in Jobs : stage[j] \in Live}
  BY Zenon DEF ClientTypeOK, Go
<1>2. QED
  BY <1>1, Zenon DEF Count

(* One that starts or ends takes or frees one. *)
LEMMA SlotTaken ==
  ASSUME ClientTypeOK, NEW id \in Jobs, stage[id] \notin Live, Go(id, "queued")
  PROVE  Count(Live)' = Count(Live) + 1
<1>1. {j \in Jobs : stage'[j] \in Live} = {j \in Jobs : stage[j] \in Live} \union {id}
  BY Zenon DEF ClientTypeOK, Go, Live
<1>2. Cardinality({j \in Jobs : stage[j] \in Live} \union {id})
        = Cardinality({j \in Jobs : stage[j] \in Live}) + 1
  BY Counting, Zenon
<1>3. QED
  BY <1>1, <1>2, Zenon DEF Count

LEMMA SlotFreed ==
  ASSUME ClientTypeOK, NEW id \in Jobs, stage[id] \in Live, Go(id, "gone")
  PROVE  Count(Live)' = Count(Live) - 1
<1>1. {j \in Jobs : stage'[j] \in Live} = {j \in Jobs : stage[j] \in Live} \ {id}
  BY Zenon DEF ClientTypeOK, Go, Live, Running, Callback
<1>2. Cardinality({j \in Jobs : stage[j] \in Live} \ {id})
        = Cardinality({j \in Jobs : stage[j] \in Live}) - 1
  BY Counting, Zenon
<1>3. QED
  BY <1>1, <1>2, Zenon DEF Count

(* Live requests are some of the requests. *)
LEMMA LiveBounded == Count(Live) \in 0 .. MaxJobs
<1>1. {j \in Jobs : stage[j] \in Live} \in SUBSET Jobs
  BY Zenon
<1>2. QED
  BY <1>1, Counting, Zenon DEF Count

-----------------------------------------------------------------------------
(* A task moves on: neither the channel nor the numbers of requests change,  *)
(* and the request was and is not one that waits for its Send command.       *)
LEMMA MoveCommands ==
  ASSUME ClientTypeOK, Commands, NEW id \in Jobs, stage[id] \notin {"none", "queued"},
         NEW s \in Stages \ {"none", "queued"}, Go(id, s), UNCHANGED <<chan, next_id>>
  PROVE  Commands'
<1>1. stage \in [Jobs -> Stages]
  BY Zenon DEF ClientTypeOK
<1>2. \A j \in Jobs : (stage'[j] = "none" <=> stage[j] = "none")
                   /\ (stage[j] = "queued" => stage'[j] = "queued")
  BY <1>1, Zenon DEF Go, Stages
<1>3. QED
  BY <1>2, Zenon DEF Commands

(* A request that is not about to pause or paused moves on: no sender and no *)
(* Resume is its own.                                                        *)
LEMMA MovePauses ==
  ASSUME ClientTypeOK, Pauses, ResumeNotLost, NEW id \in Jobs,
         stage[id] \notin {"pausing", "paused"}, NEW s \in Stages \ {"paused"}, Go(id, s),
         UNCHANGED <<chan, client_worker, asked, paused, PAUSED, resumed>>
  PROVE  Pauses' /\ ResumeNotLost'
<1>1. stage \in [Jobs -> Stages] /\ asked \subseteq Jobs
  BY Zenon DEF ClientTypeOK
<1>2. \A j \in Jobs : /\ stage'[j] = "paused" <=> stage[j] = "paused"
                      /\ j # id => stage'[j] = stage[j]
  BY <1>1, Zenon DEF Go, Stages
<1>3. {j \in Jobs : stage'[j] = "paused"} = {j \in Jobs : stage[j] = "paused"}
  BY <1>2, Zenon
<1>4. client_worker = "up" => id \notin asked
  BY Zenon DEF Pauses
<1>5. Pauses'
  BY <1>1, <1>2, <1>3, <1>4, Zenon DEF Pauses
<1>6. ResumeNotLost'
  BY <1>1, <1>2, <1>4, Zenon DEF ResumeNotLost
<1>7. QED
  BY <1>5, <1>6, Zenon

(* The attempts of the other requests are untouched. *)
LEMMA MoveTries ==
  ASSUME Tries, NEW id \in Jobs, TriesOf(id)',
         \A j \in Jobs : j # id => /\ wire'[j] = wire[j] /\ failed'[j] = failed[j]
                                   /\ stage'[j] = stage[j]
  PROVE  Tries'
<1>1. ASSUME NEW j \in Jobs, j # id
      PROVE  TriesOf(j)'
  BY <1>1, Zenon DEF Tries, TriesOf, attempts
<1>2. QED
  BY <1>1, Zenon DEF Tries, TriesOf

(* How many attempts a request has *)
LEMMA Attempts == \A id \in Jobs : attempts(id) \in 1 .. MaxRetries + 1
BY ClientAssumption DEF attempts

(* A task moves on without a slot, a pause or a command being concerned. *)
LEMMA QuietMove ==
  ASSUME ClientInv, NEW id \in Jobs, stage[id] \in {"start", "checkout", "sending", "body"},
         NEW s \in {"checkout", "sending", "body", "pausing", "reported"}, Go(id, s),
         UNCHANGED <<Rest, pauses, inflight>>,
         wire' \in [Jobs -> 0 .. MaxRetries + 1], failed' \in [Jobs -> 0 .. MaxRetries + 1],
         \A j \in Jobs : j # id => wire'[j] = wire[j] /\ failed'[j] = failed[j],
         TriesOf(id)'
  PROVE  ClientInv'
<1>1. ClientTypeOK /\ Commands /\ Tries /\ Pauses /\ Slots /\ ResumeNotLost
  BY Zenon DEF ClientInv
<1>2. stage \in [Jobs -> Stages] /\ stage' \in [Jobs -> Stages]
      /\ s \in Stages \ {"none", "queued"} /\ s \in Stages \ {"paused"} /\ s \in Live /\ stage[id] \in Live
      /\ \A j \in Jobs : j # id => stage'[j] = stage[j]
  BY <1>1, Zenon DEF ClientTypeOK, Go, Stages, Live, Running, Callback
<1>3. ClientTypeOK'
  BY <1>1, <1>2, Zenon DEF ClientTypeOK, Rest, hostside, pauses
<1>4. Commands'
  BY <1>1, <1>2, MoveCommands, Zenon DEF Rest, hostside
<1>5. Tries'
  BY <1>1, <1>2, MoveTries, Zenon
<1>6. Pauses' /\ ResumeNotLost'
  BY <1>1, <1>2, MovePauses, Zenon DEF Rest, hostside, pauses
<1>7. Slots'
  BY <1>1, <1>2, SlotKept, Zenon DEF Slots, Rest, hostside
<1>8. QED
  BY <1>3, <1>4, <1>5, <1>6, <1>7, Zenon DEF ClientInv

(* What is known of the attempts of a request *)
LEMMA TryFacts ==
  ASSUME ClientInv, NEW id \in Jobs
  PROVE  /\ TriesOf(id) /\ wire[id] \in Nat /\ failed[id] \in Nat /\ MaxRetries \in Nat
         /\ attempts(id) \in 1 .. MaxRetries + 1
         /\ wire \in [Jobs -> 0 .. MaxRetries + 1] /\ failed \in [Jobs -> 0 .. MaxRetries + 1]
         /\ stage \in [Jobs -> Stages]
BY Attempts, ClientAssumption DEF ClientInv, ClientTypeOK, Tries

(* run_job checks the request, and deliver reads the head and the body of    *)
(* the response or gives up.                                                 *)
LEMMA StageKeeps ==
  ASSUME ClientInv, NEW id \in Jobs, Start(id) \/ Headers(id) \/ SendTimeout(id) \/ Frame(id)
  PROVE  ClientInv'
<1>1. PICK s \in {"checkout", "body", "pausing", "reported"} :
        /\ Go(id, s) /\ stage[id] \in {"start", "sending", "body"}
        /\ s = "checkout" => stage[id] = "start"
        /\ UNCHANGED <<Rest, failed, wire, pauses, inflight>>
  BY Zenon DEF Start, Headers, SendTimeout, Frame, At, Report
<1>2. TriesOf(id)'
  BY <1>1, TryFacts DEF TriesOf, Go, attempts
<1>3. QED
  BY <1>1, <1>2, TryFacts, QuietMove, Zenon

(* The attempt has failed: TryAgain. *)
LEMMA TryAgainKeeps ==
  ASSUME ClientInv, NEW id \in Jobs, stage[id] \in {"checkout", "sending"}, TryAgain(id),
         UNCHANGED <<Rest, wire, pauses, inflight>>
  PROVE  ClientInv'
<1> DEFINE s == IF failed[id] + 1 < attempts(id) THEN "checkout" ELSE "reported"
<1>1. Go(id, s) /\ failed' = [failed EXCEPT ![id] = failed[id] + 1] /\ wire' = wire
  BY Zenon DEF TryAgain
<1>2. failed[id] < attempts(id) /\ wire[id] <= failed[id] + 1
  BY TryFacts DEF TriesOf
<1>3. failed' \in [Jobs -> 0 .. MaxRetries + 1] /\ failed'[id] = failed[id] + 1
      /\ \A j \in Jobs : j # id => failed'[j] = failed[j]
  BY <1>1, <1>2, TryFacts
<1>4. TriesOf(id)'
  <2>1. stage'[id] = s /\ wire'[id] = wire[id] /\ attempts(id)' = attempts(id)
    BY <1>1, TryFacts, Zenon DEF Go, attempts
  <2>2. QED
    BY <1>2, <1>3, <2>1, TryFacts DEF TriesOf
<1>5. QED
  BY <1>1, <1>3, <1>4, TryFacts, QuietMove, Zenon

(* Pool::checkout and the sending of the request *)
LEMMA CheckoutKeeps ==
  ASSUME ClientInv, NEW id \in Jobs, Checkout(id)
  PROVE  ClientInv'
<1>1. stage[id] = "checkout" /\ UNCHANGED <<Rest, pauses, inflight>>
  BY Zenon DEF Checkout, At
<1>2. CASE Go(id, "sending") /\ wire' = [wire EXCEPT ![id] = wire[id] + 1] /\ UNCHANGED failed
  <2>1. wire[id] <= failed[id] /\ failed[id] < attempts(id)
    BY <1>1, TryFacts, Zenon DEF TriesOf
  <2>2. wire' \in [Jobs -> 0 .. MaxRetries + 1] /\ wire'[id] = wire[id] + 1
        /\ \A j \in Jobs : j # id => wire'[j] = wire[j]
    BY <1>2, <2>1, TryFacts
  <2>3. TriesOf(id)'
    BY <1>2, <2>1, <2>2, TryFacts DEF TriesOf, Go, attempts
  <2>4. QED
    BY <1>1, <1>2, <2>2, <2>3, TryFacts, QuietMove, Zenon
<1>3. CASE TryAgain(id) /\ UNCHANGED wire
  BY <1>1, <1>3, TryAgainKeeps, Zenon
<1>4. CASE Report(id) /\ UNCHANGED <<wire, failed>>
  <2>1. TriesOf(id)'
    BY <1>4, TryFacts, Zenon DEF TriesOf, Report, Go, attempts
  <2>2. QED
    BY <1>1, <1>4, <2>1, TryFacts, QuietMove, Zenon DEF Report
<1>5. QED
  BY <1>2, <1>3, <1>4, Zenon DEF Checkout

(* The connection fails before a response. *)
LEMMA SendFailedKeeps ==
  ASSUME ClientInv, NEW id \in Jobs, SendFailed(id)
  PROVE  ClientInv'
<1>1. stage[id] = "sending" /\ UNCHANGED <<Rest, wire, pauses, inflight>>
  BY Zenon DEF SendFailed, At
<1>2. CASE TryAgain(id)
  BY <1>1, <1>2, TryAgainKeeps, Zenon
<1>3. CASE Report(id) /\ UNCHANGED failed
  <2>1. TriesOf(id)'
    BY <1>1, <1>3, TryFacts, Zenon DEF TriesOf, Report, Go, attempts
  <2>2. QED
    BY <1>1, <1>3, <2>1, TryFacts, QuietMove, Zenon DEF Report
<1>4. QED
  BY <1>2, <1>3, Zenon DEF SendFailed

(* on_done has returned: the guard releases the slot. *)
LEMMA ReleaseKeeps ==
  ASSUME ClientInv, NEW id \in Jobs, Release(id)
  PROVE  ClientInv'
<1>1. ClientTypeOK /\ Commands /\ Tries /\ Pauses /\ Slots /\ ResumeNotLost
  BY Zenon DEF ClientInv
<1>2. stage[id] = "reported" /\ Go(id, "gone") /\ inflight' = inflight - 1
      /\ UNCHANGED <<Rest, failed, wire, pauses>>
  BY Zenon DEF Release
<1>3. stage \in [Jobs -> Stages] /\ stage' \in [Jobs -> Stages] /\ stage'[id] = "gone"
      /\ "gone" \in Stages \ {"none", "queued"} /\ "gone" \in Stages \ {"paused"} /\ stage[id] \in Live
      /\ \A j \in Jobs : j # id => stage'[j] = stage[j]
  BY <1>1, <1>2, Zenon DEF ClientTypeOK, Go, Stages, Live, Running, Callback
<1>4. Slots'
  <2>1. PICK n \in Nat, b \in Nat : n = Count(Live) /\ b = bad
    <3>1. Count(Live) \in 0 .. MaxJobs /\ bad \in 0 .. MaxBad
      BY <1>1, LiveBounded, Zenon DEF ClientTypeOK
    <3>2. 0 .. MaxJobs \subseteq Nat /\ 0 .. MaxBad \subseteq Nat
      BY ClientAssumption
    <3>3. QED
      BY <3>1, <3>2, Zenon
  <2>2. inflight = n + b /\ inflight' = inflight - 1
    BY <1>1, <1>2, <2>1, Zenon DEF Slots
  <2>3. Count(Live)' = n - 1 /\ bad' = b
    BY <1>1, <1>2, <1>3, <2>1, SlotFreed, Zenon DEF Rest, hostside
  <2>4. inflight' = (n - 1) + b
    BY <2>1, <2>2
  <2>5. QED
    BY <2>3, <2>4, Zenon DEF Slots
<1>5. inflight' \in 0 .. MaxJobs + MaxBad
  <2>1. Count(Live)' \in 0 .. MaxJobs
    <3>1. {j \in Jobs : stage'[j] \in Live} \in SUBSET Jobs
      BY Zenon
    <3>2. QED
      BY <3>1, Counting, Zenon DEF Count
  <2>2. bad' \in 0 .. MaxBad
    BY <1>1, <1>2, Zenon DEF ClientTypeOK, Rest, hostside
  <2>3. QED
    BY <1>4, <2>1, <2>2, ClientAssumption DEF Slots
<1>6. ClientTypeOK'
  BY <1>1, <1>2, <1>3, <1>5, Zenon DEF ClientTypeOK, Rest, hostside, pauses
<1>7. Commands'
  BY <1>1, <1>2, <1>3, MoveCommands, Zenon DEF Rest, hostside
<1>8. Pauses' /\ ResumeNotLost'
  BY <1>1, <1>2, <1>3, MovePauses, Zenon DEF Rest, hostside, pauses
<1>9. TriesOf(id)'
  BY <1>2, <1>3, TryFacts, Zenon DEF TriesOf, attempts
<1>10. Tries'
  BY <1>1, <1>2, <1>3, <1>9, MoveTries, Zenon
<1>11. QED
  BY <1>4, <1>6, <1>7, <1>8, <1>10, Zenon DEF ClientInv

(* on_chunk has returned PAUSE: a Resume the host has sent meanwhile is      *)
(* still in the channel.                                                     *)
LEMMA PauseKeeps ==
  ASSUME ClientInv, NEW id \in Jobs, Pause(id)
  PROVE  ClientInv'
<1>1. ClientTypeOK /\ Commands /\ Tries /\ Pauses /\ Slots /\ ResumeNotLost
  BY Zenon DEF ClientInv
<1>2. client_worker = "up" /\ stage[id] = "pausing" /\ Go(id, "paused")
      /\ paused' = paused + 1 /\ PAUSED' = PAUSED \union {id}
      /\ UNCHANGED <<Rest, failed, wire, resumed, CANCELLED, inflight>>
  BY Zenon DEF Pause
<1>3. stage \in [Jobs -> Stages] /\ stage' \in [Jobs -> Stages] /\ stage'[id] = "paused"
      /\ "paused" \in Stages \ {"none", "queued"} /\ "paused" \in Live /\ stage[id] \in Live
      /\ \A j \in Jobs : j # id => stage'[j] = stage[j]
  BY <1>1, <1>2, Zenon DEF ClientTypeOK, Go, Stages, Live, Running, Callback
<1>4. Commands'
  BY <1>1, <1>2, <1>3, MoveCommands, Zenon DEF Rest, hostside
<1>5. Slots'
  BY <1>1, <1>2, <1>3, SlotKept, Zenon DEF Slots, Rest, hostside
<1> DEFINE P == {j \in Jobs : stage[j] = "paused"}
<1>6. {j \in Jobs : stage'[j] = "paused"} = P \union {id}
  BY <1>2, <1>3, Zenon
<1>7. Cardinality(P \union {id}) = paused + 1 /\ Cardinality(P \union {id}) \in 0 .. MaxJobs
  <2>1. P \in SUBSET Jobs /\ P \union {id} \in SUBSET Jobs /\ id \notin P
    BY <1>2, Zenon
  <2>2. Cardinality(P) = paused
    BY <1>1, <1>2, Zenon DEF Pauses
  <2>3. QED
    BY <2>1, <2>2, Counting, Zenon
<1>8. Pauses'
  <2>1. /\ PAUSED \subseteq Jobs /\ resumed \subseteq Jobs /\ PAUSED \cap resumed = {}
        /\ \A j \in Jobs : stage[j] = "paused" <=> j \in PAUSED \union resumed
        /\ \A j \in asked : stage[j] \in {"pausing", "paused"}
    BY <1>1, <1>2, Zenon DEF Pauses
  <2>2. PAUSED' \subseteq Jobs /\ resumed' \subseteq Jobs /\ PAUSED' \cap resumed' = {}
    BY <1>2, <2>1, Zenon
  <2>3. \A j \in Jobs : stage'[j] = "paused" <=> j \in PAUSED' \union resumed'
    BY <1>2, <1>3, <2>1, Zenon
  <2>4. \A j \in asked' : stage'[j] \in {"pausing", "paused"}
    BY <1>1, <1>2, <1>3, <2>1, Zenon DEF Rest, hostside, ClientTypeOK
  <2>5. paused' = Cardinality({j \in Jobs : stage'[j] = "paused"})
    BY <1>2, <1>6, <1>7, Zenon
  <2>6. QED
    BY <2>2, <2>3, <2>4, <2>5, Zenon DEF Pauses
<1>9. ResumeNotLost'
  BY <1>1, <1>2, <1>3, Zenon DEF ResumeNotLost, Rest, hostside, ClientTypeOK
<1>10. ClientTypeOK'
  BY <1>1, <1>2, <1>3, <1>7, Zenon DEF ClientTypeOK, Rest, hostside
<1>11. TriesOf(id)'
  BY <1>2, <1>3, TryFacts, Zenon DEF TriesOf, attempts
<1>12. Tries'
  BY <1>1, <1>2, <1>3, <1>11, MoveTries, Zenon
<1>13. QED
  BY <1>4, <1>5, <1>8, <1>9, <1>10, <1>12, Zenon DEF ClientInv

(* rx.await is over. *)
LEMMA EndPauseKeeps ==
  ASSUME ClientInv, NEW id \in Jobs, EndPause(id)
  PROVE  ClientInv'
<1>1. ClientTypeOK /\ Commands /\ Tries /\ Pauses /\ Slots /\ ResumeNotLost
  BY Zenon DEF ClientInv
<1>2. PICK s \in {"reported", "body"} :
         /\ client_worker = "up" /\ stage[id] = "paused" /\ Go(id, s) /\ id \in resumed
         /\ paused' = paused - 1 /\ resumed' = resumed \ {id} /\ asked' = asked \ {id}
         /\ CANCELLED' = CANCELLED \ {id}
         /\ UNCHANGED <<closed, next_id, bad, chan, client_worker, failed, wire, PAUSED, inflight>>
  BY Zenon DEF EndPause, At, Free, Report
<1>3. stage \in [Jobs -> Stages] /\ stage' \in [Jobs -> Stages] /\ stage'[id] = s
      /\ s \in Stages \ {"none", "queued"} /\ s \in Live /\ stage[id] \in Live
      /\ \A j \in Jobs : j # id => stage'[j] = stage[j]
  BY <1>1, <1>2, Zenon DEF ClientTypeOK, Go, Stages, Live, Running, Callback
<1>4. Commands'
  BY <1>1, <1>2, <1>3, MoveCommands, Zenon
<1>5. Slots'
  BY <1>1, <1>2, <1>3, SlotKept, Zenon DEF Slots
<1> DEFINE P == {j \in Jobs : stage[j] = "paused"}
<1>6. {j \in Jobs : stage'[j] = "paused"} = P \ {id}
  BY <1>2, <1>3, Zenon
<1>7. Cardinality(P \ {id}) = paused - 1 /\ Cardinality(P \ {id}) \in 0 .. MaxJobs
  <2>1. P \in SUBSET Jobs /\ P \ {id} \in SUBSET Jobs /\ id \in P
    BY <1>2, Zenon
  <2>2. Cardinality(P) = paused
    BY <1>1, <1>2, Zenon DEF Pauses
  <2>3. QED
    BY <2>1, <2>2, Counting, Zenon
<1>8. Pauses'
  <2>1. /\ PAUSED \subseteq Jobs /\ resumed \subseteq Jobs /\ PAUSED \cap resumed = {}
        /\ \A j \in Jobs : stage[j] = "paused" <=> j \in PAUSED \union resumed
        /\ \A j \in asked : stage[j] \in {"pausing", "paused"}
    BY <1>1, <1>2, Zenon DEF Pauses
  <2>2. /\ PAUSED' \subseteq Jobs /\ resumed' \subseteq Jobs /\ PAUSED' \cap resumed' = {}
        /\ \A j \in Jobs : stage'[j] = "paused" <=> j \in PAUSED' \union resumed'
        /\ \A j \in asked' : stage'[j] \in {"pausing", "paused"}
    BY <1>1, <1>2, <1>3, <2>1, Zenon DEF ClientTypeOK
  <2>3. paused' = Cardinality({j \in Jobs : stage'[j] = "paused"})
    BY <1>2, <1>6, <1>7, Zenon
  <2>4. QED
    BY <2>2, <2>3, Zenon DEF Pauses
<1>9. ResumeNotLost'
  BY <1>1, <1>2, <1>3, Zenon DEF ResumeNotLost, ClientTypeOK
<1>10. ClientTypeOK'
  BY <1>1, <1>2, <1>3, <1>7, Zenon DEF ClientTypeOK
<1>11. TriesOf(id)'
  BY <1>2, <1>3, TryFacts, Zenon DEF TriesOf, attempts
<1>12. Tries'
  BY <1>1, <1>2, <1>3, <1>11, MoveTries, Zenon
<1>13. QED
  BY <1>4, <1>5, <1>8, <1>9, <1>10, <1>12, Zenon DEF ClientInv

-----------------------------------------------------------------------------
(* The command channel *)
LEMMA Pushed ==
  ASSUME ClientTypeOK, NEW c \in ClientCommands, chan' = Append(chan, c)
  PROVE  /\ chan' \in Seq(ClientCommands) /\ Len(chan) \in Nat /\ Len(chan') = Len(chan) + 1
         /\ DOMAIN chan = 1 .. Len(chan) /\ DOMAIN chan' = 1 .. Len(chan')
         /\ \A i \in 1 .. Len(chan) : chan'[i] = chan[i]
         /\ chan'[Len(chan) + 1] = c
BY DEF ClientTypeOK

LEMMA Popped ==
  ASSUME ClientTypeOK, chan # <<>>, chan' = Tail(chan)
  PROVE  /\ chan' \in Seq(ClientCommands) /\ Len(chan) \in Nat /\ Len(chan') = Len(chan) - 1
         /\ 1 \in 1 .. Len(chan) /\ Head(chan) = chan[1] /\ Head(chan) \in ClientCommands
         /\ DOMAIN chan = 1 .. Len(chan) /\ DOMAIN chan' = 1 .. Len(chan')
         /\ \A i \in 1 .. Len(chan') : chan'[i] = chan[i + 1]
BY DEF ClientTypeOK

(* A command of the host other than Send is put behind the others. *)
LEMMA CommandPushed ==
  ASSUME ClientTypeOK, Commands, NEW c \in ClientCommands, c.t # "Send",
         c.t # "Shutdown" => c.id \in Jobs, chan' = Append(chan, c), UNCHANGED <<stage, next_id>>
  PROVE  Commands'
<1>1. \A i \in 1 .. Len(chan') : (i \in 1 .. Len(chan) /\ chan'[i] = chan[i]) \/ chan'[i] = c
  BY Pushed
<1>2. \A i \in 1 .. Len(chan') : chan'[i].t # "Shutdown" => chan'[i].id \in Jobs
  BY <1>1, Zenon DEF Commands
<1>3. \A i \in 1 .. Len(chan') : chan'[i].t = "Send" => stage'[chan'[i].id] = "queued"
  BY <1>1 DEF Commands
<1>4. \A i, j \in 1 .. Len(chan') :
         chan'[i].t = "Send" /\ chan'[j].t = "Send" /\ chan'[i].id = chan'[j].id => i = j
  BY <1>1 DEF Commands
<1>5. QED
  BY <1>2, <1>3, <1>4, Zenon DEF Commands

(* A Resume in the channel stays there when something is put behind it. *)
LEMMA ResumePushed ==
  ASSUME ClientTypeOK, NEW c \in ClientCommands, chan' = Append(chan, c), NEW id,
         \E i \in DOMAIN chan : chan[i] = Cmd("Resume", id)
  PROVE  \E i \in DOMAIN chan' : chan'[i] = Cmd("Resume", id)
BY Pushed

(* The host cancels, resumes or closes. *)
LEMMA AskKeeps ==
  ASSUME ClientInv, NEW c \in ClientCommands, c.t # "Send", c.t # "Shutdown" => c.id \in Jobs,
         chan' = Append(chan, c), UNCHANGED <<next_id, bad, job, pauses, inflight, client_worker>>,
         closed' \in BOOLEAN,
         \/ asked' = asked
         \/ asked' = asked \union {c.id} /\ c = Cmd("Resume", c.id) /\ stage[c.id] \in {"pausing", "paused"}
  PROVE  ClientInv'
<1>1. ClientTypeOK /\ Commands /\ Tries /\ Pauses /\ Slots /\ ResumeNotLost
  BY Zenon DEF ClientInv
<1>2. UNCHANGED <<stage, failed, wire, paused, PAUSED, resumed, CANCELLED>>
  BY Zenon DEF job, pauses
<1>3. c.id \in Jobs \/ asked' = asked
  BY DEF Cmd
<1>4. ClientTypeOK'
  BY <1>1, <1>2, <1>3, Pushed, Zenon DEF ClientTypeOK
<1>5. Commands'
  BY <1>1, <1>2, CommandPushed, Zenon
<1>6. Tries'
  BY <1>1, <1>2, Zenon DEF Tries, TriesOf, attempts
<1>7. Slots'
  BY <1>1, <1>2, Zenon DEF Slots, Count
<1>8. Pauses'
  <2>1. client_worker = "up" => \A j \in asked' : stage[j] \in {"pausing", "paused"}
    BY <1>1, Zenon DEF Pauses
  <2>2. QED
    BY <1>1, <1>2, <2>1, Zenon DEF Pauses
<1>9. ResumeNotLost'
  <2> SUFFICES ASSUME client_worker = "up", NEW id \in asked'
               PROVE  \/ id \in resumed \/ stage[id] \in {"reported", "gone"}
                      \/ \E i \in DOMAIN chan' : chan'[i] = Cmd("Resume", id)
    BY <1>2, Zenon DEF ResumeNotLost
  <2>1. CASE id \in asked
    <3>1. \/ id \in resumed \/ stage[id] \in {"reported", "gone"}
          \/ \E i \in DOMAIN chan : chan[i] = Cmd("Resume", id)
      BY <1>1, <2>1, Zenon DEF ResumeNotLost
    <3>2. QED
      BY <1>1, <3>1, ResumePushed, Zenon
  <2>2. CASE id = c.id /\ c = Cmd("Resume", c.id)
    BY <1>1, <2>2, Pushed
  <2>3. QED
    BY <2>1, <2>2, Zenon
<1>10. QED
  BY <1>4, <1>5, <1>6, <1>7, <1>8, <1>9, Zenon DEF ClientInv

(* Every call of the host but send *)
LEMMA HostKeeps ==
  ASSUME ClientInv, Close \/ \E id \in Jobs : Resume(id) \/ Cancel(id)
  PROVE  ClientInv'
<1>1. ASSUME Close
      PROVE  ClientInv'
  <2>1. Cmd("Shutdown", 0) \in ClientCommands
    BY ClientAssumption DEF ClientCommands, Cmd
  <2>2. QED
    BY <1>1, <2>1, AskKeeps, Zenon DEF Close, Cmd
<1>2. ASSUME NEW id \in Jobs, Resume(id)
      PROVE  ClientInv'
  <2>1. Cmd("Resume", id) \in ClientCommands
    BY ClientAssumption DEF ClientCommands, Cmd, Jobs
  <2>2. closed' \in BOOLEAN
    BY <1>2, Zenon DEF Resume, ClientInv, ClientTypeOK
  <2>3. QED
    BY <1>2, <2>1, <2>2, AskKeeps, Zenon DEF Resume, Push, Cmd
<1>3. ASSUME NEW id \in Jobs, Cancel(id)
      PROVE  ClientInv'
  <2>1. Cmd("Cancel", id) \in ClientCommands
    BY ClientAssumption DEF ClientCommands, Cmd, Jobs
  <2>2. closed' \in BOOLEAN
    BY <1>3, Zenon DEF Cancel, hostside, ClientInv, ClientTypeOK
  <2>3. QED
    BY <1>3, <2>1, <2>2, AskKeeps, Zenon DEF Cancel, Push, Cmd, hostside
<1>4. QED
  BY <1>1, <1>2, <1>3, Zenon

(* A request is refused for its arguments: its slot is never given back. *)
LEMMA SendInvalidKeeps ==
  ASSUME ClientInv, SendInvalid
  PROVE  ClientInv'
<1>1. ClientTypeOK /\ Commands /\ Tries /\ Pauses /\ Slots /\ ResumeNotLost
  BY Zenon DEF ClientInv
<1>2. /\ inflight' = inflight + 1 /\ bad' = bad + 1 /\ bad < MaxBad
      /\ UNCHANGED <<closed, next_id, asked, stage, failed, wire, paused, PAUSED, resumed,
                     CANCELLED, chan, client_worker>>
  BY Zenon DEF SendInvalid, job, pauses
<1>3. Count(Live)' = Count(Live) /\ Count(Live) \in 0 .. MaxJobs
  BY <1>2, LiveBounded, Zenon DEF Count
<1>4. Slots'
  BY <1>1, <1>2, <1>3 DEF Slots, ClientTypeOK
<1>5. ClientTypeOK'
  <2>1. bad \in 0 .. MaxBad /\ inflight = Count(Live) + bad
    BY <1>1, Zenon DEF ClientTypeOK, Slots
  <2>2. PICK c \in 0 .. MaxJobs : c = Count(Live)
    BY <1>3, Zenon
  <2>3. bad' \in 0 .. MaxBad /\ c + bad + 1 \in 0 .. MaxJobs + MaxBad
    BY <1>2, <2>1, ClientAssumption
  <2>4. inflight' = c + bad + 1
    BY <1>2, <2>1, <2>2, Zenon
  <2> QED
    BY <1>1, <1>2, <2>3, <2>4, Zenon DEF ClientTypeOK
<1>6. Commands' /\ Pauses' /\ ResumeNotLost'
  BY <1>1, <1>2, Zenon DEF Commands, Pauses, ResumeNotLost
<1>7. Tries'
  BY <1>1, <1>2, Zenon DEF Tries, TriesOf, attempts
<1>8. QED
  BY <1>4, <1>5, <1>6, <1>7, Zenon DEF ClientInv

(* A request is accepted: it gets the next number and is queued. *)
LEMMA HostSendKeeps ==
  ASSUME ClientInv, Send
  PROVE  ClientInv'
<1>1. ClientTypeOK /\ Commands /\ Tries /\ Pauses /\ Slots /\ ResumeNotLost
  BY Zenon DEF ClientInv
<1>0. PICK id \in Jobs : id = next_id
  BY <1>1, ClientAssumption DEF Send, ClientTypeOK, Jobs
<1> DEFINE c == Cmd("Send", id)
<1>2. /\ inflight' = inflight + 1 /\ next_id' = id + 1 /\ Go(id, "queued") /\ chan' = Append(chan, c)
      /\ UNCHANGED <<closed, asked, bad, failed, wire, paused, PAUSED, resumed, CANCELLED, client_worker>>
  BY <1>0, Zenon DEF Send, Go, Push, pauses
<1>3. id \in Jobs /\ c \in ClientCommands /\ c.t = "Send" /\ c.id = id
  BY ClientAssumption DEF Jobs, ClientCommands, Cmd
<1>4. stage[id] = "none"
  BY <1>0, <1>1, ClientAssumption DEF Commands, Jobs
<1> HIDE DEF c
<1>5. /\ stage \in [Jobs -> Stages] /\ stage' \in [Jobs -> Stages] /\ stage'[id] = "queued"
      /\ "queued" \in Stages \ {"paused"} /\ stage[id] \notin Live
      /\ \A j \in Jobs : j # id => stage'[j] = stage[j]
  BY <1>1, <1>2, <1>3, <1>4, Zenon DEF ClientTypeOK, Go, Stages, Live, Running, Callback
<1>6. Slots'
  <2>1. Count(Live)' = Count(Live) + 1
    BY <1>1, <1>2, <1>5, SlotTaken, Zenon
  <2>2. PICK n \in 0 .. MaxJobs : n = Count(Live)
    BY LiveBounded, Zenon
  <2>3. PICK b \in 0 .. MaxBad : b = bad
    BY <1>1, Zenon DEF ClientTypeOK
  <2>4. (n + b) + 1 = (n + 1) + b
    BY ClientAssumption
  <2> QED
    BY <1>1, <1>2, <2>1, <2>2, <2>3, <2>4, Zenon DEF Slots
<1>7. inflight' \in 0 .. MaxJobs + MaxBad
  <2>1. {j \in Jobs : stage'[j] \in Live} \in SUBSET Jobs
    BY Zenon
  <2>2. Count(Live)' \in 0 .. MaxJobs
    BY <2>1, Counting, Zenon DEF Count
  <2>3. bad' \in 0 .. MaxBad
    BY <1>1, <1>2, Zenon DEF ClientTypeOK
  <2>4. QED
    BY <1>6, <2>2, <2>3, ClientAssumption DEF Slots
<1>8. ClientTypeOK'
  <2>1. next_id' \in 1 .. MaxJobs + 1
    BY <1>2, ClientAssumption DEF Jobs
  <2>2. chan' \in Seq(ClientCommands)
    BY <1>1, <1>2, <1>3, Pushed, Zenon
  <2>3. QED
    BY <1>1, <1>2, <1>5, <1>7, <2>1, <2>2, Zenon DEF ClientTypeOK
<1>9. Commands'
  <2>1. \A i \in 1 .. Len(chan') : \/ i \in 1 .. Len(chan) /\ chan'[i] = chan[i]
                                   \/ i = Len(chan) + 1 /\ chan'[i] = c
    BY <1>1, <1>2, <1>3, Pushed
  <2>2. \A j \in Jobs : stage'[j] = "none" <=> j >= next_id'
    <3>1. next_id \in Nat /\ \A j \in Jobs : (stage[j] = "none" <=> j >= next_id) /\ j \in Nat
      BY <1>1 DEF Commands, ClientTypeOK, Jobs
    <3>2. QED
      BY <1>0, <1>2, <1>5, <3>1
  <2>3. \A i \in 1 .. Len(chan) : chan[i].t = "Send" => chan[i].id \in Jobs /\ chan[i].id # id
                                                       /\ stage[chan[i].id] = "queued"
    BY <1>1, <1>4, Zenon DEF Commands
  <2>4. \A i \in 1 .. Len(chan') : chan'[i].t # "Shutdown" => chan'[i].id \in Jobs
    BY <1>1, <1>3, <2>1, Zenon DEF Commands
  <2>5. \A i \in 1 .. Len(chan') : chan'[i].t = "Send" => stage'[chan'[i].id] = "queued"
    BY <1>3, <1>5, <2>1, <2>3, Zenon
  <2>6. \A i, j \in 1 .. Len(chan') :
           chan'[i].t = "Send" /\ chan'[j].t = "Send" /\ chan'[i].id = chan'[j].id => i = j
    BY <1>1, <1>3, <2>1, <2>3, Zenon DEF Commands
  <2>7. QED
    BY <2>2, <2>4, <2>5, <2>6, Zenon DEF Commands
<1>10. TriesOf(id)'
  BY <1>2, <1>3, <1>4, <1>5, TryFacts, Zenon DEF TriesOf, attempts
<1>11. Tries'
  BY <1>1, <1>2, <1>3, <1>5, <1>10, MoveTries, Zenon
<1>12. Pauses' /\ ResumeNotLost'
  <2>1. client_worker = "up" => id \notin asked
    BY <1>1, <1>4, Zenon DEF Pauses
  <2>2. {j \in Jobs : stage'[j] = "paused"} = {j \in Jobs : stage[j] = "paused"}
    BY <1>3, <1>4, <1>5, Zenon
  <2>3. \A j \in Jobs : stage'[j] = "paused" <=> stage[j] = "paused"
    BY <1>3, <1>4, <1>5, Zenon
  <2>4. \A j \in asked : client_worker = "up" => j \in Jobs /\ stage'[j] = stage[j]
    BY <1>1, <1>5, <2>1, Zenon DEF ClientTypeOK
  <2>5. Pauses'
    BY <1>1, <1>2, <2>2, <2>3, <2>4, Zenon DEF Pauses
  <2>6. ResumeNotLost'
    BY <1>1, <1>2, <1>3, <2>4, ResumePushed, Zenon DEF ResumeNotLost
  <2>7. QED
    BY <2>5, <2>6, Zenon
<1>13. QED
  BY <1>6, <1>8, <1>9, <1>11, <1>12, Zenon DEF ClientInv

-----------------------------------------------------------------------------
(* The command loop takes the first command of the channel.  Only the Send   *)
(* it takes ends the queueing of a request.                                  *)
LEMMA PopCommands ==
  ASSUME ClientTypeOK, Commands, chan # <<>>, chan' = Tail(chan), next_id' = next_id,
         \A j \in Jobs :
            /\ stage'[j] = "none" <=> stage[j] = "none"
            /\ stage[j] = "queued" => stage'[j] = "queued" \/ (Head(chan).t = "Send" /\ Head(chan).id = j)
  PROVE  Commands'
<1>1. \A i \in 1 .. Len(chan') : i + 1 \in 1 .. Len(chan) /\ i + 1 # 1 /\ chan'[i] = chan[i + 1]
  BY Popped
<1>2. 1 \in 1 .. Len(chan) /\ Head(chan) = chan[1]
  BY Popped, Zenon
<1>3. \A j \in Jobs : stage'[j] = "none" <=> j >= next_id'
  BY Zenon DEF Commands
<1>4. \A i \in 1 .. Len(chan') : chan'[i].t # "Shutdown" => chan'[i].id \in Jobs
  <2>1. \A i \in 1 .. Len(chan) : chan[i].t # "Shutdown" => chan[i].id \in Jobs
    BY Zenon DEF Commands
  <2>2. ASSUME NEW i \in 1 .. Len(chan'), chan'[i].t # "Shutdown" PROVE chan'[i].id \in Jobs
    <3>1. PICK k : k = i + 1
      OBVIOUS
    <3>2. k \in 1 .. Len(chan) /\ chan'[i] = chan[k]
      BY <1>1, <3>1, Zenon
    <3> QED
      BY <2>1, <2>2, <3>2, Zenon
  <2> QED
    BY <2>2, Zenon
<1>5. ASSUME NEW i \in 1 .. Len(chan'), chan'[i].t = "Send"
      PROVE  stage'[chan'[i].id] = "queued"
  <2>1. i + 1 \in 1 .. Len(chan) /\ i + 1 # 1 /\ chan'[i] = chan[i + 1]
    BY <1>1, Zenon
  <2>2. stage[chan[i + 1].id] = "queued" /\ chan[i + 1].id \in Jobs
    BY <1>5, <2>1 DEF Commands
  <2>3. ~ (chan[1].t = "Send" /\ chan[1].id = chan[i + 1].id)
    BY <1>2, <1>5, <2>1 DEF Commands
  <2>4. QED
    BY <1>2, <2>1, <2>2, <2>3, Zenon
<1>6. ASSUME NEW i \in 1 .. Len(chan'), NEW j \in 1 .. Len(chan'), chan'[i].t = "Send",
             chan'[j].t = "Send", chan'[i].id = chan'[j].id
      PROVE  i = j
  <2>1. i + 1 \in 1 .. Len(chan) /\ chan'[i] = chan[i + 1]
    BY <1>1, Zenon
  <2>2. j + 1 \in 1 .. Len(chan) /\ chan'[j] = chan[j + 1]
    BY <1>1, Zenon
  <2>3. i + 1 = j + 1
    BY <1>6, <2>1, <2>2 DEF Commands
  <2>4. QED
    BY <2>3
<1>7. QED
  BY <1>3, <1>4, <1>5, <1>6, Zenon DEF Commands

(* A Resume that is taken from the channel finds the sender of its request:  *)
(* while the worker is free, no on_chunk is about to return PAUSE.           *)
LEMMA PopResume ==
  ASSUME ClientInv, Free, chan # <<>>, chan' = Tail(chan), asked' = asked, client_worker' = "up",
         resumed \subseteq resumed',
         \A j \in asked : stage'[j] = stage[j],
         Head(chan).t = "Resume" => PAUSED \cap {Head(chan).id} \subseteq resumed'
  PROVE  ResumeNotLost'
<1>1. ClientTypeOK /\ Pauses /\ ResumeNotLost /\ client_worker = "up"
  BY Zenon DEF ClientInv, Free
<1> SUFFICES ASSUME NEW id \in asked
             PROVE  \/ id \in resumed' \/ stage'[id] \in {"reported", "gone"}
                    \/ \E i \in DOMAIN chan' : chan'[i] = Cmd("Resume", id)
  BY Zenon DEF ResumeNotLost
<1>2. stage[id] = "paused" /\ id \in Jobs
  BY <1>1, Zenon DEF Pauses, Free, Callback, ClientTypeOK
<1>3. id \in PAUSED \/ id \in resumed
  BY <1>1, <1>2, Zenon DEF Pauses
<1>4. CASE id \in resumed
  BY <1>4, Zenon
<1>5. CASE id \notin resumed
  <2>1. PICK i \in DOMAIN chan : chan[i] = Cmd("Resume", id)
    BY <1>1, <1>2, <1>5, Zenon DEF ResumeNotLost
  <2>2. CASE i = 1
    <3>1. Head(chan).t = "Resume" /\ Head(chan).id = id
      BY <1>1, <2>1, <2>2, Popped DEF Cmd
    <3>2. QED
      BY <1>3, <1>5, <3>1, Zenon
  <2>3. CASE i # 1
    <3>1. i - 1 \in DOMAIN chan' /\ chan'[i - 1] = chan[i]
      BY <1>1, <2>3, Popped
    <3>2. QED
      BY <2>1, <3>1, Zenon
  <2>4. QED
    BY <2>2, <2>3, Zenon
<1>6. QED
  BY <1>4, <1>5, Zenon

(* Cancel and Resume use the sender of a paused request, if it has one. *)
LEMMA WakeKeeps ==
  ASSUME ClientInv, Free, chan # <<>>, chan' = Tail(chan), UNCHANGED hostside,
         NEW id \in Jobs, id = Head(chan).id, Head(chan).t # "Send", Wake(id),
         CANCELLED' \subseteq Jobs, UNCHANGED <<job, paused, inflight, client_worker>>
  PROVE  ClientInv'
<1>1. ClientTypeOK /\ Commands /\ Tries /\ Pauses /\ Slots /\ ResumeNotLost /\ client_worker = "up"
  BY Zenon DEF ClientInv, Free
<1>2. /\ UNCHANGED <<closed, next_id, asked, bad, stage, failed, wire, paused, inflight, client_worker>>
      /\ PAUSED' = PAUSED \ {id} /\ resumed' = resumed \union (PAUSED \cap {id})
  BY Zenon DEF hostside, job, Wake
<1>3. PAUSED' \subseteq Jobs /\ resumed' \subseteq Jobs /\ PAUSED' \cap resumed' = {}
      /\ PAUSED' \union resumed' = PAUSED \union resumed
  BY <1>1, <1>2, Zenon DEF Pauses
<1>4. Pauses'
  BY <1>1, <1>2, <1>3, Zenon DEF Pauses
<1>5. ClientTypeOK'
  BY <1>1, <1>2, <1>3, Popped, Zenon DEF ClientTypeOK
<1>6. Commands'
  BY <1>1, <1>2, PopCommands, Zenon
<1>7. ResumeNotLost'
  BY <1>1, <1>2, PopResume, Zenon
<1>8. Tries'
  BY <1>1, <1>2, Zenon DEF Tries, TriesOf, attempts
<1>9. Slots'
  BY <1>1, <1>2, Zenon DEF Slots, Count
<1>10. QED
  BY <1>4, <1>5, <1>6, <1>7, <1>8, <1>9, Zenon DEF ClientInv

(* Send: the task of the request starts. *)
LEMMA SpawnKeeps ==
  ASSUME ClientInv, Free, chan # <<>>, chan' = Tail(chan), UNCHANGED hostside,
         NEW id \in Jobs, id = Head(chan).id, Head(chan).t = "Send", Go(id, "start"),
         UNCHANGED <<failed, wire, pauses, inflight, client_worker>>
  PROVE  ClientInv'
<1>1. ClientTypeOK /\ Commands /\ Tries /\ Pauses /\ Slots /\ ResumeNotLost /\ client_worker = "up"
  BY Zenon DEF ClientInv, Free
<1>2. UNCHANGED <<closed, next_id, asked, bad, failed, wire, paused, PAUSED, resumed, CANCELLED,
                  inflight, client_worker>>
  BY Zenon DEF hostside, pauses
<1>3. stage[id] = "queued"
  BY <1>1, Popped, Zenon DEF Commands
<1>4. /\ stage \in [Jobs -> Stages] /\ stage' \in [Jobs -> Stages] /\ stage'[id] = "start"
      /\ "start" \in Live /\ stage[id] \in Live
      /\ \A j \in Jobs : j # id => stage'[j] = stage[j]
  BY <1>1, <1>3, Zenon DEF ClientTypeOK, Go, Stages, Live, Running, Callback
<1>5. Slots'
  BY <1>1, <1>2, <1>4, SlotKept, Zenon DEF Slots
<1>6. ClientTypeOK'
  BY <1>1, <1>2, <1>4, Popped, Zenon DEF ClientTypeOK
<1>7. Commands'
  BY <1>1, <1>2, <1>3, <1>4, PopCommands, Zenon
<1>8. \A j \in asked : j \in Jobs /\ j # id /\ stage'[j] = stage[j]
  BY <1>1, <1>3, <1>4, Zenon DEF Pauses, ClientTypeOK
<1>9. ResumeNotLost'
  BY <1>1, <1>2, <1>8, PopResume, Zenon
<1>10. Pauses'
  <2>1. {j \in Jobs : stage'[j] = "paused"} = {j \in Jobs : stage[j] = "paused"}
    BY <1>3, <1>4, Zenon
  <2>2. \A j \in Jobs : stage'[j] = "paused" <=> stage[j] = "paused"
    BY <1>3, <1>4, Zenon
  <2>3. QED
    BY <1>1, <1>2, <1>8, <2>1, <2>2, Zenon DEF Pauses
<1>11. TriesOf(id)'
  BY <1>2, <1>3, <1>4, TryFacts, Zenon DEF TriesOf, attempts
<1>12. Tries'
  BY <1>1, <1>2, <1>4, <1>11, MoveTries, Zenon
<1>13. QED
  BY <1>5, <1>6, <1>7, <1>9, <1>10, <1>12, Zenon DEF ClientInv

(* Shutdown: the slots of all tasks are released; a request that is still   *)
(* in the channel keeps its slot.                                            *)
LEMMA AbandonKeeps ==
  ASSUME ClientInv, Free, chan # <<>>, chan' = Tail(chan), UNCHANGED hostside,
         Head(chan).t = "Shutdown", Abandon
  PROVE  ClientInv'
<1>1. ClientTypeOK /\ Commands /\ Tries /\ Pauses /\ Slots /\ ResumeNotLost
  BY Zenon DEF ClientInv
<1>2. /\ UNCHANGED <<closed, next_id, asked, bad, failed, wire, paused, PAUSED, resumed, CANCELLED>>
      /\ client_worker' = "down"
      /\ inflight' = inflight - Cardinality({id \in Jobs : stage[id] \in Running})
      /\ stage' = [id \in Jobs |-> IF stage[id] \in Running THEN "gone" ELSE stage[id]]
  BY Zenon DEF hostside, pauses, Abandon
<1>3. /\ stage \in [Jobs -> Stages] /\ stage' \in [Jobs -> Stages]
      /\ \A j \in Jobs : stage'[j] = IF stage[j] \in Running THEN "gone" ELSE stage[j]
  BY <1>1, <1>2, Zenon DEF ClientTypeOK, Stages
<1> DEFINE L == {j \in Jobs : stage[j] \in Live}
           R == {j \in Jobs : stage[j] \in Running}
           Q == {j \in Jobs : stage'[j] \in Live}
<1>4. L \in SUBSET Jobs /\ Q \in SUBSET Jobs /\ Q = L \ R /\ L \cap R = R
  BY <1>3, Zenon DEF Live, Running, Callback
<1>5. Count(Live) = Cardinality(L) /\ Count(Live)' = Cardinality(Q)
      /\ inflight' = inflight - Cardinality(R)
  BY <1>2, Zenon DEF Count
<1> HIDE DEF L, R, Q
<1>6. IsFiniteSet(L) /\ Cardinality(L) \in 0 .. MaxJobs /\ Cardinality(Q) \in 0 .. MaxJobs
  BY <1>4, Counting, Zenon
<1>7. Cardinality(Q) = Cardinality(L) - Cardinality(R) /\ Cardinality(R) \in Nat
  <2>1. Cardinality(L \ R) = Cardinality(L) - Cardinality(L \cap R) /\ IsFiniteSet(L \cap R)
    BY <1>6, FS_Difference, FS_Intersection, Zenon
  <2>2. QED
    BY <1>4, <2>1, FS_CardinalityType, Zenon
<1>8. Slots'
  BY <1>1, <1>2, <1>5, <1>6, <1>7 DEF Slots, ClientTypeOK
<1>9. ClientTypeOK'
  <2>1. inflight' \in 0 .. MaxJobs + MaxBad
    BY <1>1, <1>2, <1>5, <1>6, <1>8, ClientAssumption DEF Slots, ClientTypeOK
  <2>2. QED
    BY <1>1, <1>2, <1>3, <2>1, Popped, Zenon DEF ClientTypeOK
<1>10. Commands'
  <2>1. \A j \in Jobs : /\ stage'[j] = "none" <=> stage[j] = "none"
                        /\ stage[j] = "queued" => stage'[j] = "queued"
    BY <1>3, Zenon DEF Running, Callback
  <2>2. QED
    BY <1>1, <1>2, <2>1, PopCommands, Zenon
<1>11. Tries'
  <2>1. ASSUME NEW j \in Jobs
        PROVE  TriesOf(j)'
    BY <1>1, <1>2, <1>3, Zenon DEF Tries, TriesOf, attempts
  <2>2. QED
    BY <2>1, Zenon DEF Tries
<1>12. Pauses' /\ ResumeNotLost'
  BY <1>2, Zenon DEF Pauses, ResumeNotLost
<1>13. QED
  BY <1>8, <1>9, <1>10, <1>11, <1>12, Zenon DEF ClientInv

(* The worker takes a command. *)
LEMMA CommandLoopKeeps ==
  ASSUME ClientInv, CommandLoop
  PROVE  ClientInv'
<1>1. Free /\ chan # <<>> /\ chan' = Tail(chan) /\ Execute(Head(chan)) /\ UNCHANGED hostside
  BY Zenon DEF CommandLoop
<1>2. /\ Head(chan).t \in {"Send", "Cancel", "Resume", "Shutdown"}
      /\ Head(chan).t # "Shutdown" => Head(chan).id \in Jobs
      /\ CANCELLED \subseteq Jobs
  BY <1>1, Popped, Zenon DEF ClientInv, ClientTypeOK, Commands, ClientCommands
<1>3. CASE Head(chan).t = "Cancel"
  BY <1>1, <1>2, <1>3, WakeKeeps, Zenon DEF Execute
<1>4. CASE Head(chan).t = "Resume"
  BY <1>1, <1>2, <1>4, WakeKeeps, Zenon DEF Execute
<1>5. CASE Head(chan).t = "Send"
  BY <1>1, <1>2, <1>5, SpawnKeeps, Zenon DEF Execute, Go
<1>6. CASE Head(chan).t = "Shutdown"
  BY <1>1, <1>6, AbandonKeeps, Zenon DEF Execute
<1>7. QED
  BY <1>2, <1>3, <1>4, <1>5, <1>6, Zenon

-----------------------------------------------------------------------------
(* GearioHttpClient as it is created *)
LEMMA ClientInvInit == ClientInit => ClientInv
<1> SUFFICES ASSUME ClientInit
             PROVE  ClientInv
  BY Zenon
<1>1. ClientTypeOK
  <2>1. stage \in [Jobs -> Stages]
    BY Zenon DEF ClientInit, Stages
  <2>2. failed \in [Jobs -> 0 .. MaxRetries + 1] /\ wire \in [Jobs -> 0 .. MaxRetries + 1]
    BY ClientAssumption DEF ClientInit
  <2>3. chan \in Seq(ClientCommands)
    BY DEF ClientInit
  <2>4. next_id \in 1 .. MaxJobs + 1 /\ inflight \in 0 .. MaxJobs + MaxBad /\ paused \in 0 .. MaxJobs
        /\ bad \in 0 .. MaxBad
    BY ClientAssumption DEF ClientInit
  <2>5. QED
    BY <2>1, <2>2, <2>3, <2>4, Zenon DEF ClientInit, ClientTypeOK
<1>2. Commands
  BY ClientAssumption DEF ClientInit, Commands, Jobs
<1>3. Tries
  BY Attempts, ClientAssumption DEF ClientInit, Tries, TriesOf
<1>4. {id \in Jobs : stage[id] = "paused"} = {} /\ {id \in Jobs : stage[id] \in Live} = {}
  BY Zenon DEF ClientInit, Live, Running, Callback
<1>5. Slots
  BY <1>4, FS_EmptySet DEF ClientInit, Slots, Count
<1>6. Pauses
  <2>1. paused = Cardinality({id \in Jobs : stage[id] = "paused"})
    BY <1>4, FS_EmptySet, Zenon DEF ClientInit
  <2>2. \A id \in Jobs : stage[id] # "paused"
    BY <1>4, Zenon
  <2>3. QED
    BY <2>1, <2>2, Zenon DEF ClientInit, Pauses
<1>7. ResumeNotLost
  BY Zenon DEF ClientInit, ResumeNotLost
<1>8. QED
  BY <1>1, <1>2, <1>3, <1>5, <1>6, <1>7, Zenon DEF ClientInv

LEMMA ClientInvStep == ClientInv /\ [ClientNext]_cvars => ClientInv'
<1> SUFFICES ASSUME ClientInv, [ClientNext]_cvars
             PROVE  ClientInv'
  BY Zenon
<1>1. CASE Host
  BY <1>1, HostSendKeeps, SendInvalidKeeps, HostKeeps, Zenon DEF Host
<1>2. CASE CommandLoop
  BY <1>2, CommandLoopKeeps, Zenon
<1>3. ASSUME NEW id \in Jobs, Local(id)
      PROVE  ClientInv'
  BY <1>3, StageKeeps, ReleaseKeeps, PauseKeeps, EndPauseKeeps, Zenon DEF Local
<1>4. ASSUME NEW id \in Jobs, Network(id)
      PROVE  ClientInv'
  BY <1>4, StageKeeps, CheckoutKeeps, SendFailedKeeps, Zenon DEF Network
<1>5. CASE UNCHANGED cvars
  <2>1. UNCHANGED <<closed, next_id, asked, bad, stage, failed, wire, paused, PAUSED, resumed,
                    CANCELLED, chan, inflight, client_worker>>
    BY <1>5, Zenon DEF cvars, hostside, job, pauses
  <2>2. ClientTypeOK' /\ Commands' /\ Pauses' /\ ResumeNotLost' /\ Slots'
    BY <2>1, Zenon DEF ClientInv, ClientTypeOK, Commands, Pauses, ResumeNotLost, Slots, Count
  <2>3. Tries'
    BY <2>1, Zenon DEF ClientInv, Tries, TriesOf, attempts
  <2>4. QED
    BY <2>2, <2>3, Zenon DEF ClientInv
<1>6. QED
  BY <1>1, <1>2, <1>3, <1>4, <1>5, Zenon DEF ClientNext

(* The inductive invariant of the client *)
LEMMA ClientInvariant == ClientSpec => []ClientInv
BY ClientInvInit, ClientInvStep, PTL DEF ClientSpec

(* The counter of requests in flight is exact: a slot is held by a request   *)
(* that was accepted and is not over, or was lost to a refused one.  This is *)
(* what max_inflight_requests relies on.                                     *)
THEOREM SlotsAreAccounted == ClientSpec => []SlotsAccounted
<1>1. ClientInv => SlotsAccounted
  BY Zenon DEF ClientInv, Slots, SlotsAccounted
<1>2. QED
  BY <1>1, ClientInvariant, PTL

(* run_job hands a request over at most once if its method is not idempotent,*)
(* and at most max_retries + 1 times otherwise.                              *)
THEOREM RetriesAreBounded == ClientSpec => []SentAtMost
<1>1. ClientInv => SentAtMost
  BY ClientAssumption DEF ClientInv, ClientTypeOK, Tries, TriesOf, attempts, SentAtMost
<1>2. QED
  BY <1>1, ClientInvariant, PTL

(* A Resume is in the channel or has reached the sender of the paused        *)
(* request, also when the host was faster than the return of on_chunk.       *)
THEOREM ResumeIsNotLost == ClientSpec => []ResumeNotLost
<1>1. ClientInv => ResumeNotLost
  BY Zenon DEF ClientInv
<1>2. QED
  BY <1>1, ClientInvariant, PTL
=============================================================================
