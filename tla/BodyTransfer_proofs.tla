------------------------ MODULE BodyTransfer_proofs ------------------------
(***************************************************************************)
(* A body arrives as it was written, for pieces, lengths and bodies of any *)
(* size.                                                                   *)
(*                                                                         *)
(* The bytes received and not decoded, and those still on their way, are   *)
(* one Stream.  Remains says what it holds for a reader in the state of    *)
(* PayloadDecoder: for a chunked body there is a way through the stream,   *)
(* byte by byte (Way), that starts where the decoder is and, while the     *)
(* connection is open, ends where TransferEncoding is (Written); for the   *)
(* others the stream is the rest of the body, and then what follows it.    *)
(* The writer prolongs the way, and decode takes its beginning.            *)
(***************************************************************************)
EXTENDS BodyTransfer, SequenceTheorems, TLAPS

Stream == src \o wire

(* Where a reader of a chunked body is, byte by byte; a body that was given  *)
(* up has "more" where a size should be.                                     *)
Steps == [st : ChunkedStates \union {"SizeCr", "SizeLf", "Dead"}, rem : Nat, pos : Nat]
At(st, rem, pos) == [st |-> st, rem |-> rem, pos |-> pos]
Eats(a, b, c) ==
    \/ a.st = "Size" /\ b.t = "hex" /\ a.rem = 0 /\ c = At("SizeCr", b.v, a.pos)
    \/ a.st = "SizeCr" /\ b = CR /\ c = At("SizeLf", a.rem, a.pos)
    \/ a.st = "SizeLf" /\ b = LF /\ c = At(IF a.rem > 0 THEN "Body" ELSE "EndCr", a.rem, a.pos)
    \/ a.st = "Body" /\ b = Byte("data", a.pos + 1)
    \/ a.st \in DOMAIN After /\ b = Expected[a.st] /\ c = At(After[a.st], a.rem, a.pos)
    \/ a.st \in {"Size", "Dead"} /\ b.t = "more" /\ c.st = "Dead"
    \/ a.st = "End" /\ b.t = "more" /\ c = a

(* The body of a chunk, j bytes on *)
Fed(a, j) == At(IF j = a.rem THEN "BodyCr" ELSE "Body", a.rem - j, a.pos + j)

(* q is its way through the bytes s. *)
Way(q, s) ==
    /\ q \in [1 .. Len(s) + 1 -> Steps]
    /\ \A k \in 1 .. Len(s) : Eats(q[k], s[k], q[k + 1])
    /\ \A k \in 1 .. Len(s) + 1 : q[k].st = "Body" =>
        /\ q[k].rem > 0
        /\ \A j \in 0 .. q[k].rem : k + j <= Len(s) + 1 => q[k + j] = Fed(q[k], j)
    /\ \A k \in 1 .. Len(s) + 1 : q[k].st = "End" => \A j \in k .. Len(s) : s[j].t = "more"

(* The writer (m bytes made, in state w, the connection p) is ahead of it,   *)
(* and at its end if it can still write.                                     *)
Closing(a) == a.st \in {"EndCr", "EndLf", "End"} \/ (a.st \in {"SizeCr", "SizeLf"} /\ a.rem = 0)
Behind(a, m, w) == a.pos <= m /\ (Closing(a) => a.pos = m /\ w = "done")
Written(a, m, w, p) ==
    p = "open" => (w = "body" => a = At("Size", 0, m)) /\ (w = "done" => a = At("End", 0, m))
Parsed(d, s, g, m, w, p) ==
    \E q : /\ Way(q, s) /\ q[1] = At(d.st, d.rem, g)
           /\ \A k \in 1 .. Len(s) + 1 : Behind(q[k], m, w)
           /\ Written(q[Len(s) + 1], m, w, p)

(* The other framings: n bytes of the body, and then others; r of its length *)
(* are not written yet                                                       *)
Filled(s, g, n) ==
    /\ n <= Len(s)
    /\ \A k \in 1 .. Len(s) : IF k <= n THEN s[k] = Byte("data", g + k) ELSE s[k].t = "more"
Counted(d, s, g, m, r, p) ==
    \E n \in Nat :
        /\ Filled(s, g, n) /\ g + n <= m /\ n + r <= d.rem
        /\ n < Len(s) => r = 0 /\ n = d.rem
        /\ p = "open" => n + r = d.rem /\ (r > 0 => g + n = m)
Flowing(s, g, m, p) == Filled(s, g, Len(s)) /\ g + Len(s) <= m /\ (p = "open" => g + Len(s) = m)

Remaining(d, s, g, m, w, p, r) ==
    CASE d.kind = "Chunked" -> Parsed(d, s, g, m, w, p)
      [] d.kind = "Length" -> Counted(d, s, g, m, r, p)
      [] d.kind = "Eof" -> Flowing(s, g, m, p)
Remains(d, s, g) == Remaining(d, s, g, made, writer, peer, te.rem)

Clear(s) == \A k \in 1 .. Len(s) : s[k].t \in {"data", "more"}
BodyTypes ==
    /\ te \in [kind : Kinds, rem : Nat, eof : BOOLEAN] /\ made \in 0 .. MaxBody
    /\ writer \in {"body", "done", "failed"} /\ peer \in {"open", "closed", "lost"}
    /\ wire \in Seq(Alphabet) /\ src \in Seq(Alphabet) /\ got \in Seq(Alphabet)
    /\ dec \in Decoders /\ dec.kind = te.kind
    /\ reader \in {"reading", "end", "decode", "incomplete"}
    /\ http_10 \in BOOLEAN /\ keepalive \in BOOLEAN
    /\ conn \in {"held", "pooled", "dropped"}
    /\ Clear(got) /\ (te.kind # "Chunked" => Clear(Stream))
    /\ te.kind = "Chunked" => (te.eof <=> writer = "done")
    /\ te.kind = "Length" => (writer = "done" => te.rem = 0)

Finished ==
    /\ Whole /\ (te.kind = "Length" \/ (Len(got) = made /\ writer = "done"))
    /\ \A k \in 1 .. Len(Stream) : Stream[k].t = "more"

BodyInv ==
    /\ BodyTypes
    /\ ~Blurred =>
        /\ \A k \in 1 .. Len(got) : got[k] = Byte("data", k)
        /\ Len(got) <= made
        /\ reader = "reading" => Remains(dec, Stream, Len(got))
        /\ reader = "end" /\ (~http_10 \/ conn = "pooled") => Finished
        /\ conn = "pooled" => reader = "end" /\ src = <<>>

-----------------------------------------------------------------------------
(* A function on 1 .. n is a sequence. *)
LEMMA FunctionIsSeq ==
  ASSUME NEW S, NEW n \in Nat, NEW f \in [1 .. n -> S]
  PROVE  f \in Seq(S) /\ Len(f) = n
OBVIOUS

(* What Bytes is *)
LEMMA BytesSeq ==
  ASSUME NEW t \in ByteTypes, NEW i \in Nat, NEW n \in Nat
  PROVE  /\ Bytes(t, i, n) \in Seq(Alphabet) /\ Len(Bytes(t, i, n)) = n
         /\ \A k \in 1 .. n : Bytes(t, i, n)[k] = Byte(t, i + k)
<1>1. \A k \in 1 .. n : i + k \in Nat
  OBVIOUS
<1>2. \A k \in 1 .. n : Byte(t, i + k) \in Alphabet
  BY <1>1, Zenon DEF Byte, Alphabet
<1>3. Bytes(t, i, n) \in [1 .. n -> Alphabet] /\ \A k \in 1 .. n : Bytes(t, i, n)[k] = Byte(t, i + k)
  BY <1>2, Zenon DEF Bytes
<1> QED
  BY <1>3, FunctionIsSeq, Zenon

(* A sequence cut behind its n-th byte *)
LEMMA Cut ==
  ASSUME NEW s \in Seq(Alphabet), NEW n \in 0 .. Len(s)
  PROVE  /\ SubSeq(s, 1, n) \in Seq(Alphabet) /\ Len(SubSeq(s, 1, n)) = n
         /\ \A i \in 1 .. n : SubSeq(s, 1, n)[i] = s[i]
         /\ Rest(s, n) \in Seq(Alphabet) /\ Len(Rest(s, n)) = Len(s) - n
         /\ \A i \in 1 .. Len(s) - n : Rest(s, n)[i] = s[n + i]
<1>1. Len(s) \in Nat /\ \A i \in 1 .. Len(s) : s[i] \in Alphabet
  OBVIOUS
<1>2. /\ SubSeq(s, 1, n) \in Seq(Alphabet) /\ Len(SubSeq(s, 1, n)) = n
      /\ \A i \in 1 .. n : SubSeq(s, 1, n)[i] = s[i]
  <2>1. \A i \in 1 .. n : s[i] \in Alphabet
    BY <1>1
  <2>2. /\ SubSeq(s, 1, n) \in Seq(Alphabet)
        /\ Len(SubSeq(s, 1, n)) = IF 1 <= n THEN n - 1 + 1 ELSE 0
        /\ \A i \in 1 .. n - 1 + 1 : SubSeq(s, 1, n)[i] = s[1 + i - 1]
    BY <1>1, <2>1, SubSeqProperties
  <2>3. \A i \in 1 .. n : i \in 1 .. n - 1 + 1 /\ 1 + i - 1 = i
    BY <1>1
  <2> QED
    BY <1>1, <2>2, <2>3
<1>3. /\ Rest(s, n) \in Seq(Alphabet) /\ Len(Rest(s, n)) = Len(s) - n
      /\ \A i \in 1 .. Len(s) - n : Rest(s, n)[i] = s[n + i]
  <2>1. \A i \in n + 1 .. Len(s) : s[i] \in Alphabet
    BY <1>1
  <2>2. /\ SubSeq(s, n + 1, Len(s)) \in Seq(Alphabet)
        /\ Len(SubSeq(s, n + 1, Len(s))) = IF n + 1 <= Len(s) THEN Len(s) - (n + 1) + 1 ELSE 0
        /\ \A i \in 1 .. Len(s) - (n + 1) + 1 : SubSeq(s, n + 1, Len(s))[i] = s[n + 1 + i - 1]
    BY <1>1, <2>1, SubSeqProperties
  <2>3. \A i \in 1 .. Len(s) - n : i \in 1 .. Len(s) - (n + 1) + 1 /\ n + 1 + i - 1 = n + i
    BY <1>1
  <2> QED
    BY <1>1, <2>2, <2>3 DEF Rest
<1> QED
  BY <1>2, <1>3, Zenon

(* Two sequences, one behind the other *)
LEMMA Joined ==
  ASSUME NEW s \in Seq(Alphabet), NEW t \in Seq(Alphabet)
  PROVE  /\ s \o t \in Seq(Alphabet) /\ Len(s \o t) = Len(s) + Len(t)
         /\ \A i \in 1 .. Len(s) : (s \o t)[i] = s[i]
         /\ \A i \in 1 .. Len(t) : (s \o t)[Len(s) + i] = t[i]
<1>1. Len(s) \in Nat /\ Len(t) \in Nat
  OBVIOUS
<1>2. /\ s \o t \in Seq(Alphabet) /\ Len(s \o t) = Len(s) + Len(t)
      /\ \A i \in 1 .. Len(s) + Len(t) : (s \o t)[i] = IF i <= Len(s) THEN s[i] ELSE t[i - Len(s)]
  BY ConcatProperties, Zenon
<1>3. \A i \in 1 .. Len(s) : i \in 1 .. Len(s) + Len(t) /\ i <= Len(s)
  BY <1>1
<1>4. \A i \in 1 .. Len(t) : /\ Len(s) + i \in 1 .. Len(s) + Len(t) /\ ~(Len(s) + i <= Len(s))
                             /\ (Len(s) + i) - Len(s) = i
  BY <1>1
<1> QED
  BY <1>2, <1>3, <1>4, Zenon

(* What is taken from the buffer is taken from the stream. *)
LEMMA RestJoined ==
  ASSUME NEW s \in Seq(Alphabet), NEW t \in Seq(Alphabet), NEW n \in 0 .. Len(s)
  PROVE  Rest(s, n) \o t = Rest(s \o t, n) /\ n \in 0 .. Len(s \o t)
<1>1. PICK l \in Nat, m \in Nat : l = Len(s) /\ m = Len(t) /\ n \in 0 .. l
  OBVIOUS
<1>2. PICK r \in Seq(Alphabet) : r = Rest(s, n) /\ Len(r) = l - n /\ \A i \in 1 .. l - n : r[i] = s[n + i]
  BY <1>1, Cut, Zenon
<1>3. PICK u : u = s \o t
  BY Zenon
<1>4. /\ u \in Seq(Alphabet) /\ Len(u) = l + m /\ \A i \in 1 .. l : u[i] = s[i]
      /\ \A i \in 1 .. m : u[l + i] = t[i]
  <2>1. /\ s \o t \in Seq(Alphabet) /\ Len(s \o t) = Len(s) + Len(t)
        /\ \A i \in 1 .. Len(s) : (s \o t)[i] = s[i]
        /\ \A i \in 1 .. Len(t) : (s \o t)[Len(s) + i] = t[i]
    BY Joined, Zenon
  <2> QED
    BY <1>1, <1>3, <2>1, Zenon
<1>5. n \in 0 .. l + m
  BY <1>1
<1>6. PICK x : x = Rest(u, n)
  BY Zenon
<1>7. x \in Seq(Alphabet) /\ Len(x) = (l + m) - n /\ \A i \in 1 .. (l + m) - n : x[i] = u[n + i]
  <2>1. n \in 0 .. Len(u)
    BY <1>4, <1>5, Zenon
  <2>2. /\ Rest(u, n) \in Seq(Alphabet) /\ Len(Rest(u, n)) = Len(u) - n
        /\ \A i \in 1 .. Len(u) - n : Rest(u, n)[i] = u[n + i]
    BY <1>4, <2>1, Cut, Zenon
  <2> QED
    BY <1>4, <1>6, <2>2, Zenon
<1>8. PICK y : y = r \o t
  BY Zenon
<1>9. /\ y \in Seq(Alphabet) /\ Len(y) = (l - n) + m /\ \A i \in 1 .. l - n : y[i] = r[i]
      /\ \A i \in 1 .. m : y[(l - n) + i] = t[i]
  <2>1. /\ r \o t \in Seq(Alphabet) /\ Len(r \o t) = Len(r) + Len(t)
        /\ \A i \in 1 .. Len(r) : (r \o t)[i] = r[i]
        /\ \A i \in 1 .. Len(t) : (r \o t)[Len(r) + i] = t[i]
    BY Joined, Zenon
  <2> QED
    BY <1>1, <1>2, <1>8, <2>1, Zenon
<1>10. ASSUME NEW i \in 1 .. (l - n) + m PROVE y[i] = x[i]
  <2>1. i \in 1 .. (l + m) - n
    BY <1>1
  <2>2. CASE i <= l - n
    <3>1. i \in 1 .. l - n /\ n + i \in 1 .. l
      BY <1>1, <2>2
    <3> QED
      BY <1>2, <1>4, <1>7, <1>9, <2>1, <3>1, Zenon
  <2>3. CASE ~(i <= l - n)
    <3>1. PICK j \in 1 .. m : i = (l - n) + j /\ n + i = l + j
      <4>1. i - (l - n) \in 1 .. m /\ i = (l - n) + (i - (l - n)) /\ n + i = l + (i - (l - n))
        BY <1>1, <2>3
      <4> QED
        BY <4>1, Zenon
    <3> QED
      BY <1>4, <1>7, <1>9, <2>1, <3>1, Zenon
  <2> QED
    BY <2>2, <2>3, Zenon
<1>11. (l - n) + m = (l + m) - n
  BY <1>1
<1>12. x = y
  BY <1>7, <1>9, <1>10, <1>11, SeqEqual, Zenon
<1> QED
  BY <1>2, <1>3, <1>4, <1>5, <1>6, <1>8, <1>12, Zenon

-----------------------------------------------------------------------------
(* What is left of a way after n bytes *)
LEMMA WayShift ==
  ASSUME NEW s \in Seq(Alphabet), NEW q, Way(q, s), NEW n \in 0 .. Len(s)
  PROVE  Way([k \in 1 .. Len(Rest(s, n)) + 1 |-> q[n + k]], Rest(s, n))
<1>1. PICK l \in Nat, m \in Nat : l = Len(s) /\ m = l - n /\ n \in 0 .. l
  <2>1. Len(s) \in Nat /\ Len(s) - n \in Nat
    OBVIOUS
  <2> QED
    BY <2>1, Zenon
<1>2. PICK r : r = Rest(s, n)
  BY Zenon
<1>3. Len(r) = m /\ \A i \in 1 .. m : r[i] = s[n + i]
  BY <1>1, <1>2, Cut, Zenon
<1>4. /\ q \in [1 .. l + 1 -> Steps] /\ \A k \in 1 .. l : Eats(q[k], s[k], q[k + 1])
      /\ \A k \in 1 .. l + 1 : q[k].st = "Body" =>
            q[k].rem > 0 /\ \A j \in 0 .. q[k].rem : k + j <= l + 1 => q[k + j] = Fed(q[k], j)
      /\ \A k \in 1 .. l + 1 : q[k].st = "End" => \A j \in k .. l : s[j].t = "more"
  BY <1>1, Zenon DEF Way
<1>5. PICK p : p = [k \in 1 .. m + 1 |-> q[n + k]]
  BY Zenon
<1>6. \A k \in 1 .. m + 1 : n + k \in 1 .. l + 1
  BY <1>1
<1>7. p \in [1 .. m + 1 -> Steps] /\ \A k \in 1 .. m + 1 : p[k] = q[n + k]
  BY <1>4, <1>5, <1>6, Zenon
<1>8. ASSUME NEW k \in 1 .. m PROVE Eats(p[k], r[k], p[k + 1])
  <2>1. k \in 1 .. m + 1 /\ k + 1 \in 1 .. m + 1 /\ n + k \in 1 .. l /\ n + (k + 1) = (n + k) + 1
    BY <1>1
  <2> QED
    BY <1>3, <1>4, <1>7, <2>1, Zenon
<1>9. ASSUME NEW k \in 1 .. m + 1, p[k].st = "Body"
      PROVE  p[k].rem > 0 /\ \A j \in 0 .. p[k].rem : k + j <= m + 1 => p[k + j] = Fed(p[k], j)
  <2>1. p[k] = q[n + k] /\ n + k \in 1 .. l + 1 /\ q[n + k].st = "Body"
    BY <1>6, <1>7, <1>9, Zenon
  <2>2. /\ q[n + k].rem > 0
        /\ \A j \in 0 .. q[n + k].rem : (n + k) + j <= l + 1 => q[(n + k) + j] = Fed(q[n + k], j)
    BY <1>4, <2>1, Zenon
  <2>3. ASSUME NEW j \in 0 .. p[k].rem, k + j <= m + 1 PROVE p[k + j] = Fed(p[k], j)
    <3>1. PICK i \in Nat : i = j
      OBVIOUS
    <3>2. k + i \in 1 .. m + 1 /\ n + (k + i) = (n + k) + i /\ (n + k) + i <= l + 1
      BY <1>1, <2>3, <3>1
    <3> QED
      BY <1>7, <2>1, <2>2, <3>1, <3>2, Zenon
  <2> QED
    BY <2>1, <2>2, <2>3, Zenon
<1>10. ASSUME NEW k \in 1 .. m + 1, p[k].st = "End", NEW j \in k .. m PROVE r[j].t = "more"
  <2>1. j \in 1 .. m
    BY <1>1
  <2>2. n + j \in n + k .. l
    BY <1>1
  <2> QED
    BY <1>3, <1>4, <1>6, <1>7, <1>10, <2>1, <2>2, Zenon
<1>11. Way(p, r)
  BY <1>3, <1>7, <1>8, <1>9, <1>10, Zenon DEF Way
<1> QED
  BY <1>2, <1>3, <1>5, <1>11, Zenon

(* What is left of the stream after n bytes *)
LEMMA ParsedShift ==
  ASSUME NEW s \in Seq(Alphabet), NEW q, Way(q, s), NEW n \in 0 .. Len(s),
         NEW m, NEW w, NEW p,
         \A k \in 1 .. Len(s) + 1 : Behind(q[k], m, w), Written(q[Len(s) + 1], m, w, p),
         NEW d, NEW g, q[n + 1] = At(d.st, d.rem, g)
  PROVE  Parsed(d, Rest(s, n), g, m, w, p)
<1>1. PICK l \in Nat, h \in Nat : l = Len(s) /\ h = l - n /\ n \in 0 .. l
  <2>1. Len(s) \in Nat /\ Len(s) - n \in Nat
    OBVIOUS
  <2> QED
    BY <2>1, Zenon
<1>2. PICK f, r : r = Rest(s, n) /\ f = [k \in 1 .. Len(r) + 1 |-> q[n + k]]
  BY Zenon
<1>3. Way(f, r) /\ Len(r) = h
  BY <1>1, <1>2, WayShift, Cut, Zenon
<1>4. f[1] = q[n + 1] /\ f[h + 1] = q[l + 1]
  <2>1. 1 \in 1 .. h + 1 /\ h + 1 \in 1 .. h + 1 /\ n + (h + 1) = l + 1
    BY <1>1
  <2> QED
    BY <1>2, <1>3, <2>1, Zenon
<1>5. ASSUME NEW k \in 1 .. h + 1 PROVE Behind(f[k], m, w)
  <2>1. n + k \in 1 .. l + 1
    BY <1>1
  <2>2. f[k] = q[n + k]
    BY <1>2, <1>3, Zenon
  <2> QED
    BY <1>1, <2>1, <2>2, Zenon
<1> QED
  BY <1>1, <1>2, <1>3, <1>4, <1>5, Zenon DEF Parsed

(* What has come of a way when the others are lost *)
LEMMA WayPrefix ==
  ASSUME NEW s \in Seq(Alphabet), NEW t \in Seq(Alphabet), NEW q, Way(q, s \o t)
  PROVE  Way([k \in 1 .. Len(s) + 1 |-> q[k]], s)
<1>1. PICK l \in Nat, m \in Nat : l = Len(s) /\ m = Len(t)
  OBVIOUS
<1>2. PICK u : u = s \o t
  BY Zenon
<1>3. Len(u) = l + m /\ \A i \in 1 .. l : u[i] = s[i]
  <2>1. Len(s \o t) = Len(s) + Len(t) /\ \A i \in 1 .. Len(s) : (s \o t)[i] = s[i]
    BY Joined, Zenon
  <2> QED
    BY <1>1, <1>2, <2>1, Zenon
<1>4. /\ q \in [1 .. (l + m) + 1 -> Steps] /\ \A k \in 1 .. l + m : Eats(q[k], u[k], q[k + 1])
      /\ \A k \in 1 .. (l + m) + 1 : q[k].st = "Body" =>
            q[k].rem > 0 /\ \A j \in 0 .. q[k].rem : k + j <= (l + m) + 1 => q[k + j] = Fed(q[k], j)
      /\ \A k \in 1 .. (l + m) + 1 : q[k].st = "End" => \A j \in k .. l + m : u[j].t = "more"
  BY <1>2, <1>3, Zenon DEF Way
<1>5. PICK p : p = [k \in 1 .. l + 1 |-> q[k]]
  BY Zenon
<1>6. \A k \in 1 .. l + 1 : k \in 1 .. (l + m) + 1
  BY <1>1
<1>7. p \in [1 .. l + 1 -> Steps] /\ \A k \in 1 .. l + 1 : p[k] = q[k]
  BY <1>4, <1>5, <1>6, Zenon
<1>8. ASSUME NEW k \in 1 .. l PROVE Eats(p[k], s[k], p[k + 1])
  <2>1. k \in 1 .. l + 1 /\ k + 1 \in 1 .. l + 1 /\ k \in 1 .. l + m
    BY <1>1
  <2> QED
    BY <1>3, <1>4, <1>7, <2>1, Zenon
<1>9. ASSUME NEW k \in 1 .. l + 1, p[k].st = "Body"
      PROVE  p[k].rem > 0 /\ \A j \in 0 .. p[k].rem : k + j <= l + 1 => p[k + j] = Fed(p[k], j)
  <2>1. /\ p[k] = q[k] /\ q[k].rem > 0
        /\ \A j \in 0 .. q[k].rem : k + j <= (l + m) + 1 => q[k + j] = Fed(q[k], j)
    BY <1>4, <1>6, <1>7, <1>9, Zenon
  <2>2. ASSUME NEW j \in 0 .. p[k].rem, k + j <= l + 1 PROVE p[k + j] = Fed(p[k], j)
    <3>1. PICK i \in Nat : i = j
      OBVIOUS
    <3>2. k + i \in 1 .. l + 1 /\ k + i <= (l + m) + 1
      BY <1>1, <2>2, <3>1
    <3> QED
      BY <1>7, <2>1, <3>1, <3>2, Zenon
  <2> QED
    BY <2>1, <2>2, Zenon
<1>10. ASSUME NEW k \in 1 .. l + 1, p[k].st = "End", NEW j \in k .. l PROVE s[j].t = "more"
  <2>1. j \in 1 .. l /\ j \in k .. l + m
    BY <1>1
  <2> QED
    BY <1>3, <1>4, <1>6, <1>7, <1>10, <2>1, Zenon
<1>11. Way(p, s)
  BY <1>1, <1>7, <1>8, <1>9, <1>10, Zenon DEF Way
<1> QED
  BY <1>1, <1>5, <1>11, Zenon

(* The writer goes on where it is, not within the body of a chunk. *)
Longer(p, q, s, e, t) ==
    /\ Way(p, s \o t) /\ p[1] = q[1] /\ p[Len(s) + Len(t) + 1] = e[Len(t) + 1]
    /\ \A k \in 1 .. Len(s) + Len(t) + 1 :
        (\E i \in 1 .. Len(s) + 1 : p[k] = q[i]) \/ (\E i \in 1 .. Len(t) + 1 : p[k] = e[i])

(* A way goes on with another that starts where it ends. *)
LEMMA WayJoin ==
  ASSUME NEW s \in Seq(Alphabet), NEW t \in Seq(Alphabet), NEW q, Way(q, s), NEW e, Way(e, t),
         q[Len(s) + 1] = e[1], q[Len(s) + 1].st # "Body",
         \/ \A k \in 1 .. Len(s) + 1 : q[k].st # "End"
         \/ \A j \in 1 .. Len(t) : t[j].t = "more"
  PROVE  \E p : Longer(p, q, s, e, t)
<1>1. PICK l \in Nat, m \in Nat : l = Len(s) /\ m = Len(t)
  OBVIOUS
<1>2. PICK u : u = s \o t
  BY Zenon
<1>3. Len(u) = l + m /\ (\A i \in 1 .. l : u[i] = s[i]) /\ \A i \in 1 .. m : u[l + i] = t[i]
  <2>1. /\ Len(s \o t) = Len(s) + Len(t) /\ \A i \in 1 .. Len(s) : (s \o t)[i] = s[i]
        /\ \A i \in 1 .. Len(t) : (s \o t)[Len(s) + i] = t[i]
    BY Joined, Zenon
  <2> QED
    BY <1>1, <1>2, <2>1, Zenon
<1>4. /\ q \in [1 .. l + 1 -> Steps] /\ \A k \in 1 .. l : Eats(q[k], s[k], q[k + 1])
      /\ \A k \in 1 .. l + 1 : q[k].st = "Body" =>
            q[k].rem > 0 /\ \A j \in 0 .. q[k].rem : k + j <= l + 1 => q[k + j] = Fed(q[k], j)
      /\ \A k \in 1 .. l + 1 : q[k].st = "End" => \A j \in k .. l : s[j].t = "more"
  BY <1>1, Zenon DEF Way
<1>5. /\ e \in [1 .. m + 1 -> Steps] /\ \A k \in 1 .. m : Eats(e[k], t[k], e[k + 1])
      /\ \A k \in 1 .. m + 1 : e[k].st = "Body" =>
            e[k].rem > 0 /\ \A j \in 0 .. e[k].rem : k + j <= m + 1 => e[k + j] = Fed(e[k], j)
      /\ \A k \in 1 .. m + 1 : e[k].st = "End" => \A j \in k .. m : t[j].t = "more"
  BY <1>1, Zenon DEF Way
<1>6. /\ q[l + 1] = e[1] /\ q[l + 1].st # "Body"
      /\ (\A k \in 1 .. l + 1 : q[k].st # "End") \/ (\A j \in 1 .. m : t[j].t = "more")
  BY <1>1, Zenon
<1>7. PICK p : p = [k \in 1 .. (l + m) + 1 |-> IF k <= l THEN q[k] ELSE e[k - l]]
  BY Zenon
<1>8. ASSUME NEW k \in 1 .. l + 1 PROVE p[k] = q[k]
  <2>1. k \in 1 .. (l + m) + 1
    BY <1>1
  <2>2. CASE k <= l
    BY <1>7, <2>1, <2>2, Zenon
  <2>3. CASE ~(k <= l)
    <3>1. k = l + 1 /\ (l + 1) - l = 1
      BY <1>1, <2>3
    <3> QED
      BY <1>6, <1>7, <2>1, <2>3, <3>1, Zenon
  <2> QED
    BY <2>2, <2>3, Zenon
<1>9. ASSUME NEW k \in 1 .. m + 1 PROVE p[l + k] = e[k]
  <2>1. l + k \in 1 .. (l + m) + 1 /\ ~(l + k <= l) /\ (l + k) - l = k
    BY <1>1
  <2> QED
    BY <1>7, <2>1, Zenon
<1>10. ASSUME NEW k \in 1 .. (l + m) + 1
       PROVE  k \in 1 .. l + 1 \/ \E i \in 1 .. m + 1 : k = l + i
  <2>1. CASE k <= l + 1
    BY <1>1, <2>1
  <2>2. CASE ~(k <= l + 1)
    <3>1. k - l \in 1 .. m + 1 /\ k = l + (k - l)
      BY <1>1, <2>2
    <3> QED
      BY <3>1, Zenon
  <2> QED
    BY <2>1, <2>2, Zenon
<1>11. p \in [1 .. (l + m) + 1 -> Steps]
  <2>1. ASSUME NEW k \in 1 .. (l + m) + 1 PROVE p[k] \in Steps
    <3>1. CASE k \in 1 .. l + 1
      BY <1>4, <1>8, <3>1, Zenon
    <3>2. ASSUME NEW i \in 1 .. m + 1, k = l + i PROVE p[k] \in Steps
      BY <1>5, <1>9, <3>2, Zenon
    <3> QED
      BY <1>10, <3>1, <3>2, Zenon
  <2> QED
    BY <1>7, <2>1, Zenon
<1>12. ASSUME NEW k \in 1 .. l + m PROVE Eats(p[k], u[k], p[k + 1])
  <2>1. CASE k <= l
    <3>1. k \in 1 .. l /\ k \in 1 .. l + 1 /\ k + 1 \in 1 .. l + 1
      BY <1>1, <2>1
    <3> QED
      BY <1>3, <1>4, <1>8, <3>1, Zenon
  <2>2. CASE ~(k <= l)
    <3>1. PICK i \in 1 .. m : k = l + i /\ k + 1 = l + (i + 1) /\ i \in 1 .. m + 1 /\ i + 1 \in 1 .. m + 1
      <4>1. /\ k - l \in 1 .. m /\ k = l + (k - l) /\ k + 1 = l + ((k - l) + 1)
            /\ k - l \in 1 .. m + 1 /\ (k - l) + 1 \in 1 .. m + 1
        BY <1>1, <2>2
      <4> QED
        BY <4>1, Zenon
    <3> QED
      BY <1>3, <1>5, <1>9, <3>1, ZenonT(60)
  <2> QED
    BY <2>1, <2>2, Zenon
<1>13. ASSUME NEW k \in 1 .. (l + m) + 1, p[k].st = "Body"
       PROVE  p[k].rem > 0 /\ \A j \in 0 .. p[k].rem : k + j <= (l + m) + 1 => p[k + j] = Fed(p[k], j)
  <2>1. CASE k \in 1 .. l + 1
    <3>1. /\ p[k] = q[k] /\ q[k].rem > 0
          /\ \A j \in 0 .. q[k].rem : k + j <= l + 1 => q[k + j] = Fed(q[k], j)
      BY <1>4, <1>8, <1>13, <2>1, Zenon
    <3>2. PICK r \in Nat : r = q[k].rem
      BY <1>4, <2>1, Zenon DEF Steps
    <3>3. k + r <= l + 1
      <4> SUFFICES ASSUME ~(k + r <= l + 1) PROVE FALSE
        BY Zenon
      <4>1. PICK j \in Nat : j = (l + 1) - k /\ k + j = l + 1 /\ j # r /\ j \in 0 .. r /\ k + j <= l + 1
        <5>1. /\ (l + 1) - k \in Nat /\ k + ((l + 1) - k) = l + 1 /\ (l + 1) - k # r
              /\ (l + 1) - k \in 0 .. r /\ k + ((l + 1) - k) <= l + 1
          BY <1>1, <2>1, <3>2
        <5> QED
          BY <5>1, Zenon
      <4>2. q[l + 1] = Fed(q[k], j)
        BY <3>1, <3>2, <4>1, Zenon
      <4>3. Fed(q[k], j).st = "Body"
        BY <3>2, <4>1, Zenon DEF Fed, At
      <4> QED
        BY <1>6, <4>2, <4>3, Zenon
    <3>4. ASSUME NEW j \in 0 .. r PROVE p[k + j] = Fed(p[k], j)
      <4>1. k + j \in 1 .. l + 1 /\ k + j <= l + 1
        BY <1>1, <2>1, <3>3
      <4> QED
        BY <1>8, <3>1, <3>2, <4>1, Zenon
    <3> QED
      BY <3>1, <3>2, <3>4, Zenon
  <2>2. ASSUME NEW i \in 1 .. m + 1, k = l + i
        PROVE  p[k].rem > 0 /\ \A j \in 0 .. p[k].rem : k + j <= (l + m) + 1 => p[k + j] = Fed(p[k], j)
    <3>1. /\ p[k] = e[i] /\ e[i].rem > 0
          /\ \A j \in 0 .. e[i].rem : i + j <= m + 1 => e[i + j] = Fed(e[i], j)
      BY <1>5, <1>9, <1>13, <2>2, Zenon
    <3>2. ASSUME NEW j \in 0 .. p[k].rem, k + j <= (l + m) + 1 PROVE p[k + j] = Fed(p[k], j)
      <4>1. PICK h \in Nat : h = j
        OBVIOUS
      <4>2. i + h \in 1 .. m + 1 /\ i + h <= m + 1 /\ k + h = l + (i + h)
        BY <1>1, <2>2, <3>2, <4>1
      <4> QED
        BY <1>9, <3>1, <4>1, <4>2, Zenon
    <3> QED
      BY <3>1, <3>2, Zenon
  <2> QED
    BY <1>10, <2>1, <2>2, Zenon
<1>14. ASSUME NEW k \in 1 .. (l + m) + 1, p[k].st = "End", NEW j \in k .. l + m PROVE u[j].t = "more"
  <2>1. CASE k \in 1 .. l + 1
    <3>1. q[k].st = "End" /\ \A i \in 1 .. m : t[i].t = "more"
      BY <1>6, <1>8, <1>14, <2>1, Zenon
    <3>2. CASE j <= l
      <4>1. j \in 1 .. l /\ j \in k .. l
        BY <1>1, <2>1, <3>2
      <4> QED
        BY <1>3, <1>4, <2>1, <3>1, <4>1, ZenonT(60)
    <3>3. CASE ~(j <= l)
      <4>1. j - l \in 1 .. m /\ j = l + (j - l)
        BY <1>1, <2>1, <3>3
      <4> QED
        BY <1>3, <3>1, <4>1, Zenon
    <3> QED
      BY <3>2, <3>3, Zenon
  <2>2. ASSUME NEW i \in 1 .. m + 1, k = l + i PROVE u[j].t = "more"
    <3>1. PICK h \in 1 .. m : j = l + h /\ h \in i .. m
      <4>1. j - l \in 1 .. m /\ j = l + (j - l) /\ j - l \in i .. m
        BY <1>1, <2>2
      <4> QED
        BY <4>1, Zenon
    <3>2. e[i].st = "End"
      BY <1>9, <1>14, <2>2, Zenon
    <3>3. t[h].t = "more"
      BY <1>5, <3>1, <3>2, Zenon
    <3> QED
      BY <1>3, <3>1, <3>3, Zenon
  <2> QED
    BY <1>10, <2>1, <2>2, Zenon
<1>15. Way(p, u)
  BY <1>3, <1>11, <1>12, <1>13, <1>14, Zenon DEF Way
<1>16. p[1] = q[1] /\ p[(l + m) + 1] = e[m + 1]
  <2>1. 1 \in 1 .. l + 1 /\ m + 1 \in 1 .. m + 1 /\ (l + m) + 1 = l + (m + 1)
    BY <1>1
  <2> QED
    BY <1>8, <1>9, <2>1, Zenon
<1>17. \A k \in 1 .. (l + m) + 1 :
          (\E i \in 1 .. l + 1 : p[k] = q[i]) \/ (\E i \in 1 .. m + 1 : p[k] = e[i])
  <2>1. ASSUME NEW k \in 1 .. (l + m) + 1, NEW i \in 1 .. m + 1, k = l + i PROVE p[k] = e[i]
    BY <1>9, <2>1, Zenon
  <2>2. ASSUME NEW k \in 1 .. l + 1 PROVE p[k] = q[k]
    BY <1>8, Zenon
  <2> QED
    BY <1>10, <2>1, <2>2, Zenon
<1>18. p[Len(s) + Len(t) + 1] = e[Len(t) + 1] /\ Way(p, s \o t)
  BY <1>1, <1>2, <1>15, <1>16, Zenon
<1>19. Longer(p, q, s, e, t)
  BY <1>1, <1>16, <1>17, <1>18, Zenon DEF Longer
<1> QED
  BY <1>19, Zenon

-----------------------------------------------------------------------------
(* What TransferEncoding puts out for a chunk of n bytes *)
ChunkOf(g, n) == <<Byte("hex", n), CR, LF>> \o Bytes("data", g, n) \o <<CR, LF>>

(* What TransferEncoding::encode writes for n bytes, place by place *)
LEMMA ChunkBytes ==
  ASSUME NEW g \in Nat, NEW n \in Nat
  PROVE  /\ ChunkOf(g, n) \in Seq(Alphabet) /\ Len(ChunkOf(g, n)) = n + 5
         /\ ChunkOf(g, n)[1] = Byte("hex", n) /\ ChunkOf(g, n)[2] = CR /\ ChunkOf(g, n)[3] = LF
         /\ \A k \in 1 .. n : ChunkOf(g, n)[3 + k] = Byte("data", g + k)
         /\ ChunkOf(g, n)[n + 4] = CR /\ ChunkOf(g, n)[n + 5] = LF
<1>1. Byte("hex", n) \in Alphabet /\ CR \in Alphabet /\ LF \in Alphabet
  BY Zenon DEF Byte, Alphabet, CR, LF, ByteTypes
<1>2. PICK a, b, c : a = <<Byte("hex", n), CR, LF>> /\ b = Bytes("data", g, n) /\ c = <<CR, LF>>
  BY Zenon
<1>3. /\ a \in Seq(Alphabet) /\ Len(a) = 3 /\ a[1] = Byte("hex", n) /\ a[2] = CR /\ a[3] = LF
      /\ c \in Seq(Alphabet) /\ Len(c) = 2 /\ c[1] = CR /\ c[2] = LF
  BY <1>1, <1>2
<1>4. b \in Seq(Alphabet) /\ Len(b) = n /\ \A k \in 1 .. n : b[k] = Byte("data", g + k)
  <2>1. "data" \in ByteTypes
    BY Zenon DEF ByteTypes
  <2> QED
    BY <1>2, <2>1, BytesSeq, Zenon
<1>5. PICK u : u = a \o b
  BY Zenon
<1>6. /\ u \in Seq(Alphabet) /\ Len(u) = 3 + n /\ \A k \in 1 .. 3 : u[k] = a[k]
      /\ \A k \in 1 .. n : u[3 + k] = b[k]
  <2>1. /\ a \o b \in Seq(Alphabet) /\ Len(a \o b) = Len(a) + Len(b)
        /\ \A i \in 1 .. Len(a) : (a \o b)[i] = a[i]
        /\ \A i \in 1 .. Len(b) : (a \o b)[Len(a) + i] = b[i]
    BY <1>3, <1>4, Joined, Zenon
  <2> QED
    BY <1>3, <1>4, <1>5, <2>1, Zenon
<1>7. PICK v : v = u \o c
  BY Zenon
<1>8. /\ v \in Seq(Alphabet) /\ Len(v) = (3 + n) + 2 /\ \A k \in 1 .. 3 + n : v[k] = u[k]
      /\ \A k \in 1 .. 2 : v[(3 + n) + k] = c[k]
  <2>1. /\ u \o c \in Seq(Alphabet) /\ Len(u \o c) = Len(u) + Len(c)
        /\ \A i \in 1 .. Len(u) : (u \o c)[i] = u[i]
        /\ \A i \in 1 .. Len(c) : (u \o c)[Len(u) + i] = c[i]
    BY <1>3, <1>6, Joined, Zenon
  <2> QED
    BY <1>3, <1>6, <1>7, <2>1, Zenon
<1>9. /\ (3 + n) + 2 = n + 5 /\ n + 4 = (3 + n) + 1 /\ n + 5 = (3 + n) + 2
      /\ 1 \in 1 .. 3 /\ 2 \in 1 .. 3 /\ 3 \in 1 .. 3 /\ 1 \in 1 .. 2 /\ 2 \in 1 .. 2
      /\ 1 \in 1 .. 3 + n /\ 2 \in 1 .. 3 + n /\ 3 \in 1 .. 3 + n /\ \A k \in 1 .. n : 3 + k \in 1 .. 3 + n
  OBVIOUS
<1>10. v = ChunkOf(g, n)
  BY <1>2, <1>5, <1>7, Zenon DEF ChunkOf
<1>11. v[1] = Byte("hex", n) /\ v[2] = CR /\ v[3] = LF /\ v[n + 4] = CR /\ v[n + 5] = LF /\ Len(v) = n + 5
  BY <1>3, <1>6, <1>8, <1>9, ZenonT(60)
<1>12. \A k \in 1 .. n : v[3 + k] = Byte("data", g + k)
  BY <1>4, <1>6, <1>8, <1>9, ZenonT(60)
<1> QED
  BY <1>8, <1>10, <1>11, <1>12, Zenon

(* read_body_cr and the steps behind it, written out *)
LEMMA Afters ==
  /\ DOMAIN After = {"BodyCr", "BodyLf", "EndCr", "EndLf"}
  /\ After["BodyCr"] = "BodyLf" /\ After["BodyLf"] = "Size" /\ After["EndCr"] = "EndLf" /\ After["EndLf"] = "End"
  /\ Expected["BodyCr"] = CR /\ Expected["BodyLf"] = LF /\ Expected["EndCr"] = CR /\ Expected["EndLf"] = LF
BY Zenon DEF After, Expected

(* The fields of a place *)
LEMMA AtFields ==
  ASSUME NEW st, NEW rem, NEW pos
  PROVE  At(st, rem, pos).st = st /\ At(st, rem, pos).rem = rem /\ At(st, rem, pos).pos = pos
BY Zenon DEF At

(* A place is one of the Steps. *)
LEMMA AtSteps ==
  ASSUME NEW st \in ChunkedStates \union {"SizeCr", "SizeLf", "Dead"}, NEW rem \in Nat, NEW pos \in Nat
  PROVE  At(st, rem, pos) \in Steps
BY Zenon DEF At, Steps

(* Before the last chunk a place is not among the closing ones. *)
LEMMA AtOpen ==
  ASSUME NEW st, NEW rem \in Nat, NEW pos \in Nat, NEW h, pos <= h,
         st \in {"Size", "Body", "BodyCr", "BodyLf"} \/ (st \in {"SizeCr", "SizeLf"} /\ rem # 0)
  PROVE  LET a == At(st, rem, pos) IN a \in Steps /\ a.pos <= h /\ ~Closing(a) /\ a.st # "End"
<1>1. st \in ChunkedStates \union {"SizeCr", "SizeLf", "Dead"}
  BY Zenon DEF ChunkedStates
<1>2. PICK a : a = At(st, rem, pos) /\ a.st = st /\ a.rem = rem /\ a.pos = pos
  BY AtFields
<1>3. a \in Steps
  BY <1>1, <1>2, AtSteps, Zenon
<1> QED
  BY <1>2, <1>3, Zenon DEF Closing

(* How a reader takes the bytes of a chunk, one by one *)
LEMMA Eaten ==
  ASSUME NEW g, NEW n
  PROVE  /\ Eats(At("Size", 0, g), Byte("hex", n), At("SizeCr", n, g))
         /\ Eats(At("SizeCr", n, g), CR, At("SizeLf", n, g))
         /\ n > 0 => Eats(At("SizeLf", n, g), LF, At("Body", n, g))
         /\ ~(n > 0) => Eats(At("SizeLf", n, g), LF, At("EndCr", n, g))
         /\ \A c : Eats(At("Body", n, g), Byte("data", g + 1), c)
         /\ Eats(At("BodyCr", n, g), CR, At("BodyLf", n, g))
         /\ Eats(At("BodyLf", n, g), LF, At("Size", n, g))
         /\ Eats(At("EndCr", n, g), CR, At("EndLf", n, g))
         /\ Eats(At("EndLf", n, g), LF, At("End", n, g))
<1>1. Byte("hex", n).t = "hex" /\ Byte("hex", n).v = n
  BY Zenon DEF Byte
<1>2. Eats(At("Size", 0, g), Byte("hex", n), At("SizeCr", n, g))
  BY <1>1, AtFields DEF Eats
<1>3. Eats(At("SizeCr", n, g), CR, At("SizeLf", n, g))
  BY AtFields DEF Eats
<1>4. n > 0 => Eats(At("SizeLf", n, g), LF, At("Body", n, g))
  BY AtFields DEF Eats
<1>5. ~(n > 0) => Eats(At("SizeLf", n, g), LF, At("EndCr", n, g))
  BY AtFields DEF Eats
<1>6. \A c : Eats(At("Body", n, g), Byte("data", g + 1), c)
  BY AtFields DEF Eats
<1>7. /\ Eats(At("BodyCr", n, g), CR, At("BodyLf", n, g))
      /\ Eats(At("BodyLf", n, g), LF, At("Size", n, g))
      /\ Eats(At("EndCr", n, g), CR, At("EndLf", n, g))
      /\ Eats(At("EndLf", n, g), LF, At("End", n, g))
  BY AtFields, Afters, SMTT(30) DEF Eats
<1> QED
  BY <1>2, <1>3, <1>4, <1>5, <1>6, <1>7, Zenon

(* From one chunk size to the next *)
Writes(e, t, g, h) ==
    /\ Way(e, t) /\ e[1] = At("Size", 0, g) /\ e[Len(t) + 1] = At("Size", 0, h)
    /\ \A k \in 1 .. Len(t) + 1 : e[k].pos <= h /\ ~Closing(e[k])

(* There is a way through a chunk: from one size line to the next. *)
LEMMA ChunkWay ==
  ASSUME NEW g \in Nat, NEW n \in Nat \ {0}
  PROVE  \E e : Writes(e, ChunkOf(g, n), g, g + n)
<1>1. PICK t : t = ChunkOf(g, n)
  BY Zenon
<1>2. /\ t \in Seq(Alphabet) /\ Len(t) = n + 5 /\ t[1] = Byte("hex", n) /\ t[2] = CR /\ t[3] = LF
      /\ \A k \in 1 .. n : t[3 + k] = Byte("data", g + k)
      /\ t[n + 4] = CR /\ t[n + 5] = LF
  <2>1. n \in Nat
    BY Zenon
  <2> QED
    BY <1>1, <2>1, ChunkBytes, Zenon
<1>3. PICK a : a = At("Body", n, g)
  BY Zenon
<1>4. PICK e : e = [k \in 1 .. n + 6 |->
                      IF k = 1 THEN At("Size", 0, g) ELSE IF k = 2 THEN At("SizeCr", n, g)
                      ELSE IF k = 3 THEN At("SizeLf", n, g)
                      ELSE IF k <= n + 4 THEN Fed(a, k - 4)
                      ELSE IF k = n + 5 THEN At("BodyLf", 0, g + n) ELSE At("Size", 0, g + n)]
  BY Zenon
<1>5. /\ e[1] = At("Size", 0, g) /\ e[2] = At("SizeCr", n, g) /\ e[3] = At("SizeLf", n, g)
      /\ e[n + 5] = At("BodyLf", 0, g + n) /\ e[n + 6] = At("Size", 0, g + n)
  <2>1. /\ 1 \in 1 .. n + 6 /\ 2 \in 1 .. n + 6 /\ 3 \in 1 .. n + 6 /\ n + 5 \in 1 .. n + 6 /\ n + 6 \in 1 .. n + 6
        /\ 2 # 1 /\ 3 # 1 /\ 3 # 2 /\ n + 5 # 1 /\ n + 5 # 2 /\ n + 5 # 3 /\ ~(n + 5 <= n + 4)
        /\ n + 6 # 1 /\ n + 6 # 2 /\ n + 6 # 3 /\ ~(n + 6 <= n + 4) /\ n + 6 # n + 5
    OBVIOUS
  <2> QED
    BY <1>4, <2>1, Zenon
<1>6. ASSUME NEW j \in 0 .. n PROVE e[4 + j] = At(IF j = n THEN "BodyCr" ELSE "Body", n - j, g + j)
  <2>1. /\ 4 + j \in 1 .. n + 6 /\ 4 + j # 1 /\ 4 + j # 2 /\ 4 + j # 3 /\ 4 + j <= n + 4 /\ (4 + j) - 4 = j
    OBVIOUS
  <2>2. e[4 + j] = Fed(a, j)
    BY <1>4, <2>1, Zenon
  <2> QED
    BY <1>3, <2>2, Zenon DEF Fed, At
<1>7. ASSUME NEW k \in 1 .. n + 6
      PROVE  k \in {1, 2, 3, n + 5, n + 6} \/ \E j \in 0 .. n : k = 4 + j
  <2>1. CASE k >= 4 /\ k <= n + 4
    <3>1. k - 4 \in 0 .. n /\ k = 4 + (k - 4)
      BY <2>1
    <3> QED
      BY <3>1, Zenon
  <2>2. CASE ~(k >= 4 /\ k <= n + 4)
    BY <2>2
  <2> QED
    BY <2>1, <2>2, Zenon
<1>8. \A j \in 0 .. n : n - j \in Nat /\ g + j \in Nat /\ g + j <= g + n
  OBVIOUS
<1>9. ASSUME NEW k \in 1 .. n + 6 PROVE e[k] \in Steps /\ e[k].pos <= g + n /\ ~Closing(e[k]) /\ e[k].st # "End"
  <2>1. CASE k \in {1, 2, 3, n + 5, n + 6}
    <3>1. g + n \in Nat /\ 0 \in Nat /\ g <= g + n /\ g + n <= g + n /\ n # 0
      OBVIOUS
    <3>2. CASE k = 1
      BY <1>5, <3>1, <3>2, AtOpen, Zenon
    <3>3. CASE k = 2
      BY <1>5, <3>1, <3>3, AtOpen, Zenon
    <3>4. CASE k = 3
      BY <1>5, <3>1, <3>4, AtOpen, Zenon
    <3>5. CASE k = n + 5
      BY <1>5, <3>1, <3>5, AtOpen, Zenon
    <3>6. CASE k = n + 6
      BY <1>5, <3>1, <3>6, AtOpen, Zenon
    <3> QED
      BY <2>1, <3>2, <3>3, <3>4, <3>5, <3>6, Zenon
  <2>2. ASSUME NEW j \in 0 .. n, k = 4 + j
        PROVE  e[k] \in Steps /\ e[k].pos <= g + n /\ ~Closing(e[k]) /\ e[k].st # "End"
    <3>1. PICK st \in {"Body", "BodyCr"} : e[k] = At(st, n - j, g + j)
      BY <1>6, <2>2, Zenon
    <3> QED
      BY <1>8, <3>1, AtOpen, Zenon
  <2> QED
    BY <1>7, <2>1, <2>2, Zenon
<1>10. e \in [1 .. n + 6 -> Steps]
  <2>1. \A k \in 1 .. n + 6 : e[k] \in Steps
    BY <1>9, Zenon
  <2> QED
    BY <1>4, <2>1, Zenon
<1>11. ASSUME NEW k \in 1 .. n + 5 PROVE Eats(e[k], t[k], e[k + 1])
  <2>1. CASE k = 1
    <3>1. 1 + 1 = 2
      OBVIOUS
    <3> QED
      BY <1>2, <1>5, <2>1, <3>1, Eaten, Zenon
  <2>2. CASE k = 2
    <3>1. 2 + 1 = 3
      OBVIOUS
    <3> QED
      BY <1>2, <1>5, <2>2, <3>1, Eaten, Zenon
  <2>3. CASE k = 3
    <3>1. 3 + 1 = 4 + 0 /\ 0 \in 0 .. n /\ 0 # n /\ n > 0 /\ n - 0 = n /\ g + 0 = g
      OBVIOUS
    <3>2. e[3 + 1] = At("Body", n, g)
      BY <1>6, <3>1, Zenon
    <3>3. Eats(At("SizeLf", n, g), LF, At("Body", n, g))
      BY <3>1, Eaten, Zenon
    <3> QED
      BY <1>2, <1>5, <2>3, <3>2, <3>3, Zenon
  <2>4. CASE k >= 4 /\ k < n + 4
    <3>1. PICK j \in 0 .. n : k = 4 + j /\ j # n /\ j + 1 \in 1 .. n /\ k = 3 + (j + 1) /\ g + (j + 1) = (g + j) + 1
      <4>1. /\ k - 4 \in 0 .. n /\ k = 4 + (k - 4) /\ k - 4 # n /\ (k - 4) + 1 \in 1 .. n /\ k = 3 + ((k - 4) + 1)
            /\ g + ((k - 4) + 1) = (g + (k - 4)) + 1
        BY <2>4
      <4> QED
        BY <4>1, Zenon
    <3>2. e[k] = At("Body", n - j, g + j) /\ t[k] = Byte("data", (g + j) + 1)
      <4>1. e[4 + j] = At("Body", n - j, g + j)
        BY <1>6, <3>1, Zenon
      <4>2. t[3 + (j + 1)] = Byte("data", g + (j + 1))
        BY <1>2, <3>1, Zenon
      <4> QED
        BY <3>1, <4>1, <4>2, Zenon
    <3> QED
      BY <3>2, Eaten, Zenon
  <2>5. CASE k = n + 4
    <3>1. n \in 0 .. n /\ n - n = 0 /\ n + 4 = 4 + n /\ (n + 4) + 1 = n + 5
      OBVIOUS
    <3>2. e[n + 4] = At("BodyCr", 0, g + n)
      BY <1>6, <3>1, Zenon
    <3>3. Eats(At("BodyCr", 0, g + n), CR, At("BodyLf", 0, g + n))
      BY Eaten, Zenon
    <3> QED
      BY <1>2, <1>5, <2>5, <3>1, <3>2, <3>3, Zenon
  <2>6. CASE k = n + 5
    <3>1. (n + 5) + 1 = n + 6
      OBVIOUS
    <3>2. Eats(At("BodyLf", 0, g + n), LF, At("Size", 0, g + n))
      BY Eaten, Zenon
    <3> QED
      BY <1>2, <1>5, <2>6, <3>1, <3>2, Zenon
  <2> QED
    BY <2>1, <2>2, <2>3, <2>4, <2>5, <2>6
<1>12. ASSUME NEW k \in 1 .. n + 6, e[k].st = "Body"
       PROVE  e[k].rem > 0 /\ \A j \in 0 .. e[k].rem : k + j <= n + 6 => e[k + j] = Fed(e[k], j)
  <2>1. k \notin {1, 2, 3, n + 5, n + 6}
    BY <1>5, <1>12, AtFields
  <2>2. PICK i \in 0 .. n : k = 4 + i
    BY <1>7, <2>1, Zenon
  <2>3. i # n /\ e[k] = At("Body", n - i, g + i)
    BY <1>6, <1>12, <2>2, AtFields
  <2>4. e[k].rem = n - i /\ e[k].pos = g + i /\ n - i > 0
    <3>1. n - i > 0
      BY <2>3
    <3> QED
      BY <2>3, <3>1, AtFields
  <2>5. ASSUME NEW j \in 0 .. n - i PROVE e[k + j] = Fed(e[k], j)
    <3>1. /\ i + j \in 0 .. n /\ k + j = 4 + (i + j) /\ (i + j = n <=> j = n - i)
          /\ n - (i + j) = (n - i) - j /\ g + (i + j) = (g + i) + j
      BY <2>2
    <3>2. e[4 + (i + j)] = At(IF i + j = n THEN "BodyCr" ELSE "Body", n - (i + j), g + (i + j))
      BY <1>6, <3>1, Zenon
    <3> QED
      BY <2>4, <3>1, <3>2, Zenon DEF Fed
  <2> QED
    BY <2>4, <2>5, Zenon
<1>13. (n + 5) + 1 = n + 6
  OBVIOUS
<1>14. Way(e, t)
  <2>1. \A k \in 1 .. n + 6 : e[k].st = "End" => \A j \in k .. n + 5 : t[j].t = "more"
    BY <1>9, Zenon
  <2> QED
    BY <1>2, <1>10, <1>11, <1>12, <1>13, <2>1, Zenon DEF Way
<1>15. Writes(e, t, g, g + n)
  BY <1>2, <1>5, <1>9, <1>13, <1>14, Zenon DEF Writes
<1> QED
  BY <1>1, <1>15, Zenon

(* The last chunk *)
LastChunk == <<Byte("hex", 0), CR, LF, CR, LF>>
Closes(e, t, g) ==
    /\ Way(e, t) /\ e[1] = At("Size", 0, g) /\ e[Len(t) + 1] = At("End", 0, g)
    /\ \A k \in 1 .. Len(t) + 1 : e[k].pos = g

(* There is a way through the last chunk: from its size line to the end. *)
LEMMA EndWay ==
  ASSUME NEW g \in Nat
  PROVE  LastChunk \in Seq(Alphabet) /\ \E e : Closes(e, LastChunk, g)
<1>1. Byte("hex", 0) \in Alphabet /\ CR \in Alphabet /\ LF \in Alphabet
  BY Zenon DEF Byte, Alphabet, CR, LF, ByteTypes
<1>2. PICK t : t = LastChunk
  BY Zenon
<1>3. /\ t \in Seq(Alphabet) /\ Len(t) = 5
      /\ t[1] = Byte("hex", 0) /\ t[2] = CR /\ t[3] = LF /\ t[4] = CR /\ t[5] = LF
  BY <1>1, <1>2 DEF LastChunk
<1>4. PICK sts : sts = <<"Size", "SizeCr", "SizeLf", "EndCr", "EndLf", "End">>
  BY Zenon
<1>5. /\ sts[1] = "Size" /\ sts[2] = "SizeCr" /\ sts[3] = "SizeLf"
      /\ sts[4] = "EndCr" /\ sts[5] = "EndLf" /\ sts[6] = "End"
  BY <1>4, Zenon
<1>6. PICK e : e = [k \in 1 .. 6 |-> At(sts[k], 0, g)]
  BY Zenon
<1>7. 1 .. 6 = {1, 2, 3, 4, 5, 6} /\ 1 .. 5 = {1, 2, 3, 4, 5} /\ 5 + 1 = 6
  OBVIOUS
<1>8. /\ e[1] = At("Size", 0, g) /\ e[2] = At("SizeCr", 0, g) /\ e[3] = At("SizeLf", 0, g)
      /\ e[4] = At("EndCr", 0, g) /\ e[5] = At("EndLf", 0, g) /\ e[6] = At("End", 0, g)
  BY <1>5, <1>6, <1>7, Zenon
<1>9. \A k \in 1 .. 6 : sts[k] \in {"Size", "SizeCr", "SizeLf", "EndCr", "EndLf", "End"}
                        /\ (sts[k] = "End" => k = 6) /\ sts[k] # "Body"
  BY <1>5, <1>7, Zenon
<1>10. \A k \in 1 .. 6 : e[k].pos = g /\ e[k].st = sts[k] /\ e[k] \in Steps
  <2> SUFFICES ASSUME NEW k \in 1 .. 6 PROVE e[k].pos = g /\ e[k].st = sts[k] /\ e[k] \in Steps
    BY Zenon
  <2>1. e[k] = At(sts[k], 0, g)
    BY <1>6, Zenon
  <2>2. sts[k] \in ChunkedStates \union {"SizeCr", "SizeLf", "Dead"} /\ 0 \in Nat
    BY <1>9, Zenon DEF ChunkedStates
  <2>3. At(sts[k], 0, g) \in Steps
    BY <2>2, AtSteps, Zenon
  <2>4. At(sts[k], 0, g).pos = g /\ At(sts[k], 0, g).st = sts[k]
    BY AtFields
  <2> QED
    BY <2>1, <2>3, <2>4, Zenon
<1>11. e \in [1 .. 6 -> Steps]
  BY <1>6, <1>10, Zenon
<1>12. ASSUME NEW k \in 1 .. 5 PROVE Eats(e[k], t[k], e[k + 1])
  <2>1. ~(0 > 0) /\ 1 + 1 = 2 /\ 2 + 1 = 3 /\ 3 + 1 = 4 /\ 4 + 1 = 5 /\ 5 + 1 = 6
    OBVIOUS
  <2>2. Eats(e[1], t[1], e[2]) /\ Eats(e[2], t[2], e[3]) /\ Eats(e[3], t[3], e[4])
    BY <1>3, <1>8, <2>1, Eaten, Zenon
  <2>3. Eats(e[4], t[4], e[5]) /\ Eats(e[5], t[5], e[6])
    BY <1>3, <1>8, Eaten, Zenon
  <2>4. k = 1 \/ k = 2 \/ k = 3 \/ k = 4 \/ k = 5
    OBVIOUS
  <2> QED
    BY <2>1, <2>2, <2>3, <2>4, Zenon
<1>13. ASSUME NEW k \in 1 .. 6, e[k].st = "End", NEW j \in k .. 5 PROVE t[j].t = "more"
  <2>1. k = 6
    BY <1>9, <1>10, <1>13, Zenon
  <2> QED
    BY <1>13, <2>1
<1>14. Way(e, t)
  BY <1>3, <1>7, <1>9, <1>10, <1>11, <1>12, <1>13, ZenonT(60) DEF Way
<1>15. Closes(e, t, g)
  BY <1>3, <1>7, <1>8, <1>10, <1>14, Zenon DEF Closes
<1> QED
  BY <1>2, <1>3, <1>15, Zenon

(* Bytes of another message, behind the body or where it was given up *)
Follows(e, t, a) ==
    /\ Way(e, t) /\ e[1] = a
    /\ \A k \in 1 .. Len(t) + 1 : e[k] = a \/ e[k] = At("Dead", 0, a.pos)
    /\ a.st = "End" => e[Len(t) + 1] = a

(* What follows a body leads nowhere, and what breaks it off ends the way. *)
LEMMA MoreWay ==
  ASSUME NEW t \in Seq(Alphabet), \A k \in 1 .. Len(t) : t[k].t = "more",
         NEW a \in Steps, a.st \in {"Size", "End"}
  PROVE  \E e : Follows(e, t, a)
<1>1. PICK l \in Nat : l = Len(t)
  OBVIOUS
<1>2. PICK b : b = At("Dead", 0, a.pos) /\ b.st = "Dead"
  BY AtFields
<1>3. b \in Steps
  <2>1. a.pos \in Nat /\ 0 \in Nat
    BY Zenon DEF Steps
  <2> QED
    BY <1>2, <2>1, AtSteps, Zenon
<1>4. PICK e : e = [k \in 1 .. l + 1 |-> IF k = 1 \/ a.st = "End" THEN a ELSE b]
  BY Zenon
<1>5. e \in [1 .. l + 1 -> Steps] /\ \A k \in 1 .. l + 1 : e[k] = IF k = 1 \/ a.st = "End" THEN a ELSE b
  BY <1>3, <1>4, Zenon
<1>6. ASSUME NEW k \in 1 .. l PROVE Eats(e[k], t[k], e[k + 1])
  <2>1. k \in 1 .. l + 1 /\ k + 1 \in 1 .. l + 1 /\ k + 1 # 1 /\ t[k].t = "more"
    BY <1>1
  <2>2. e[k] = (IF k = 1 \/ a.st = "End" THEN a ELSE b) /\ e[k + 1] = (IF a.st = "End" THEN a ELSE b)
    BY <1>5, <2>1, Zenon
  <2>3. CASE a.st = "End"
    <3>1. e[k] = a /\ e[k + 1] = a
      BY <2>2, <2>3, Zenon
    <3> QED
      BY <2>1, <2>3, <3>1, Zenon DEF Eats
  <2>4. CASE a.st = "Size"
    <3>1. e[k] \in {a, b} /\ e[k + 1] = b
      BY <2>2, <2>4, Zenon
    <3>2. e[k].st \in {"Size", "Dead"} /\ e[k + 1].st = "Dead"
      BY <1>2, <2>4, <3>1, Zenon
    <3> QED
      BY <2>1, <3>2, Zenon DEF Eats
  <2> QED
    BY <2>3, <2>4, Zenon
<1>7. \A k \in 1 .. l + 1 : e[k] = a \/ e[k] = b
  BY <1>5, Zenon
<1>8. \A k \in 1 .. l + 1 : e[k].st # "Body"
  BY <1>2, <1>7, Zenon
<1>9. \A k \in 1 .. l + 1 : \A j \in k .. l : t[j].t = "more"
  <2>1. \A k \in 1 .. l + 1 : \A j \in k .. l : j \in 1 .. l
    OBVIOUS
  <2> QED
    BY <1>1, <2>1, Zenon
<1>10. Way(e, t)
  BY <1>1, <1>5, <1>6, <1>8, <1>9, Zenon DEF Way
<1>11. 1 \in 1 .. l + 1 /\ l + 1 \in 1 .. l + 1
  OBVIOUS
<1>12. Follows(e, t, a)
  BY <1>1, <1>2, <1>5, <1>7, <1>10, <1>11, Zenon DEF Follows
<1> QED
  BY <1>12, Zenon

-----------------------------------------------------------------------------
(* The writer's steps, seen from the reader of a chunked body *)
LEMMA ChunkParsed ==
  ASSUME NEW s \in Seq(Alphabet), NEW d, NEW g, NEW m \in Nat, NEW n \in Nat \ {0},
         Parsed(d, s, g, m, "body", "open")
  PROVE  Parsed(d, s \o ChunkOf(m, n), g, m + n, "body", "open")
<1>1. PICK q : /\ Way(q, s) /\ q[1] = At(d.st, d.rem, g)
               /\ \A k \in 1 .. Len(s) + 1 : Behind(q[k], m, "body")
               /\ Written(q[Len(s) + 1], m, "body", "open")
  BY Zenon DEF Parsed
<1>2. PICK t \in Seq(Alphabet) : t = ChunkOf(m, n)
  <2>1. n \in Nat
    BY Zenon
  <2> QED
    BY <2>1, ChunkBytes, Zenon
<1>3. PICK e : Writes(e, t, m, m + n)
  BY <1>2, ChunkWay, Zenon
<1>4. q[Len(s) + 1] = At("Size", 0, m) /\ q[Len(s) + 1].st # "Body" /\ q[Len(s) + 1] = e[1]
  <2>1. At("Size", 0, m).st = "Size"
    BY AtFields
  <2> QED
    BY <1>1, <1>3, <2>1, Zenon DEF Written, Writes
<1>5. \A k \in 1 .. Len(s) + 1 : q[k].pos <= m /\ ~Closing(q[k]) /\ q[k].st # "End"
  BY <1>1, Zenon DEF Behind, Closing
<1>6. PICK p : Longer(p, q, s, e, t)
  BY <1>1, <1>3, <1>4, <1>5, WayJoin, Zenon DEF Writes
<1>7. PICK l \in Nat, h \in Nat : /\ l = Len(s) /\ h = Len(t) /\ Len(s \o t) + 1 = l + h + 1
  <2>1. Len(s \o t) = Len(s) + Len(t) /\ Len(s) \in Nat /\ Len(t) \in Nat
    BY Joined
  <2> QED
    BY <2>1, Zenon
<1>8. \A k \in 1 .. l + 1 : q[k].pos <= m + n
  <2>1. \A k \in 1 .. l + 1 : q[k].pos \in Nat
    BY <1>1, <1>7, Zenon DEF Way, Steps
  <2>2. \A x \in Nat : x <= m => x <= m + n
    OBVIOUS
  <2> QED
    BY <1>5, <1>7, <2>1, <2>2, Zenon
<1>9. \A k \in 1 .. l + h + 1 : Behind(p[k], m + n, "body")
  <2> SUFFICES ASSUME NEW k \in 1 .. l + h + 1 PROVE p[k].pos <= m + n /\ ~Closing(p[k])
    BY Zenon DEF Behind
  <2>1. (\E i \in 1 .. l + 1 : p[k] = q[i]) \/ (\E i \in 1 .. h + 1 : p[k] = e[i])
    BY <1>6, <1>7, Zenon DEF Longer
  <2>2. CASE \E i \in 1 .. l + 1 : p[k] = q[i]
    BY <1>5, <1>7, <1>8, <2>2, Zenon
  <2>3. CASE \E i \in 1 .. h + 1 : p[k] = e[i]
    BY <1>3, <1>7, <2>3, Zenon DEF Writes
  <2> QED
    BY <2>1, <2>2, <2>3, Zenon
<1>10. p[l + h + 1] = At("Size", 0, m + n)
  BY <1>3, <1>6, <1>7, Zenon DEF Longer, Writes
<1>11. Written(p[l + h + 1], m + n, "body", "open")
  BY <1>10, Zenon DEF Written
<1> QED
  BY <1>1, <1>2, <1>6, <1>7, <1>9, <1>11, Zenon DEF Parsed, Longer

(* encode_eof prolongs the way to the end of the body. *)
LEMMA EndParsed ==
  ASSUME NEW s \in Seq(Alphabet), NEW d, NEW g, NEW m \in Nat, Parsed(d, s, g, m, "body", "open")
  PROVE  Parsed(d, s \o LastChunk, g, m, "done", "open")
<1>1. PICK q : /\ Way(q, s) /\ q[1] = At(d.st, d.rem, g)
               /\ \A k \in 1 .. Len(s) + 1 : Behind(q[k], m, "body")
               /\ Written(q[Len(s) + 1], m, "body", "open")
  BY Zenon DEF Parsed
<1>2. PICK t \in Seq(Alphabet) : t = LastChunk
  BY EndWay, Zenon
<1>3. PICK e : Closes(e, t, m)
  BY <1>2, EndWay, Zenon
<1>4. q[Len(s) + 1] = At("Size", 0, m) /\ q[Len(s) + 1].st # "Body" /\ q[Len(s) + 1] = e[1]
  <2>1. At("Size", 0, m).st = "Size"
    BY AtFields
  <2> QED
    BY <1>1, <1>3, <2>1, Zenon DEF Written, Closes
<1>5. \A k \in 1 .. Len(s) + 1 : q[k].pos <= m /\ ~Closing(q[k]) /\ q[k].st # "End"
  BY <1>1, Zenon DEF Behind, Closing
<1>6. PICK p : Longer(p, q, s, e, t)
  BY <1>1, <1>3, <1>4, <1>5, WayJoin, Zenon DEF Closes
<1>7. PICK l \in Nat, h \in Nat : /\ l = Len(s) /\ h = Len(t) /\ Len(s \o t) + 1 = l + h + 1
  <2>1. Len(s \o t) = Len(s) + Len(t) /\ Len(s) \in Nat /\ Len(t) \in Nat
    BY Joined
  <2> QED
    BY <2>1, Zenon
<1>8. \A k \in 1 .. l + h + 1 : Behind(p[k], m, "done")
  <2> SUFFICES ASSUME NEW k \in 1 .. l + h + 1 PROVE Behind(p[k], m, "done")
    BY Zenon
  <2>1. (\E i \in 1 .. l + 1 : p[k] = q[i]) \/ (\E i \in 1 .. h + 1 : p[k] = e[i])
    BY <1>6, <1>7, Zenon DEF Longer
  <2>2. CASE \E i \in 1 .. l + 1 : p[k] = q[i]
    BY <1>5, <1>7, <2>2, Zenon DEF Behind
  <2>3. CASE \E i \in 1 .. h + 1 : p[k] = e[i]
    <3>1. p[k].pos = m /\ m <= m
      BY <1>3, <1>7, <2>3 DEF Closes
    <3> QED
      BY <3>1, Zenon DEF Behind
  <2> QED
    BY <2>1, <2>2, <2>3, Zenon
<1>9. p[l + h + 1] = At("End", 0, m)
  BY <1>3, <1>6, <1>7, Zenon DEF Longer, Closes
<1>10. Written(p[l + h + 1], m, "done", "open")
  BY <1>9, Zenon DEF Written
<1> QED
  BY <1>1, <1>2, <1>6, <1>7, <1>8, <1>10, Zenon DEF Parsed, Longer

(* Bytes that are not of the body keep the way. *)
LEMMA MoreParsed ==
  ASSUME NEW s \in Seq(Alphabet), NEW d, NEW g, NEW m \in Nat, NEW w \in {"body", "done"},
         Parsed(d, s, g, m, w, "open"),
         NEW t \in Seq(Alphabet), \A k \in 1 .. Len(t) : t[k].t = "more"
  PROVE  Parsed(d, s \o t, g, m, IF w = "body" THEN "failed" ELSE "done", "open")
<1>1. PICK q : /\ Way(q, s) /\ q[1] = At(d.st, d.rem, g)
               /\ \A k \in 1 .. Len(s) + 1 : Behind(q[k], m, w)
               /\ Written(q[Len(s) + 1], m, w, "open")
  BY Zenon DEF Parsed
<1>2. PICK a : /\ a = q[Len(s) + 1] /\ a \in Steps /\ a.pos = m
               /\ IF w = "body" THEN a.st = "Size" ELSE a.st = "End" /\ a = At("End", 0, m)
  <2>1. /\ At("Size", 0, m).st = "Size" /\ At("Size", 0, m).pos = m
        /\ At("End", 0, m).st = "End" /\ At("End", 0, m).pos = m
    BY AtFields
  <2>2. Len(s) + 1 \in 1 .. Len(s) + 1
    OBVIOUS
  <2>3. q[Len(s) + 1] \in Steps
    BY <1>1, <2>2, Zenon DEF Way
  <2> QED
    BY <1>1, <2>1, <2>3, Zenon DEF Written
<1>3. PICK e : Follows(e, t, a)
  BY <1>2, MoreWay, Zenon
<1>4. \A k \in 1 .. Len(s) + 1 : w = "body" => q[k].st # "End"
  BY <1>1, Zenon DEF Behind, Closing
<1>5. a.st # "Body" /\ a = e[1]
  BY <1>2, <1>3, Zenon DEF Follows
<1>6. PICK p : Longer(p, q, s, e, t)
  BY <1>1, <1>2, <1>3, <1>5, WayJoin, Zenon DEF Follows
<1>7. PICK l \in Nat, h \in Nat : /\ l = Len(s) /\ h = Len(t) /\ Len(s \o t) + 1 = l + h + 1
  <2>1. Len(s \o t) = Len(s) + Len(t) /\ Len(s) \in Nat /\ Len(t) \in Nat
    BY Joined
  <2> QED
    BY <2>1, Zenon
<1>8. PICK v : v = IF w = "body" THEN "failed" ELSE "done"
  BY Zenon
<1>9. \A k \in 1 .. l + h + 1 : Behind(p[k], m, v)
  <2> SUFFICES ASSUME NEW k \in 1 .. l + h + 1 PROVE Behind(p[k], m, v)
    BY Zenon
  <2>1. (\E i \in 1 .. l + 1 : p[k] = q[i]) \/ (\E i \in 1 .. h + 1 : p[k] = e[i])
    BY <1>6, <1>7, Zenon DEF Longer
  <2>2. \A i \in 1 .. l + 1 : Behind(q[i], m, v)
    BY <1>1, <1>7, <1>8, Zenon DEF Behind
  <2>3. Behind(a, m, v)
    <3>1. l + 1 \in 1 .. l + 1
      BY <1>7
    <3> QED
      BY <1>2, <1>7, <2>2, <3>1, Zenon
  <2>4. Behind(At("Dead", 0, m), m, v)
    <3>1. At("Dead", 0, m).st = "Dead" /\ At("Dead", 0, m).pos = m /\ m <= m
      BY AtFields
    <3> QED
      BY <3>1, Zenon DEF Behind, Closing
  <2> QED
    BY <1>2, <1>3, <1>7, <2>1, <2>2, <2>3, <2>4, Zenon DEF Follows
<1>10. Written(p[l + h + 1], m, v, "open")
  <2>1. w = "done" => p[l + h + 1] = At("End", 0, m)
    BY <1>2, <1>3, <1>6, <1>7, Zenon DEF Longer, Follows
  <2> QED
    BY <1>8, <2>1, Zenon DEF Written
<1> QED
  BY <1>1, <1>6, <1>7, <1>8, <1>9, <1>10, Zenon DEF Parsed, Longer

(* The connection is closed: all that was written can still arrive; or lost *)
LEMMA ClosedParsed ==
  ASSUME NEW s, NEW d, NEW g, NEW m, NEW w, NEW p, Parsed(d, s, g, m, w, p)
  PROVE  Parsed(d, s, g, m, w, "closed")
BY Zenon DEF Parsed, Written

(* A way through all is a way through what was received. *)
LEMMA LostParsed ==
  ASSUME NEW s \in Seq(Alphabet), NEW t \in Seq(Alphabet), NEW d, NEW g, NEW m, NEW w, NEW p,
         Parsed(d, s \o t, g, m, w, p)
  PROVE  Parsed(d, s, g, m, w, "lost")
<1>1. PICK q : /\ Way(q, s \o t) /\ q[1] = At(d.st, d.rem, g)
               /\ \A k \in 1 .. Len(s \o t) + 1 : Behind(q[k], m, w)
  BY Zenon DEF Parsed
<1>2. PICK f : f = [k \in 1 .. Len(s) + 1 |-> q[k]]
  BY Zenon
<1>3. Way(f, s)
  BY <1>1, <1>2, WayPrefix, Zenon
<1>4. /\ 1 \in 1 .. Len(s) + 1 /\ \A k \in 1 .. Len(s) + 1 : k \in 1 .. Len(s \o t) + 1
  <2>1. Len(s \o t) = Len(s) + Len(t) /\ Len(s) \in Nat /\ Len(t) \in Nat
    BY Joined
  <2> QED
    BY <2>1
<1>5. f[1] = At(d.st, d.rem, g) /\ \A k \in 1 .. Len(s) + 1 : Behind(f[k], m, w)
  BY <1>1, <1>2, <1>4, Zenon
<1> QED
  BY <1>3, <1>5, Zenon DEF Parsed, Written

-----------------------------------------------------------------------------
(* ChunkedState::step, for the buffer s with x still to come *)
Good(r, g, x, m, w, p) ==
    /\ r \in Outcomes /\ r.dec.kind = "Chunked"
    /\ \A k \in 1 .. Len(r.chunk) : r.chunk[k] = Byte("data", g + k)
    /\ r.item # "error" => Parsed(r.dec, r.src \o x, g + Len(r.chunk), m, w, p)
    /\ r.item # "chunk" => r.chunk = <<>>
    /\ r.item = "eof" => r.dec.st = "End"

(* The fields of a result of decode *)
LEMMA ResultFields ==
  ASSUME NEW d, NEW s, NEW item, NEW chunk
  PROVE  /\ Result(d, s, item, chunk).dec = d /\ Result(d, s, item, chunk).src = s
         /\ Result(d, s, item, chunk).item = item /\ Result(d, s, item, chunk).chunk = chunk
BY Zenon DEF Result

(* A result is one of the Outcomes. *)
LEMMA ResultOutcome ==
  ASSUME NEW d \in Decoders, NEW s \in Seq(Alphabet), NEW item \in Items, NEW chunk \in Seq(Alphabet)
  PROVE  Result(d, s, item, chunk) \in Outcomes
BY Zenon DEF Result, Outcomes

(* The empty buffer *)
LEMMA NothingRead == <<>> \in Seq(Alphabet) /\ Len(<<>>) = 0 /\ 1 .. 0 = {}
OBVIOUS

(* n bytes are passed over. *)
LEMMA GoodMoved ==
  ASSUME NEW s \in Seq(Alphabet), NEW x \in Seq(Alphabet), NEW g \in Nat, NEW m, NEW w, NEW p,
         NEW q, Way(q, s \o x), \A k \in 1 .. Len(s \o x) + 1 : Behind(q[k], m, w),
         Written(q[Len(s \o x) + 1], m, w, p),
         NEW n \in 0 .. Len(s), NEW d \in Decoders, d.kind = "Chunked",
         NEW item \in {"none", "state"}, q[n + 1] = At(d.st, d.rem, g)
  PROVE  Good(Result(d, Rest(s, n), item, <<>>), g, x, m, w, p)
<1>1. s \o x \in Seq(Alphabet) /\ Rest(s, n) \o x = Rest(s \o x, n) /\ n \in 0 .. Len(s \o x)
  BY Joined, RestJoined, Zenon
<1>2. Parsed(d, Rest(s, n) \o x, g, m, w, p)
  BY <1>1, ParsedShift, Zenon
<1>3. g + 0 = g
  OBVIOUS
<1>4. Rest(s, n) \in Seq(Alphabet) /\ item \in Items
  BY Cut, Zenon DEF Items
<1>5. PICK r : /\ r = Result(d, Rest(s, n), item, <<>>) /\ r \in Outcomes
               /\ r.dec = d /\ r.src = Rest(s, n) /\ r.item = item /\ r.chunk = <<>>
  <2>1. Result(d, Rest(s, n), item, <<>>) \in Outcomes
    BY <1>4, ResultOutcome, NothingRead, Zenon
  <2> QED
    BY <2>1 DEF Result
<1> QED
  BY <1>2, <1>3, <1>5, NothingRead, Zenon DEF Good

(* A step that takes nothing is right. *)
LEMMA GoodSame ==
  ASSUME NEW s \in Seq(Alphabet), NEW x \in Seq(Alphabet), NEW g \in Nat, NEW m, NEW w, NEW p,
         NEW d \in Decoders, d.kind = "Chunked", Parsed(d, s \o x, g, m, w, p),
         NEW item \in {"none", "state"}
  PROVE  Good(Result(d, s, item, <<>>), g, x, m, w, p)
<1>1. item \in Items /\ item # "error" /\ item # "eof"
  BY Zenon DEF Items
<1>2. PICK r : /\ r = Result(d, s, item, <<>>) /\ r \in Outcomes
               /\ r.dec = d /\ r.src = s /\ r.item = item /\ r.chunk = <<>>
  <2>1. Result(d, s, item, <<>>) \in Outcomes
    BY <1>1, ResultOutcome, NothingRead, Zenon
  <2> QED
    BY <2>1 DEF Result
<1>3. g + 0 = g
  OBVIOUS
<1> QED
  BY <1>1, <1>2, <1>3, NothingRead, Zenon DEF Good

(* So is one that fails. *)
LEMMA GoodError ==
  ASSUME NEW s \in Seq(Alphabet), NEW x, NEW g, NEW m, NEW w, NEW p,
         NEW d \in Decoders, d.kind = "Chunked"
  PROVE  Good(Result(d, s, "error", <<>>), g, x, m, w, p)
<1>1. "error" \in Items
  BY Zenon DEF Items
<1>2. PICK r : /\ r = Result(d, s, "error", <<>>) /\ r \in Outcomes
               /\ r.dec = d /\ r.item = "error" /\ r.chunk = <<>>
  <2>1. Result(d, s, "error", <<>>) \in Outcomes
    BY <1>1, ResultOutcome, NothingRead, Zenon
  <2> QED
    BY <2>1 DEF Result
<1> QED
  BY <1>2, NothingRead, Zenon DEF Good

(* The line of a chunk's size *)
LEMMA SizeGood ==
  ASSUME NEW s \in Seq(Alphabet), NEW x \in Seq(Alphabet), NEW g \in Nat, NEW m, NEW w, NEW p,
         NEW d \in Decoders, d.kind = "Chunked", d.st = "Size", Parsed(d, s \o x, g, m, w, p)
  PROVE  Good(step(d, s), g, x, m, w, p)
<1>1. SizeLine(s) \in {"partial", "bad", "line"}
  BY Zenon DEF SizeLine
<1>2. CASE SizeLine(s) = "partial"
  <2>1. step(d, s) = Result(d, s, "none", <<>>)
    BY <1>2, Zenon DEF step, After
  <2> QED
    BY <2>1, GoodSame, Zenon
<1>3. CASE SizeLine(s) = "bad"
  <2>1. step(d, s) = Result(d, s, "error", <<>>)
    BY <1>3, Zenon DEF step, After
  <2> QED
    BY <2>1, GoodError, Zenon
<1>4. CASE SizeLine(s) = "line"
  <2>1. PICK v, c : /\ v = s[1].v
                    /\ c = [d EXCEPT !.rem = s[1].v, !.st = IF s[1].v > 0 THEN "Body" ELSE "EndCr"]
    BY Zenon
  <2>2. step(d, s) = Result(c, Rest(s, 3), "state", <<>>)
    BY <1>4, <2>1, Zenon DEF step, After
  <2>3. s # <<>> /\ s[1].t = "hex" /\ ~(Len(s) < 3) /\ s[2] = CR /\ s[3] = LF
    BY <1>4, NothingRead DEF SizeLine
  <2>4. Len(s) \in Nat /\ 3 \in 0 .. Len(s) /\ 1 \in 1 .. Len(s) /\ 2 \in 1 .. Len(s) /\ 3 \in 1 .. Len(s)
    BY <2>3
  <2>5. v \in Nat /\ s[1] \in Alphabet
    <3>1. s[1] \in Alphabet
      BY <2>4
    <3> QED
      BY <2>1, <3>1, Zenon DEF Alphabet
  <2>6. PICK st \in {"Body", "EndCr"} : st = IF v > 0 THEN "Body" ELSE "EndCr"
    BY Zenon
  <2>7. c \in Decoders /\ c.kind = "Chunked" /\ c.st = st /\ c.rem = v
    BY <2>1, <2>5, <2>6, Zenon DEF Decoders, ChunkedStates
  <2>8. PICK u : u = s \o x
    BY Zenon
  <2>9. u[1] = s[1] /\ u[2] = CR /\ u[3] = LF /\ 1 \in 1 .. Len(u) /\ 2 \in 1 .. Len(u) /\ 3 \in 1 .. Len(u)
    <3>1. /\ Len(s \o x) = Len(s) + Len(x) /\ Len(x) \in Nat
          /\ \A i \in 1 .. Len(s) : (s \o x)[i] = s[i]
      BY Joined
    <3>2. 1 \in 1 .. Len(s) + Len(x) /\ 2 \in 1 .. Len(s) + Len(x) /\ 3 \in 1 .. Len(s) + Len(x)
      BY <2>4, <3>1
    <3> QED
      BY <2>3, <2>4, <2>8, <3>1, <3>2, Zenon
  <2>10. PICK q : /\ Way(q, u) /\ q[1] = At(d.st, d.rem, g)
                  /\ \A k \in 1 .. Len(u) + 1 : Behind(q[k], m, w)
                  /\ Written(q[Len(u) + 1], m, w, p)
    BY <2>8, Zenon DEF Parsed
  <2>11. Eats(q[1], s[1], q[2]) /\ Eats(q[2], CR, q[3]) /\ Eats(q[3], LF, q[4])
    <3>1. 1 + 1 = 2 /\ 2 + 1 = 3 /\ 3 + 1 = 4
      OBVIOUS
    <3> QED
      BY <2>9, <2>10, <3>1, Zenon DEF Way
  <2>12. q[2] = At("SizeCr", v, g)
    <3>1. q[1].st = "Size" /\ q[1].pos = g
      BY <2>10, AtFields
    <3> QED
      BY <2>1, <2>3, <2>11, <3>1, Afters, Zenon DEF Eats
  <2>13. q[3] = At("SizeLf", v, g)
    <3>1. q[2].st = "SizeCr" /\ q[2].rem = v /\ q[2].pos = g
      BY <2>12, AtFields
    <3> QED
      BY <2>11, <3>1, Afters, Zenon DEF Eats
  <2>14. q[4] = At(st, v, g)
    <3>1. q[3].st = "SizeLf" /\ q[3].rem = v /\ q[3].pos = g
      BY <2>13, AtFields
    <3> QED
      BY <2>6, <2>11, <3>1, Afters, Zenon DEF Eats
  <2>15. q[3 + 1] = At(c.st, c.rem, g)
    <3>1. 3 + 1 = 4
      OBVIOUS
    <3> QED
      BY <2>7, <2>14, <3>1, Zenon
  <2> QED
    BY <2>2, <2>4, <2>7, <2>8, <2>10, <2>15, GoodMoved, Zenon
<1> QED
  BY <1>1, <1>2, <1>3, <1>4, Zenon

(* What Least is *)
LEMMA LeastIs ==
  ASSUME NEW a \in Nat, NEW b \in Nat
  PROVE  Least(a, b) \in Nat /\ Least(a, b) <= a /\ Least(a, b) <= b /\ Least(a, b) \in {a, b}
BY DEF Least

(* Up to d.rem bytes of the buffer, and what is left *)
LEMMA PieceIs ==
  ASSUME NEW d \in Decoders, NEW s \in Seq(Alphabet), NEW st \in ChunkedStates
  PROVE  \E n \in 0 .. Len(s), c \in Decoders :
            /\ n = Least(d.rem, Len(s)) /\ n <= d.rem
            /\ Piece(d, s, st) = Result(c, Rest(s, n), "chunk", SubSeq(s, 1, n))
            /\ c.kind = d.kind /\ c.rem = d.rem - n /\ c.st = IF d.rem = n THEN st ELSE d.st
<1>1. d.rem \in Nat /\ Len(s) \in Nat
  BY DEF Decoders
<1>2. PICK n \in 0 .. Len(s) : n = Least(d.rem, Len(s)) /\ n <= d.rem /\ d.rem - n \in Nat
  <2>1. PICK a \in Nat, b \in Nat : a = d.rem /\ b = Len(s)
    BY <1>1, Zenon
  <2>2. PICK n \in Nat : n = Least(a, b) /\ n <= a /\ n <= b
    BY LeastIs, Zenon
  <2>3. n \in 0 .. b /\ a - n \in Nat
    BY <2>2
  <2> QED
    BY <2>1, <2>2, <2>3, Zenon
<1>3. PICK c : c = [d EXCEPT !.rem = @ - n, !.st = IF d.rem = n THEN st ELSE @]
  BY Zenon
<1>4. c \in Decoders /\ c.kind = d.kind /\ c.rem = d.rem - n /\ c.st = IF d.rem = n THEN st ELSE d.st
  BY <1>2, <1>3, Zenon DEF Decoders
<1>5. Piece(d, s, st) = Result(c, Rest(s, n), "chunk", SubSeq(s, 1, n))
  BY <1>2, <1>3, Zenon DEF Piece
<1> QED
  BY <1>2, <1>4, <1>5, Zenon

(* A piece of a chunk *)
LEMMA BodyGood ==
  ASSUME NEW s \in Seq(Alphabet), NEW x \in Seq(Alphabet), NEW g \in Nat, NEW m, NEW w, NEW p,
         NEW d \in Decoders, d.kind = "Chunked", d.st = "Body", Parsed(d, s \o x, g, m, w, p)
  PROVE  Good(step(d, s), g, x, m, w, p)
<1>1. CASE s = <<>>
  <2>1. step(d, s) = Result(d, s, "state", <<>>)
    BY <1>1, Zenon DEF step, After
  <2> QED
    BY <2>1, GoodSame, Zenon
<1>2. CASE s # <<>>
  <2>1. step(d, s) = Piece(d, s, "BodyCr")
    BY <1>2, Zenon DEF step, After
  <2>2. PICK n \in 0 .. Len(s), c \in Decoders :
            /\ n <= d.rem
            /\ step(d, s) = Result(c, Rest(s, n), "chunk", SubSeq(s, 1, n))
            /\ c.kind = "Chunked" /\ c.rem = d.rem - n /\ c.st = IF d.rem = n THEN "BodyCr" ELSE "Body"
    <3>1. "BodyCr" \in ChunkedStates
      BY Zenon DEF ChunkedStates
    <3>2. PICK n \in 0 .. Len(s), c \in Decoders :
            /\ n = Least(d.rem, Len(s)) /\ n <= d.rem
            /\ Piece(d, s, "BodyCr") = Result(c, Rest(s, n), "chunk", SubSeq(s, 1, n))
            /\ c.kind = d.kind /\ c.rem = d.rem - n /\ c.st = IF d.rem = n THEN "BodyCr" ELSE d.st
      BY <3>1, PieceIs, Zenon
    <3> QED
      BY <2>1, <3>2, Zenon
  <2>3. PICK u : u = s \o x
    BY Zenon
  <2>4. PICK l \in Nat, h \in Nat, b \in Nat :
            l = Len(s) /\ h = Len(u) /\ l <= h /\ n \in 0 .. l /\ b = d.rem /\ n <= b
    <3>1. Len(s \o x) = Len(s) + Len(x) /\ Len(x) \in Nat /\ Len(s) \in Nat
      BY Joined
    <3>2. Len(s) + Len(x) \in Nat /\ Len(s) <= Len(s) + Len(x)
      BY <3>1
    <3>3. d.rem \in Nat
      BY Zenon DEF Decoders
    <3> QED
      BY <2>2, <2>3, <3>1, <3>2, <3>3, Zenon
  <2>5. \A i \in 1 .. l : u[i] = s[i]
    BY <2>3, <2>4, Joined, Zenon
  <2>6. PICK q : /\ Way(q, u) /\ q[1] = At(d.st, d.rem, g)
                 /\ \A k \in 1 .. Len(u) + 1 : Behind(q[k], m, w)
                 /\ Written(q[Len(u) + 1], m, w, p)
    BY <2>3, Zenon DEF Parsed
  <2>7. q[1].st = "Body" /\ q[1].rem = b /\ q[1].pos = g
    BY <2>4, <2>6, AtFields
  <2>8. \A j \in 0 .. b : 1 + j <= h + 1 => q[1 + j] = Fed(q[1], j)
    <3>1. 1 \in 1 .. h + 1
      BY <2>4
    <3> QED
      BY <2>4, <2>6, <2>7, <3>1, Zenon DEF Way
  <2>9. q[n + 1] = At(c.st, c.rem, g + n)
    <3>1. n \in 0 .. b /\ 1 + n <= h + 1 /\ 1 + n = n + 1
      BY <2>4
    <3>2. q[n + 1] = Fed(q[1], n)
      BY <2>8, <3>1, Zenon
    <3>3. (n = b) = (b = n)
      BY Zenon
    <3> QED
      BY <2>2, <2>4, <2>7, <3>2, <3>3, Zenon DEF Fed
  <2>10. ASSUME NEW k \in 1 .. n PROVE s[k] = Byte("data", g + k)
    <3>1. PICK j \in 0 .. b : k = 1 + j /\ j # b /\ 1 + j <= h + 1 /\ k \in 1 .. h /\ k \in 1 .. l /\ (g + j) + 1 = g + k
      <4>1. /\ k - 1 \in 0 .. b /\ k = 1 + (k - 1) /\ k - 1 # b /\ 1 + (k - 1) <= h + 1 /\ k \in 1 .. h
            /\ k \in 1 .. l /\ (g + (k - 1)) + 1 = g + k
        BY <2>4
      <4> QED
        BY <4>1, Zenon
    <3>2. q[k] = At("Body", b - j, g + j)
      BY <2>7, <2>8, <3>1, Zenon DEF Fed
    <3>3. q[k].st = "Body" /\ q[k].pos = g + j
      BY <3>2, AtFields
    <3>4. Eats(q[k], s[k], q[k + 1])
      BY <2>4, <2>5, <2>6, <3>1, Zenon DEF Way
    <3>5. s[k] = Byte("data", (g + j) + 1)
      BY <3>3, <3>4, Afters, Zenon DEF Eats
    <3> QED
      BY <3>1, <3>5, Zenon
  <2>11. PICK y \in Seq(Alphabet) : /\ y = SubSeq(s, 1, n) /\ Len(y) = n
                                    /\ \A k \in 1 .. n : y[k] = Byte("data", g + k)
    <3>1. /\ SubSeq(s, 1, n) \in Seq(Alphabet) /\ Len(SubSeq(s, 1, n)) = n
          /\ \A i \in 1 .. n : SubSeq(s, 1, n)[i] = s[i]
      BY <2>2, Cut, Zenon
    <3> QED
      BY <2>10, <3>1, Zenon
  <2>12. Parsed(c, Rest(s, n) \o x, g + n, m, w, p)
    <3>1. u \in Seq(Alphabet) /\ Rest(s, n) \o x = Rest(u, n) /\ n \in 0 .. Len(u)
      BY <2>2, <2>3, Joined, RestJoined, Zenon
    <3> QED
      BY <2>6, <2>9, <3>1, ParsedShift, Zenon
  <2>13. PICK r : /\ r = Result(c, Rest(s, n), "chunk", y) /\ r \in Outcomes
                  /\ r.dec = c /\ r.src = Rest(s, n) /\ r.item = "chunk" /\ r.chunk = y
    <3>1. Rest(s, n) \in Seq(Alphabet) /\ "chunk" \in Items
      BY <2>2, Cut, Zenon DEF Items
    <3>2. Result(c, Rest(s, n), "chunk", y) \in Outcomes
      BY <2>2, <3>1, ResultOutcome, Zenon
    <3> QED
      BY <3>2 DEF Result
  <2>14. step(d, s) = r
    BY <2>2, <2>11, <2>13, Zenon
  <2> QED
    BY <2>2, <2>11, <2>12, <2>13, <2>14, Zenon DEF Good
<1> QED
  BY <1>1, <1>2, Zenon

(* One byte of a line end *)
LEMMA LineGood ==
  ASSUME NEW s \in Seq(Alphabet), NEW x \in Seq(Alphabet), NEW g \in Nat, NEW m, NEW w, NEW p,
         NEW d \in Decoders, d.kind = "Chunked", d.st \in DOMAIN After, Parsed(d, s \o x, g, m, w, p)
  PROVE  Good(step(d, s), g, x, m, w, p)
<1>0. d.st \notin {"Size", "Body", "End"}
  BY Afters, Zenon
<1>1. CASE s = <<>>
  <2>1. step(d, s) = Result(d, s, "none", <<>>)
    BY <1>0, <1>1, Zenon DEF step
  <2> QED
    BY <2>1, GoodSame, Zenon
<1>2. CASE s # <<>> /\ s[1] # Expected[d.st]
  <2>1. step(d, s) = Result(d, Rest(s, 1), "error", <<>>)
    BY <1>0, <1>2, Zenon DEF step
  <2>2. 1 \in 0 .. Len(s)
    BY <1>2
  <2>3. Rest(s, 1) \in Seq(Alphabet)
    BY <2>2, Cut, Zenon
  <2> QED
    BY <2>1, <2>3, GoodError, Zenon
<1>3. CASE s # <<>> /\ s[1] = Expected[d.st]
  <2>1. PICK c : c = [d EXCEPT !.st = After[d.st]]
    BY Zenon
  <2>2. step(d, s) = Result(c, Rest(s, 1), "state", <<>>)
    BY <1>0, <1>3, <2>1, Zenon DEF step
  <2>3. 1 \in 0 .. Len(s) /\ 1 \in 1 .. Len(s) /\ Len(s) \in Nat
    BY <1>3
  <2>4. c \in Decoders /\ c.kind = "Chunked" /\ c.st = After[d.st] /\ c.rem = d.rem
    <3>1. After[d.st] \in ChunkedStates
      BY Afters, Zenon DEF ChunkedStates
    <3> QED
      BY <2>1, <3>1, Zenon DEF Decoders
  <2>5. PICK u : u = s \o x
    BY Zenon
  <2>6. u[1] = s[1] /\ 1 \in 1 .. Len(u)
    <3>1. /\ Len(s \o x) = Len(s) + Len(x) /\ Len(x) \in Nat
          /\ \A i \in 1 .. Len(s) : (s \o x)[i] = s[i]
      BY Joined
    <3>2. 1 \in 1 .. Len(s) + Len(x)
      BY <2>3, <3>1
    <3> QED
      BY <2>3, <2>5, <3>1, <3>2, Zenon
  <2>7. PICK q : /\ Way(q, u) /\ q[1] = At(d.st, d.rem, g)
                 /\ \A k \in 1 .. Len(u) + 1 : Behind(q[k], m, w)
                 /\ Written(q[Len(u) + 1], m, w, p)
    BY <2>5, Zenon DEF Parsed
  <2>8. Eats(q[1], s[1], q[1 + 1])
    BY <2>6, <2>7, Zenon DEF Way
  <2>9. q[1 + 1] = At(c.st, c.rem, g)
    <3>1. q[1].st = d.st /\ q[1].rem = d.rem /\ q[1].pos = g
      BY <2>7, AtFields
    <3>2. d.st \notin {"SizeCr", "SizeLf", "Dead"}
      BY Afters, Zenon
    <3> QED
      BY <1>0, <2>4, <2>8, <3>1, <3>2, Zenon DEF Eats
  <2> QED
    BY <2>2, <2>3, <2>4, <2>5, <2>7, <2>9, GoodMoved, Zenon
<1> QED
  BY <1>1, <1>2, <1>3, Zenon

(* ChunkedState::step is right in every state. *)
LEMMA StepGood ==
  ASSUME NEW s \in Seq(Alphabet), NEW x \in Seq(Alphabet), NEW g \in Nat, NEW m, NEW w, NEW p,
         NEW d \in Decoders, d.kind = "Chunked", Parsed(d, s \o x, g, m, w, p)
  PROVE  Good(step(d, s), g, x, m, w, p)
<1>1. d.st \in {"Size", "Body", "End"} \union DOMAIN After
  BY Afters, Zenon DEF Decoders, ChunkedStates
<1>2. CASE d.st = "End"
  <2>1. step(d, s) = Result(d, s, "state", <<>>)
    BY <1>2, Zenon DEF step, After
  <2> QED
    BY <2>1, GoodSame, Zenon
<1> QED
  BY <1>1, <1>2, SizeGood, BodyGood, LineGood, Zenon

(* The loop of PayloadDecoder::decode *)
LEMMA TurnGood ==
  ASSUME NEW x \in Seq(Alphabet), NEW g \in Nat, NEW m, NEW w, NEW p, NEW r, Good(r, g, x, m, w, p)
  PROVE  Good(Turn[r], g, x, m, w, p)
<1>1. CASE r.item # "state"
  <2>1. r \in Outcomes
    BY Zenon DEF Good
  <2> QED
    BY <1>1, <2>1, Zenon DEF Turn
<1>2. CASE r.item = "state"
  <2>1. /\ r \in Outcomes /\ r.dec \in Decoders /\ r.dec.kind = "Chunked" /\ r.src \in Seq(Alphabet)
        /\ r.chunk = <<>> /\ Parsed(r.dec, r.src \o x, g, m, w, p)
    <3>1. r \in Outcomes /\ r.dec.kind = "Chunked" /\ r.chunk = <<>>
          /\ Parsed(r.dec, r.src \o x, g + Len(r.chunk), m, w, p)
      BY <1>2, Zenon DEF Good
    <3>2. g + 0 = g
      OBVIOUS
    <3> QED
      BY <3>1, <3>2, NothingRead, Zenon DEF Outcomes
  <2>2. ASSUME NEW i \in {"eof", "none"}, Turn[r] = [r EXCEPT !.item = i], i = "eof" => r.dec.st = "End"
        PROVE  Good(Turn[r], g, x, m, w, p)
    <3>1. PICK y : y = [r EXCEPT !.item = i]
      BY Zenon
    <3>2. y \in Outcomes /\ y.dec = r.dec /\ y.src = r.src /\ y.chunk = r.chunk /\ y.item = i
      BY <2>1, <3>1, Zenon DEF Outcomes, Items
    <3>3. g + 0 = g
      OBVIOUS
    <3> QED
      BY <2>1, <2>2, <3>1, <3>2, <3>3, NothingRead, Zenon DEF Good
  <2>3. CASE r.dec.st = "End"
    <3>1. Turn[r] = [r EXCEPT !.item = "eof"]
      BY <1>2, <2>1, <2>3, Zenon DEF Turn
    <3> QED
      BY <2>2, <2>3, <3>1, Zenon
  <2>4. CASE r.dec.st # "End" /\ r.src = <<>>
    <3>1. Turn[r] = [r EXCEPT !.item = "none"]
      BY <1>2, <2>1, <2>4, Zenon DEF Turn
    <3> QED
      BY <2>2, <3>1, Zenon
  <2>5. CASE r.dec.st # "End" /\ r.src # <<>>
    <3>1. Turn[r] = step(r.dec, r.src)
      BY <1>2, <2>1, <2>5, Zenon DEF Turn
    <3> QED
      BY <2>1, <3>1, StepGood, Zenon
  <2> QED
    BY <2>3, <2>4, <2>5, Zenon
<1> QED
  BY <1>1, <1>2, Zenon

(* PayloadDecoder::decode is right for a chunked body. *)
LEMMA RunGood ==
  ASSUME NEW s \in Seq(Alphabet), NEW x \in Seq(Alphabet), NEW g \in Nat, NEW m, NEW w, NEW p,
         NEW d \in Decoders, d.kind = "Chunked", Parsed(d, s \o x, g, m, w, p)
  PROVE  Good(Run(step(d, s)), g, x, m, w, p)
<1>1. \A r : Good(r, g, x, m, w, p) => Good(Turn[r], g, x, m, w, p)
  BY TurnGood, Zenon
<1> QED
  BY <1>1, StepGood, Zenon DEF Run

-----------------------------------------------------------------------------
(* The other framings *)
LEMMA FilledShift ==
  ASSUME NEW s \in Seq(Alphabet), NEW x \in Seq(Alphabet), NEW g \in Nat, NEW n \in Nat,
         Filled(s \o x, g, n), NEW j \in 0 .. Len(s), j <= n
  PROVE  /\ Filled(Rest(s, j) \o x, g + j, n - j) /\ Len(Rest(s, j) \o x) = Len(s \o x) - j
         /\ \A k \in 1 .. j : s[k] = Byte("data", g + k)
<1>1. PICK u \in Seq(Alphabet) : u = s \o x /\ Rest(s, j) \o x = Rest(u, j) /\ j \in 0 .. Len(u)
  <2>1. s \o x \in Seq(Alphabet) /\ Rest(s, j) \o x = Rest(s \o x, j) /\ j \in 0 .. Len(s \o x)
    BY Joined, RestJoined, Zenon
  <2> QED
    BY <2>1, Zenon
<1>2. PICK l \in Nat, h \in Nat : l = Len(s) /\ h = Len(u) /\ j \in 0 .. l /\ j \in 0 .. h /\ l <= h
  <2>1. Len(s \o x) = Len(s) + Len(x) /\ Len(x) \in Nat /\ Len(s) \in Nat
    BY Joined
  <2>2. Len(s) + Len(x) \in Nat /\ Len(s) <= Len(s) + Len(x)
    BY <2>1
  <2> QED
    BY <1>1, <2>1, <2>2, Zenon
<1>3. PICK r \in Seq(Alphabet) : r = Rest(u, j) /\ Len(r) = h - j /\ \A i \in 1 .. h - j : r[i] = u[j + i]
  <2>1. /\ Rest(u, j) \in Seq(Alphabet) /\ Len(Rest(u, j)) = Len(u) - j
        /\ \A i \in 1 .. Len(u) - j : Rest(u, j)[i] = u[j + i]
    BY <1>1, Cut, Zenon
  <2> QED
    BY <1>2, <2>1, Zenon
<1>4. n <= h /\ \A k \in 1 .. h : IF k <= n THEN u[k] = Byte("data", g + k) ELSE u[k].t = "more"
  BY <1>1, <1>2, Zenon DEF Filled
<1>5. ASSUME NEW k \in 1 .. h - j
      PROVE  IF k <= n - j THEN r[k] = Byte("data", (g + j) + k) ELSE r[k].t = "more"
  <2>1. j + k \in 1 .. h /\ (k <= n - j <=> j + k <= n) /\ (g + j) + k = g + (j + k)
    BY <1>2
  <2> QED
    BY <1>3, <1>4, <2>1, Zenon
<1>6. n - j <= h - j
  BY <1>2, <1>4
<1>7. Filled(r, g + j, n - j)
  BY <1>3, <1>5, <1>6, Zenon DEF Filled
<1>8. ASSUME NEW k \in 1 .. j PROVE s[k] = Byte("data", g + k)
  <2>1. k \in 1 .. l /\ k \in 1 .. h /\ k <= n
    <3>1. l \in Nat /\ h \in Nat /\ n \in Nat /\ j \in 0 .. l /\ l <= h /\ j <= n /\ k \in 1 .. j
      BY <1>2, Zenon
    <3>2. k \in 1 .. l
      BY <3>1
    <3>3. k \in 1 .. h
      BY <3>1
    <3>4. k <= n
      BY <3>1
    <3> QED
      BY <3>2, <3>3, <3>4, Zenon
  <2>2. u[k] = s[k]
    <3>1. \A i \in 1 .. Len(s) : (s \o x)[i] = s[i]
      BY Joined
    <3> QED
      BY <1>1, <1>2, <2>1, <3>1, Zenon
  <2> QED
    BY <1>4, <2>1, <2>2, Zenon
<1> QED
  BY <1>1, <1>2, <1>3, <1>7, <1>8, Zenon

(* Bytes of the body behind bytes of the body *)
LEMMA FilledData ==
  ASSUME NEW s \in Seq(Alphabet), NEW g \in Nat, NEW n \in Nat, Filled(s, g, n), NEW j \in Nat,
         n = Len(s) \/ j = 0, NEW m \in Nat, j # 0 => g + n = m
  PROVE  LET t == Bytes("data", m, j)
         IN  /\ t \in Seq(Alphabet) /\ s \o t \in Seq(Alphabet) /\ Len(s \o t) = Len(s) + j
             /\ Filled(s \o t, g, n + j)
<1>1. PICK t \in Seq(Alphabet) : /\ t = Bytes("data", m, j) /\ Len(t) = j
                                 /\ \A k \in 1 .. j : t[k] = Byte("data", m + k)
  <2>1. "data" \in ByteTypes
    BY Zenon DEF ByteTypes
  <2>2. /\ Bytes("data", m, j) \in Seq(Alphabet) /\ Len(Bytes("data", m, j)) = j
        /\ \A k \in 1 .. j : Bytes("data", m, j)[k] = Byte("data", m + k)
    BY <2>1, BytesSeq, Zenon
  <2> QED
    BY <2>2, Zenon
<1>2. PICK l \in Nat : l = Len(s)
  OBVIOUS
<1>3. PICK u : u = s \o t
  BY Zenon
<1>4. /\ u \in Seq(Alphabet) /\ Len(u) = l + j /\ \A i \in 1 .. l : u[i] = s[i]
      /\ \A i \in 1 .. j : u[l + i] = t[i]
  <2>1. /\ s \o t \in Seq(Alphabet) /\ Len(s \o t) = Len(s) + Len(t)
        /\ \A i \in 1 .. Len(s) : (s \o t)[i] = s[i]
        /\ \A i \in 1 .. Len(t) : (s \o t)[Len(s) + i] = t[i]
    BY Joined, Zenon
  <2> QED
    BY <1>1, <1>2, <1>3, <2>1, Zenon
<1>5. n <= l /\ \A k \in 1 .. l : IF k <= n THEN s[k] = Byte("data", g + k) ELSE s[k].t = "more"
  BY <1>2, Zenon DEF Filled
<1>6. n + j <= l + j
  BY <1>5
<1>7. ASSUME NEW k \in 1 .. l + j
      PROVE  IF k <= n + j THEN u[k] = Byte("data", g + k) ELSE u[k].t = "more"
  <2>1. CASE k <= l
    <3>1. k \in 1 .. l /\ (k <= n + j <=> k <= n)
      BY <1>2, <2>1
    <3> QED
      BY <1>4, <1>5, <3>1, Zenon
  <2>2. CASE ~(k <= l)
    <3>1. PICK i \in 1 .. j : k = l + i /\ j # 0 /\ k <= n + j /\ g + k = (g + n) + i
      <4>1. k - l \in 1 .. j /\ k = l + (k - l) /\ j # 0 /\ k <= n + j /\ g + k = (g + n) + (k - l)
        BY <1>2, <2>2
      <4> QED
        BY <4>1, Zenon
    <3> QED
      BY <1>1, <1>4, <3>1, Zenon
  <2> QED
    BY <2>1, <2>2, Zenon
<1>8. Filled(u, g, n + j)
  BY <1>4, <1>6, <1>7, Zenon DEF Filled
<1> QED
  BY <1>1, <1>2, <1>3, <1>4, <1>8, Zenon

(* Other bytes behind it *)
LEMMA FilledMore ==
  ASSUME NEW s \in Seq(Alphabet), NEW t \in Seq(Alphabet), NEW g, NEW n \in Nat, Filled(s, g, n),
         \A k \in 1 .. Len(t) : t[k].t = "more"
  PROVE  Filled(s \o t, g, n)
<1>1. PICK l \in Nat, h \in Nat : l = Len(s) /\ h = Len(t)
  OBVIOUS
<1>2. PICK u : u = s \o t
  BY Zenon
<1>3. /\ Len(u) = l + h /\ \A i \in 1 .. l : u[i] = s[i]
      /\ \A i \in 1 .. h : u[l + i] = t[i]
  <2>1. /\ Len(s \o t) = Len(s) + Len(t)
        /\ \A i \in 1 .. Len(s) : (s \o t)[i] = s[i]
        /\ \A i \in 1 .. Len(t) : (s \o t)[Len(s) + i] = t[i]
    BY Joined, Zenon
  <2> QED
    BY <1>1, <1>2, <2>1, Zenon
<1>4. n <= l /\ \A k \in 1 .. l : IF k <= n THEN s[k] = Byte("data", g + k) ELSE s[k].t = "more"
  BY <1>1, Zenon DEF Filled
<1>5. n <= l + h
  BY <1>4
<1>6. ASSUME NEW k \in 1 .. l + h
      PROVE  IF k <= n THEN u[k] = Byte("data", g + k) ELSE u[k].t = "more"
  <2>1. CASE k <= l
    <3>1. k \in 1 .. l
      BY <2>1
    <3> QED
      BY <1>3, <1>4, <3>1, Zenon
  <2>2. CASE ~(k <= l)
    <3>1. PICK i \in 1 .. h : k = l + i /\ ~(k <= n)
      <4>1. k - l \in 1 .. h /\ k = l + (k - l) /\ ~(k <= n)
        BY <1>4, <2>2
      <4> QED
        BY <4>1, Zenon
    <3>2. u[k].t = "more"
      BY <1>1, <1>3, <3>1, Zenon
    <3> QED
      BY <3>1, <3>2, Zenon
  <2> QED
    BY <2>1, <2>2, Zenon
<1> QED
  BY <1>2, <1>3, <1>5, <1>6, Zenon DEF Filled

(* What was received of it *)
LEMMA FilledPrefix ==
  ASSUME NEW s \in Seq(Alphabet), NEW x \in Seq(Alphabet), NEW g, NEW n \in Nat, Filled(s \o x, g, n)
  PROVE  Filled(s, g, Least(n, Len(s)))
<1>1. PICK l \in Nat, h \in Nat : l = Len(s) /\ h = Len(s \o x) /\ l <= h
  <2>1. Len(s \o x) = Len(s) + Len(x) /\ Len(x) \in Nat /\ Len(s) \in Nat
    BY Joined
  <2>2. Len(s) + Len(x) \in Nat /\ Len(s) <= Len(s) + Len(x)
    BY <2>1
  <2> QED
    BY <2>1, <2>2, Zenon
<1>2. n <= h /\ \A k \in 1 .. h : IF k <= n THEN (s \o x)[k] = Byte("data", g + k) ELSE (s \o x)[k].t = "more"
  BY <1>1, Zenon DEF Filled
<1>3. PICK j \in Nat : j = Least(n, l) /\ j <= l /\ j <= n /\ j \in {n, l}
  BY LeastIs, Zenon
<1>4. ASSUME NEW k \in 1 .. l
      PROVE  IF k <= j THEN s[k] = Byte("data", g + k) ELSE s[k].t = "more"
  <2>1. k \in 1 .. h /\ (k <= j <=> k <= n)
    BY <1>1, <1>3
  <2>2. (s \o x)[k] = s[k]
    BY <1>1, Joined, Zenon
  <2> QED
    BY <1>2, <2>1, <2>2, Zenon
<1> QED
  BY <1>1, <1>3, <1>4, Zenon DEF Filled

(* PayloadDecoder::decode, for the buffer s with x still to come; it ends     *)
(* with the body.                                                             *)
AtEnd(d) == IF d.kind = "Chunked" THEN d.st = "End" ELSE d.kind = "Length" /\ d.rem = 0
Right(r, d, g, x) ==
    /\ r \in Outcomes /\ r.dec.kind = d.kind
    /\ \A k \in 1 .. Len(r.chunk) : r.chunk[k] = Byte("data", g + k)
    /\ r.item # "error" => Remains(r.dec, r.src \o x, g + Len(r.chunk))
    /\ r.item # "chunk" => r.chunk = <<>>
    /\ r.item = "eof" => AtEnd(r.dec)

(* Remaining, for each framing *)
LEMMA RemainingIs ==
  ASSUME NEW d, NEW s, NEW g, NEW m, NEW w, NEW p, NEW r
  PROVE  /\ d.kind = "Chunked" => (Remaining(d, s, g, m, w, p, r) <=> Parsed(d, s, g, m, w, p))
         /\ d.kind = "Length" => (Remaining(d, s, g, m, w, p, r) <=> Counted(d, s, g, m, r, p))
         /\ d.kind = "Eof" => (Remaining(d, s, g, m, w, p, r) <=> Flowing(s, g, m, p))
<1>1. d.kind = "Chunked" => (Remaining(d, s, g, m, w, p, r) = Parsed(d, s, g, m, w, p))
  BY SMT DEF Remaining
<1>2. d.kind = "Length" => (Remaining(d, s, g, m, w, p, r) = Counted(d, s, g, m, r, p))
  BY SMT DEF Remaining
<1>3. d.kind = "Eof" => (Remaining(d, s, g, m, w, p, r) = Flowing(s, g, m, p))
  BY SMT DEF Remaining
<1> QED
  BY <1>1, <1>2, <1>3, Zenon

(* Remains, for each framing *)
LEMMA RemainsIs ==
  ASSUME NEW d, NEW s, NEW g
  PROVE  /\ d.kind = "Chunked" => (Remains(d, s, g) <=> Parsed(d, s, g, made, writer, peer))
         /\ d.kind = "Length" => (Remains(d, s, g) <=> Counted(d, s, g, made, te.rem, peer))
         /\ d.kind = "Eof" => (Remains(d, s, g) <=> Flowing(s, g, made, peer))
BY RemainingIs, Zenon DEF Remains

(* PayloadDecoder::decode is right for a body with a length. *)
LEMMA LengthRight ==
  ASSUME NEW d \in Decoders, d.kind = "Length", NEW s \in Seq(Alphabet), NEW x \in Seq(Alphabet),
         NEW g \in Nat, te.rem \in Nat, made \in Nat, Remains(d, s \o x, g)
  PROVE  Right(decode(d, s), d, g, x)
<1>1. PICK n \in Nat :
        /\ Filled(s \o x, g, n) /\ g + n <= made /\ n + te.rem <= d.rem
        /\ n < Len(s \o x) => te.rem = 0 /\ n = d.rem
        /\ peer = "open" => n + te.rem = d.rem /\ (te.rem > 0 => g + n = made)
  <2>1. Counted(d, s \o x, g, made, te.rem, peer)
    BY RemainsIs, Zenon
  <2> QED
    BY <2>1, Zenon DEF Counted
<1>2. ASSUME NEW i \in {"eof", "none"}, decode(d, s) = Result(d, s, i, <<>>), i = "eof" => d.rem = 0
      PROVE  Right(decode(d, s), d, g, x)
  <2>1. PICK r : /\ r = Result(d, s, i, <<>>) /\ r \in Outcomes
                 /\ r.dec = d /\ r.src = s /\ r.item = i /\ r.chunk = <<>>
    <3>1. i \in Items
      BY Zenon DEF Items
    <3>2. Result(d, s, i, <<>>) \in Outcomes
      BY <3>1, ResultOutcome, NothingRead, Zenon
    <3> QED
      BY <3>2 DEF Result
  <2>2. g + 0 = g
    OBVIOUS
  <2> QED
    BY <1>2, <2>1, <2>2, NothingRead, Zenon DEF Right, AtEnd
<1>3. CASE d.rem = 0
  <2>1. decode(d, s) = Result(d, s, "eof", <<>>)
    BY <1>3, Zenon DEF decode
  <2> QED
    BY <1>2, <1>3, <2>1, Zenon
<1>4. CASE d.rem # 0 /\ s = <<>>
  <2>1. decode(d, s) = Result(d, s, "none", <<>>)
    BY <1>4, Zenon DEF decode
  <2> QED
    BY <1>2, <2>1, Zenon
<1>5. CASE d.rem # 0 /\ s # <<>>
  <2>1. decode(d, s) = Piece(d, s, d.st)
    BY <1>5, Zenon DEF decode
  <2>2. PICK j \in 0 .. Len(s), c \in Decoders :
            /\ j = Least(d.rem, Len(s)) /\ j <= d.rem
            /\ decode(d, s) = Result(c, Rest(s, j), "chunk", SubSeq(s, 1, j))
            /\ c.kind = "Length" /\ c.rem = d.rem - j
    <3>1. d.st \in ChunkedStates
      BY Zenon DEF Decoders
    <3>2. PICK j \in 0 .. Len(s), c \in Decoders :
            /\ j = Least(d.rem, Len(s)) /\ j <= d.rem
            /\ Piece(d, s, d.st) = Result(c, Rest(s, j), "chunk", SubSeq(s, 1, j))
            /\ c.kind = d.kind /\ c.rem = d.rem - j /\ c.st = IF d.rem = j THEN d.st ELSE d.st
      BY <3>1, PieceIs, Zenon
    <3> QED
      BY <2>1, <3>2, Zenon
  <2>3. PICK h \in Nat, b \in Nat, f \in Nat, m \in Nat :
            /\ h = Len(s \o x) /\ b = d.rem /\ f = te.rem /\ m = made /\ j \in 0 .. h /\ j <= b
            /\ g + n <= m /\ n + f <= b /\ (n < h => f = 0 /\ n = b)
            /\ (peer = "open" => n + f = b /\ (f > 0 => g + n = m)) /\ n <= h
    <3>1. Len(s \o x) = Len(s) + Len(x) /\ Len(x) \in Nat /\ Len(s) \in Nat
      BY Joined
    <3>2. Len(s) + Len(x) \in Nat /\ j \in 0 .. Len(s) + Len(x)
      BY <2>2, <3>1
    <3>3. d.rem \in Nat
      BY Zenon DEF Decoders
    <3> QED
      BY <1>1, <2>2, <3>1, <3>2, <3>3, Zenon DEF Filled
  <2>4. j <= n
    BY <2>3
  <2>5. /\ Filled(Rest(s, j) \o x, g + j, n - j) /\ Len(Rest(s, j) \o x) = h - j
        /\ \A k \in 1 .. j : s[k] = Byte("data", g + k)
    <3>1. /\ Filled(Rest(s, j) \o x, g + j, n - j) /\ Len(Rest(s, j) \o x) = Len(s \o x) - j
          /\ \A k \in 1 .. j : s[k] = Byte("data", g + k)
      <4>1. Filled(s \o x, g, n) /\ j \in 0 .. Len(s) /\ n \in Nat
        BY <1>1, <2>2, Zenon
      <4> QED
        BY <2>4, <4>1, FilledShift
    <3> QED
      BY <2>3, <3>1, Zenon
  <2>6. /\ n - j \in Nat /\ (g + j) + (n - j) <= m /\ (n - j) + f <= b - j
        /\ (n - j < h - j => f = 0 /\ n - j = b - j)
        /\ (peer = "open" => (n - j) + f = b - j /\ (f > 0 => (g + j) + (n - j) = m))
    <3>1. j \in Nat /\ j <= b /\ g + n <= m /\ n + f <= b /\ (n < h => f = 0 /\ n = b)
      BY <2>3
    <3>2. /\ n - j \in Nat /\ (g + j) + (n - j) <= m /\ (n - j) + f <= b - j
          /\ (n - j < h - j => f = 0 /\ n - j = b - j) /\ (g + j) + (n - j) = g + n
          /\ (n + f = b => (n - j) + f = b - j)
      BY <2>4, <3>1
    <3> QED
      BY <2>3, <3>2, Zenon
  <2>7. Counted(c, Rest(s, j) \o x, g + j, made, te.rem, peer)
    BY <2>2, <2>3, <2>5, <2>6, Zenon DEF Counted
  <2>8. Remains(c, Rest(s, j) \o x, g + j)
    BY <2>2, <2>7, RemainsIs, Zenon
  <2>9. PICK y \in Seq(Alphabet) : /\ y = SubSeq(s, 1, j) /\ Len(y) = j
                                    /\ \A k \in 1 .. j : y[k] = Byte("data", g + k)
    <3>1. /\ SubSeq(s, 1, j) \in Seq(Alphabet) /\ Len(SubSeq(s, 1, j)) = j
          /\ \A i \in 1 .. j : SubSeq(s, 1, j)[i] = s[i]
      BY <2>2, Cut, Zenon
    <3> QED
      BY <2>5, <3>1, Zenon
  <2>10. PICK r : /\ r = Result(c, Rest(s, j), "chunk", y) /\ r \in Outcomes
                  /\ r.dec = c /\ r.src = Rest(s, j) /\ r.item = "chunk" /\ r.chunk = y
    <3>1. Rest(s, j) \in Seq(Alphabet) /\ "chunk" \in Items
      BY <2>2, Cut, Zenon DEF Items
    <3>2. Result(c, Rest(s, j), "chunk", y) \in Outcomes
      BY <2>2, <3>1, ResultOutcome, Zenon
    <3> QED
      BY <3>2 DEF Result
  <2>11. decode(d, s) = r
    BY <2>2, <2>9, <2>10, Zenon
  <2> QED
    BY <2>2, <2>8, <2>9, <2>10, <2>11, Zenon DEF Right, AtEnd
<1> QED
  BY <1>3, <1>4, <1>5, Zenon

(* It is right for a body that ends with the connection. *)
LEMMA EofRight ==
  ASSUME NEW d \in Decoders, d.kind = "Eof", NEW s \in Seq(Alphabet), NEW x \in Seq(Alphabet),
         NEW g \in Nat, made \in Nat, Remains(d, s \o x, g)
  PROVE  Right(decode(d, s), d, g, x)
<1>1. Flowing(s \o x, g, made, peer)
  BY RemainsIs, Zenon
<1>2. CASE s = <<>>
  <2>1. decode(d, s) = Result(d, s, "none", <<>>)
    BY <1>2, Zenon DEF decode
  <2>2. PICK r : /\ r = Result(d, s, "none", <<>>) /\ r \in Outcomes
                 /\ r.dec = d /\ r.src = s /\ r.item = "none" /\ r.chunk = <<>>
    <3>1. "none" \in Items
      BY Zenon DEF Items
    <3>2. Result(d, s, "none", <<>>) \in Outcomes
      BY <3>1, ResultOutcome, NothingRead, Zenon
    <3> QED
      BY <3>2 DEF Result
  <2>3. g + 0 = g
    OBVIOUS
  <2> QED
    BY <2>1, <2>2, <2>3, NothingRead, Zenon DEF Right, AtEnd
<1>3. CASE s # <<>>
  <2>1. decode(d, s) = Result(d, <<>>, "chunk", s)
    BY <1>3, Zenon DEF decode
  <2>2. PICK r : /\ r = Result(d, <<>>, "chunk", s) /\ r \in Outcomes
                 /\ r.dec = d /\ r.src = <<>> /\ r.item = "chunk" /\ r.chunk = s
    <3>1. "chunk" \in Items
      BY Zenon DEF Items
    <3>2. Result(d, <<>>, "chunk", s) \in Outcomes
      BY <3>1, ResultOutcome, NothingRead, Zenon
    <3> QED
      BY <3>2 DEF Result
  <2>3. PICK l \in Nat, h \in Nat, m \in Nat : l = Len(s) /\ h = Len(x) /\ m = made /\ Len(s \o x) = l + h
    <3>1. Len(s \o x) = Len(s) + Len(x) /\ Len(x) \in Nat /\ Len(s) \in Nat
      BY Joined
    <3> QED
      BY <3>1, Zenon
  <2>4. Filled(s \o x, g, l + h) /\ g + (l + h) <= m /\ (peer = "open" => g + (l + h) = m)
    BY <1>1, <2>3, Zenon DEF Flowing
  <2>5. l \in 0 .. Len(s) /\ l <= l + h /\ l + h \in Nat /\ (l + h) - l = h
    BY <2>3
  <2>6. /\ Filled(Rest(s, l) \o x, g + l, h) /\ \A k \in 1 .. l : s[k] = Byte("data", g + k)
    <3>1. /\ Filled(Rest(s, l) \o x, g + l, (l + h) - l)
          /\ \A k \in 1 .. l : s[k] = Byte("data", g + k)
      <4>1. Filled(s \o x, g, l + h)
        BY <2>4, Zenon
      <4> QED
        BY <2>5, <4>1, FilledShift
    <3> QED
      BY <2>5, <3>1, Zenon
  <2>7. Rest(s, l) = <<>>
    <3>1. Rest(s, l) \in Seq(Alphabet) /\ Len(Rest(s, l)) = 0
      <4>1. Rest(s, l) \in Seq(Alphabet) /\ Len(Rest(s, l)) = Len(s) - l
        BY <2>5, Cut, Zenon
      <4> QED
        BY <2>3, <4>1
    <3> QED
      BY <3>1
  <2>8. <<>> \o x = x
    OBVIOUS
  <2>9. (g + l) + h = g + (l + h)
    OBVIOUS
  <2>10. Flowing(<<>> \o x, g + l, made, peer)
    BY <2>3, <2>4, <2>6, <2>7, <2>8, <2>9, Zenon DEF Flowing
  <2>11. Remains(d, <<>> \o x, g + l)
    BY <2>10, RemainsIs, Zenon
  <2> QED
    BY <2>1, <2>2, <2>3, <2>6, <2>11, Zenon DEF Right, AtEnd
<1> QED
  BY <1>2, <1>3, Zenon

(* It is right for each framing. *)
LEMMA DecodeRight ==
  ASSUME NEW d \in Decoders, NEW s \in Seq(Alphabet), NEW x \in Seq(Alphabet),
         NEW g \in Nat, te.rem \in Nat, made \in Nat, Remains(d, s \o x, g)
  PROVE  Right(decode(d, s), d, g, x)
<1>1. d.kind \in {"Chunked", "Length", "Eof"}
  BY Zenon DEF Decoders, Kinds
<1>2. CASE d.kind = "Chunked"
  <2>1. decode(d, s) = Run(step(d, s))
    BY <1>2, Zenon DEF decode
  <2>2. Parsed(d, s \o x, g, made, writer, peer)
    BY <1>2, RemainsIs, Zenon
  <2>3. Good(Run(step(d, s)), g, x, made, writer, peer)
    BY <1>2, <2>2, RunGood, Zenon
  <2>4. PICK r : r = decode(d, s) /\ Good(r, g, x, made, writer, peer)
    BY <2>1, <2>3, Zenon
  <2>5. r.dec.kind = "Chunked"
    BY <2>4, Zenon DEF Good
  <2>6. r.item # "error" => Remains(r.dec, r.src \o x, g + Len(r.chunk))
    <3>1. r.item # "error" => Parsed(r.dec, r.src \o x, g + Len(r.chunk), made, writer, peer)
      BY <2>4, Zenon DEF Good
    <3> QED
      BY <2>5, <3>1, RemainsIs, Zenon
  <2> QED
    BY <1>2, <2>4, <2>5, <2>6, Zenon DEF Right, Good, AtEnd
<1> QED
  BY <1>1, <1>2, LengthRight, EofRight, Zenon

(* What decode takes from a buffer that has no framing *)
LEMMA DecodeClear ==
  ASSUME NEW d \in Decoders, d.kind # "Chunked", NEW s \in Seq(Alphabet), NEW x \in Seq(Alphabet),
         Clear(s \o x)
  PROVE  LET r == decode(d, s)
         IN  r \in Outcomes /\ r.dec.kind = d.kind /\ Clear(r.chunk) /\ Clear(r.src \o x)
<1>1. d.kind \in {"Length", "Eof"}
  BY Zenon DEF Decoders, Kinds
<1>2. PICK u \in Seq(Alphabet), l \in Nat, h \in Nat :
            /\ u = s \o x /\ l = Len(s) /\ h = Len(u) /\ l <= h /\ Clear(u)
            /\ \A i \in 1 .. l : u[i] = s[i]
  <2>1. /\ s \o x \in Seq(Alphabet) /\ Len(s \o x) = Len(s) + Len(x) /\ Len(x) \in Nat /\ Len(s) \in Nat
        /\ \A i \in 1 .. Len(s) : (s \o x)[i] = s[i]
    BY Joined
  <2>2. Len(s) + Len(x) \in Nat /\ Len(s) <= Len(s) + Len(x)
    BY <2>1
  <2> QED
    BY <2>1, <2>2, Zenon
<1>3. ASSUME NEW j \in 0 .. Len(s)
      PROVE  Clear(SubSeq(s, 1, j)) /\ Clear(Rest(s, j) \o x)
  <2>1. j \in 0 .. l /\ j \in 0 .. h
    BY <1>2
  <2>2. ASSUME NEW k \in 1 .. j PROVE SubSeq(s, 1, j)[k].t \in {"data", "more"}
    <3>1. k \in 1 .. l /\ k \in 1 .. h
      BY <1>2, <2>1
    <3>2. SubSeq(s, 1, j)[k] = s[k]
      BY Cut, Zenon
    <3> QED
      BY <1>2, <3>1, <3>2, Zenon DEF Clear
  <2>3. Rest(s, j) \o x = Rest(u, j) /\ Len(Rest(u, j)) = h - j
        /\ \A i \in 1 .. h - j : Rest(u, j)[i] = u[j + i]
    <3>1. Rest(s, j) \o x = Rest(s \o x, j)
      BY RestJoined, Zenon
    <3>2. j \in 0 .. Len(u)
      BY <1>2, <2>1, Zenon
    <3>3. Len(Rest(u, j)) = Len(u) - j /\ \A i \in 1 .. Len(u) - j : Rest(u, j)[i] = u[j + i]
      BY <3>2, Cut, Zenon
    <3> QED
      BY <1>2, <3>1, <3>3, Zenon
  <2>4. ASSUME NEW k \in 1 .. h - j PROVE Rest(u, j)[k].t \in {"data", "more"}
    <3>1. j + k \in 1 .. h
      BY <1>2, <2>1
    <3> QED
      BY <1>2, <2>3, <3>1, Zenon DEF Clear
  <2>5. Len(SubSeq(s, 1, j)) = j
    BY Cut, Zenon
  <2> QED
    BY <2>2, <2>3, <2>4, <2>5, Zenon DEF Clear
<1>4. Clear(<<>>) /\ Clear(s) /\ Clear(<<>> \o x)
  <2>1. 0 \in 0 .. Len(s) /\ Len(s) \in 0 .. Len(s)
    BY <1>2
  <2>2. SubSeq(s, 1, Len(s)) = s /\ Rest(s, Len(s)) = <<>>
    BY DEF Rest
  <2> QED
    BY <1>3, <2>1, <2>2, NothingRead, Zenon DEF Clear
<1>5. ASSUME NEW c \in Decoders, NEW y \in Seq(Alphabet), NEW i \in Items, NEW z \in Seq(Alphabet),
             decode(d, s) = Result(c, y, i, z), c.kind = d.kind, Clear(z), Clear(y \o x)
      PROVE  LET r == decode(d, s)
             IN  r \in Outcomes /\ r.dec.kind = d.kind /\ Clear(r.chunk) /\ Clear(r.src \o x)
  <2>1. PICK r : /\ r = Result(c, y, i, z) /\ r \in Outcomes /\ r.dec = c /\ r.src = y /\ r.chunk = z
    <3>1. Result(c, y, i, z) \in Outcomes
      BY ResultOutcome, Zenon
    <3>2. /\ Result(c, y, i, z).dec = c /\ Result(c, y, i, z).src = y
          /\ Result(c, y, i, z).chunk = z
      BY ResultFields
    <3> QED
      BY <3>1, <3>2, Zenon
  <2> QED
    BY <1>5, <2>1, Zenon
<1>6. "eof" \in Items /\ "none" \in Items /\ "chunk" \in Items
  BY Zenon DEF Items
<1>7. CASE d.kind = "Eof"
  <2>1. decode(d, s) = IF s = <<>> THEN Result(d, s, "none", <<>>) ELSE Result(d, <<>>, "chunk", s)
    BY <1>7, Zenon DEF decode
  <2> QED
    BY <1>4, <1>5, <1>6, <2>1, NothingRead, Zenon
<1>8. CASE d.kind = "Length" /\ (d.rem = 0 \/ s = <<>>)
  <2>1. \/ decode(d, s) = Result(d, s, "eof", <<>>)
        \/ decode(d, s) = Result(d, s, "none", <<>>)
    BY <1>8, Zenon DEF decode
  <2> QED
    BY <1>4, <1>5, <1>6, <2>1, NothingRead, Zenon
<1>9. CASE d.kind = "Length" /\ ~(d.rem = 0 \/ s = <<>>)
  <2>1. decode(d, s) = Piece(d, s, d.st)
    BY <1>9, Zenon DEF decode
  <2>2. PICK j \in 0 .. Len(s), c \in Decoders :
            decode(d, s) = Result(c, Rest(s, j), "chunk", SubSeq(s, 1, j)) /\ c.kind = d.kind
    <3>1. d.st \in ChunkedStates
      BY Zenon DEF Decoders
    <3>2. PICK j \in 0 .. Len(s), c \in Decoders :
            /\ j = Least(d.rem, Len(s)) /\ j <= d.rem
            /\ Piece(d, s, d.st) = Result(c, Rest(s, j), "chunk", SubSeq(s, 1, j))
            /\ c.kind = d.kind /\ c.rem = d.rem - j /\ c.st = IF d.rem = j THEN d.st ELSE d.st
      BY <3>1, PieceIs, Zenon
    <3> QED
      BY <2>1, <3>2, Zenon
  <2>3. Rest(s, j) \in Seq(Alphabet) /\ SubSeq(s, 1, j) \in Seq(Alphabet)
    BY <2>2, Cut, Zenon
  <2> QED
    BY <1>3, <1>5, <1>6, <2>2, <2>3, Zenon
<1> QED
  BY <1>1, <1>7, <1>8, <1>9, Zenon

(* What is still to be read, after the operations of the writer and of the   *)
(* connection                                                                *)
LEMMA ChunkCounted ==
  ASSUME NEW d \in Decoders, NEW s \in Seq(Alphabet), NEW g \in Nat, NEW m \in Nat,
         NEW n \in Nat, NEW r \in Nat, Counted(d, s, g, m, r, "open"),
         NEW j \in Nat, j <= r, j <= n, j < r => j = n
  PROVE  Bytes("data", m, j) \in Seq(Alphabet) /\ Counted(d, s \o Bytes("data", m, j), g, m + n, r - j, "open")
<1>1. PICK v \in Nat : v = d.rem
  BY Zenon DEF Decoders
<1>2. PICK k \in Nat : /\ Filled(s, g, k) /\ g + k <= m
                       /\ k < Len(s) => r = 0 /\ k = v
                       /\ k + r = v /\ (r > 0 => g + k = m)
  BY <1>1, Zenon DEF Counted
<1>3. PICK l \in Nat : l = Len(s)
  OBVIOUS
<1>4. /\ g + k <= m /\ (k < l => r = 0 /\ k = v) /\ k + r = v /\ (r > 0 => g + k = m) /\ k <= l
  BY <1>2, <1>3, Zenon DEF Filled
<1>5. (k = l \/ j = 0) /\ (j # 0 => g + k = m)
  BY <1>4
<1>6. /\ Bytes("data", m, j) \in Seq(Alphabet) /\ s \o Bytes("data", m, j) \in Seq(Alphabet)
      /\ Len(s \o Bytes("data", m, j)) = Len(s) + j /\ Filled(s \o Bytes("data", m, j), g, k + j)
  <2>1. Filled(s, g, k) /\ (k = Len(s) \/ j = 0)
    BY <1>2, <1>3, <1>5, Zenon
  <2> QED
    BY <1>5, <2>1, FilledData
<1>7. PICK e \in Nat, f \in Nat : e = r - j /\ f = k + j
  OBVIOUS
<1>8. /\ g + f <= m + n /\ f + e <= v /\ f + e = v /\ (e > 0 => g + f = m + n)
      /\ (f < l + j => e = 0 /\ f = v)
  BY <1>4, <1>7
<1>9. PICK u : /\ u = Bytes("data", m, j) /\ Len(s \o u) = l + j /\ Filled(s \o u, g, f)
  BY <1>3, <1>6, <1>7, Zenon
<1>10. Counted(d, s \o u, g, m + n, e, "open")
  BY <1>1, <1>8, <1>9, Zenon DEF Counted
<1> QED
  BY <1>6, <1>7, <1>9, <1>10, Zenon

(* A piece of a body that ends with the connection *)
LEMMA ChunkFlowing ==
  ASSUME NEW s \in Seq(Alphabet), NEW g \in Nat, NEW m \in Nat, NEW n \in Nat, Flowing(s, g, m, "open")
  PROVE  Bytes("data", m, n) \in Seq(Alphabet) /\ Flowing(s \o Bytes("data", m, n), g, m + n, "open")
<1>1. PICK l \in Nat : l = Len(s)
  OBVIOUS
<1>2. Filled(s, g, l) /\ g + l = m
  BY <1>1, Zenon DEF Flowing
<1>3. /\ Bytes("data", m, n) \in Seq(Alphabet) /\ s \o Bytes("data", m, n) \in Seq(Alphabet)
      /\ Len(s \o Bytes("data", m, n)) = Len(s) + n /\ Filled(s \o Bytes("data", m, n), g, l + n)
  <2>1. Filled(s, g, l) /\ (l = Len(s) \/ n = 0)
    BY <1>1, <1>2, Zenon
  <2>2. n # 0 => g + l = m
    BY <1>2, Zenon
  <2> QED
    BY <2>1, <2>2, FilledData, Zenon
<1>4. g + (l + n) = m + n /\ m + n <= m + n
  BY <1>2
<1> QED
  BY <1>1, <1>3, <1>4, Zenon DEF Flowing

(* A piece of the body, under each framing *)
LEMMA ChunkRemains ==
  ASSUME NEW d \in Decoders, NEW s \in Seq(Alphabet), NEW g \in Nat, NEW m \in Nat,
         NEW n \in Nat \ {0}, NEW r \in Nat, Remaining(d, s, g, m, "body", "open", r),
         NEW t, NEW z,
         d.kind = "Chunked" => t = ChunkOf(m, n),
         d.kind = "Length" => t = Bytes("data", m, Least(r, n)) /\ z = r - Least(r, n),
         d.kind = "Eof" => t = Bytes("data", m, n)
  PROVE  t \in Seq(Alphabet) /\ Remaining(d, s \o t, g, m + n, "body", "open", z)
<1>1. d.kind \in {"Chunked", "Length", "Eof"}
  BY Zenon DEF Decoders, Kinds
<1>2. n \in Nat
  BY Zenon
<1>3. CASE d.kind = "Chunked"
  <2>1. Parsed(d, s, g, m, "body", "open")
    BY <1>3, RemainingIs, Zenon
  <2>2. Parsed(d, s \o ChunkOf(m, n), g, m + n, "body", "open")
    BY <2>1, ChunkParsed, Zenon
  <2>3. ChunkOf(m, n) \in Seq(Alphabet)
    BY <1>2, ChunkBytes, Zenon
  <2> QED
    BY <1>3, <2>2, <2>3, RemainingIs, Zenon
<1>4. CASE d.kind = "Length"
  <2>1. PICK j \in Nat : j = Least(r, n) /\ j <= r /\ j <= n /\ (j < r => j = n)
    BY <1>2 DEF Least
  <2>2. Counted(d, s, g, m, r, "open")
    BY <1>4, RemainingIs, Zenon
  <2>3. Bytes("data", m, j) \in Seq(Alphabet) /\ Counted(d, s \o Bytes("data", m, j), g, m + n, r - j, "open")
    BY <1>2, <2>1, <2>2, ChunkCounted, Zenon
  <2> QED
    BY <1>4, <2>1, <2>3, RemainingIs, Zenon
<1>5. CASE d.kind = "Eof"
  BY <1>2, <1>5, ChunkFlowing, RemainingIs, Zenon
<1> QED
  BY <1>1, <1>3, <1>4, <1>5, Zenon

(* The end of the body *)
LEMMA DoneRemains ==
  ASSUME NEW d \in Decoders, NEW s \in Seq(Alphabet), NEW g, NEW m \in Nat,
         NEW r, Remaining(d, s, g, m, "body", "open", r), NEW t,
         t = IF d.kind = "Chunked" THEN LastChunk ELSE <<>>
  PROVE  Remaining(d, s \o t, g, m, "done", "open", r)
<1>1. d.kind \in {"Chunked", "Length", "Eof"}
  BY Zenon DEF Decoders, Kinds
<1>2. s \o <<>> = s
  OBVIOUS
<1> QED
  BY <1>1, <1>2, EndParsed, RemainingIs, Zenon

(* A chunked body that is broken off *)
LEMMA FailedRemains ==
  ASSUME NEW d, d.kind = "Chunked", NEW s \in Seq(Alphabet), NEW g, NEW m \in Nat, NEW r,
         Remaining(d, s, g, m, "body", "open", r),
         NEW t \in Seq(Alphabet), \A k \in 1 .. Len(t) : t[k].t = "more"
  PROVE  Remaining(d, s \o t, g, m, "failed", "open", r)
<1>1. Parsed(d, s, g, m, "body", "open")
  BY RemainingIs, Zenon
<1>2. "body" \in {"body", "done"}
  BY Zenon
<1>3. Parsed(d, s \o t, g, m, IF "body" = "body" THEN "failed" ELSE "done", "open")
  BY <1>1, <1>2, MoreParsed, Zenon
<1> QED
  BY <1>3, RemainingIs, Zenon

(* The next message, behind the end of the body *)
LEMMA FollowRemains ==
  ASSUME NEW d \in Decoders, d.kind # "Eof", NEW s \in Seq(Alphabet), NEW g, NEW m \in Nat, NEW r,
         d.kind = "Length" => r = 0,
         Remaining(d, s, g, m, "done", "open", r),
         NEW t \in Seq(Alphabet), \A k \in 1 .. Len(t) : t[k].t = "more"
  PROVE  Remaining(d, s \o t, g, m, "done", "open", r)
<1>1. CASE d.kind = "Chunked"
  <2>1. Parsed(d, s, g, m, "done", "open")
    BY <1>1, RemainingIs, Zenon
  <2>2. "done" \in {"body", "done"} /\ "done" # "body"
    BY Zenon
  <2>3. Parsed(d, s \o t, g, m, IF "done" = "body" THEN "failed" ELSE "done", "open")
    BY <2>1, <2>2, MoreParsed, Zenon
  <2> QED
    BY <1>1, <2>2, <2>3, RemainingIs, Zenon
<1>2. CASE d.kind = "Length"
  <2>1. PICK n \in Nat : /\ Filled(s, g, n) /\ g + n <= m /\ n + r <= d.rem
                         /\ n + r = d.rem /\ (r > 0 => g + n = m)
    <3>1. Counted(d, s, g, m, r, "open")
      BY <1>2, RemainingIs, Zenon
    <3> QED
      BY <3>1, Zenon DEF Counted
  <2>2. r = 0 /\ n + 0 = n
    BY <1>2
  <2>3. Filled(s \o t, g, n)
    BY <2>1, FilledMore, Zenon
  <2>4. Counted(d, s \o t, g, m, r, "open")
    BY <2>1, <2>2, <2>3, Zenon DEF Counted
  <2> QED
    BY <1>2, <2>4, RemainingIs, Zenon
<1> QED
  BY <1>1, <1>2, Zenon DEF Decoders, Kinds

(* The connection is closed. *)
LEMMA ClosedRemains ==
  ASSUME NEW d \in Decoders, NEW s, NEW g, NEW m, NEW w, NEW r, Remaining(d, s, g, m, w, "open", r)
  PROVE  Remaining(d, s, g, m, w, "closed", r)
<1>1. d.kind \in {"Chunked", "Length", "Eof"}
  BY Zenon DEF Decoders, Kinds
<1>2. Counted(d, s, g, m, r, "open") => Counted(d, s, g, m, r, "closed")
  BY Zenon DEF Counted
<1>3. Flowing(s, g, m, "open") => Flowing(s, g, m, "closed")
  BY Zenon DEF Flowing
<1> QED
  BY <1>1, <1>2, <1>3, ClosedParsed, RemainingIs, Zenon

(* The connection is lost with what was on its way. *)
LEMMA LostRemains ==
  ASSUME NEW d \in Decoders, NEW s \in Seq(Alphabet), NEW x \in Seq(Alphabet), NEW g \in Nat,
         NEW m \in Nat, NEW w, NEW p, NEW r \in Nat, Remaining(d, s \o x, g, m, w, p, r)
  PROVE  Remaining(d, s, g, m, w, "lost", r)
<1>1. d.kind \in {"Chunked", "Length", "Eof"}
  BY Zenon DEF Decoders, Kinds
<1>2. PICK l \in Nat, h \in Nat : l = Len(s) /\ h = Len(s \o x) /\ l <= h
  <2>1. Len(s \o x) = Len(s) + Len(x) /\ Len(x) \in Nat /\ Len(s) \in Nat
    BY Joined
  <2>2. Len(s) + Len(x) \in Nat /\ Len(s) <= Len(s) + Len(x)
    BY <2>1
  <2> QED
    BY <2>1, <2>2, Zenon
<1>3. CASE d.kind = "Chunked"
  BY <1>3, LostParsed, RemainingIs, Zenon
<1>4. CASE d.kind = "Length"
  <2>1. PICK n \in Nat : /\ Filled(s \o x, g, n) /\ g + n <= m /\ n + r <= d.rem
                         /\ n < h => r = 0 /\ n = d.rem
    <3>1. Counted(d, s \o x, g, m, r, p)
      BY <1>4, RemainingIs, Zenon
    <3> QED
      BY <1>2, <3>1, Zenon DEF Counted
  <2>2. PICK j \in Nat : j = Least(n, l) /\ j <= n /\ (j < l => j = n)
    BY DEF Least
  <2>3. Filled(s, g, j)
    BY <1>2, <2>1, <2>2, FilledPrefix, Zenon
  <2>4. d.rem \in Nat
    BY Zenon DEF Decoders
  <2>5. g + j <= m /\ j + r <= d.rem /\ (j < l => r = 0 /\ j = d.rem)
    BY <1>2, <2>1, <2>2, <2>4
  <2>6. Counted(d, s, g, m, r, "lost")
    BY <1>2, <2>3, <2>5, Zenon DEF Counted
  <2> QED
    BY <1>4, <2>6, RemainingIs, Zenon
<1>5. CASE d.kind = "Eof"
  <2>1. Filled(s \o x, g, h) /\ g + h <= m
    <3>1. Flowing(s \o x, g, m, p)
      BY <1>5, RemainingIs, Zenon
    <3> QED
      BY <1>2, <3>1, Zenon DEF Flowing
  <2>2. Least(h, l) = l /\ g + l <= m
    BY <1>2, <2>1 DEF Least
  <2>3. Filled(s, g, l)
    BY <1>2, <2>1, <2>2, FilledPrefix, Zenon
  <2>4. Flowing(s, g, m, "lost")
    BY <1>2, <2>2, <2>3, Zenon DEF Flowing
  <2> QED
    BY <1>5, <2>4, RemainingIs, Zenon
<1> QED
  BY <1>1, <1>3, <1>4, <1>5, Zenon

(* What a body that remains says of the bytes that were read, and of its end *)
LEMMA RemainingBound ==
  ASSUME NEW d \in Decoders, NEW s \in Seq(Alphabet), NEW g \in Nat, NEW m \in Nat, NEW w, NEW p,
         NEW r \in Nat, Remaining(d, s, g, m, w, p, r)
  PROVE  g <= m
<1>1. d.kind \in {"Chunked", "Length", "Eof"}
  BY Zenon DEF Decoders, Kinds
<1>2. PICK l \in Nat : l = Len(s) /\ 1 \in 1 .. l + 1
  OBVIOUS
<1>3. CASE d.kind = "Chunked"
  <2>1. PICK a : a = At(d.st, d.rem, g) /\ a.pos <= m
    <3>1. Parsed(d, s, g, m, w, p)
      BY <1>3, RemainingIs, Zenon
    <3> QED
      BY <1>2, <3>1, Zenon DEF Parsed, Behind
  <2> QED
    BY <2>1, AtFields
<1>4. CASE d.kind = "Length"
  <2>1. PICK n \in Nat : g + n <= m
    <3>1. Counted(d, s, g, m, r, p)
      BY <1>4, RemainingIs, Zenon
    <3> QED
      BY <3>1, Zenon DEF Counted
  <2> QED
    BY <2>1
<1>5. CASE d.kind = "Eof"
  <2>1. g + l <= m
    <3>1. Flowing(s, g, m, p)
      BY <1>5, RemainingIs, Zenon
    <3> QED
      BY <1>2, <3>1, Zenon DEF Flowing
  <2> QED
    BY <2>1
<1> QED
  BY <1>1, <1>3, <1>4, <1>5, Zenon

(* At the decoder's end nothing of the body is left in the stream. *)
LEMMA EndRemains ==
  ASSUME NEW d \in Decoders, NEW s \in Seq(Alphabet), NEW g \in Nat, NEW m \in Nat, NEW w, NEW p,
         NEW r \in Nat, Remaining(d, s, g, m, w, p, r),
         AtEnd(d)
  PROVE  /\ \A k \in 1 .. Len(s) : s[k].t = "more"
         /\ d.kind = "Chunked" => g = m /\ w = "done"
         /\ d.kind = "Length" => r = 0
<1>1. CASE d.kind = "Chunked"
  <2>1. PICK l \in Nat : l = Len(s) /\ 1 \in 1 .. l + 1
    OBVIOUS
  <2>2. PICK q : /\ Way(q, s) /\ q[1] = At(d.st, d.rem, g)
                 /\ \A k \in 1 .. Len(s) + 1 : Behind(q[k], m, w)
    <3>1. Parsed(d, s, g, m, w, p)
      BY <1>1, RemainingIs, Zenon
    <3> QED
      BY <3>1, Zenon DEF Parsed
  <2>3. q[1].st = "End" /\ q[1].pos = g
    <3>1. d.st = "End"
      BY <1>1, Zenon DEF AtEnd
    <3> QED
      BY <2>2, <3>1, AtFields
  <2>4. \A j \in 1 .. Len(s) : s[j].t = "more"
    BY <2>1, <2>2, <2>3, Zenon DEF Way
  <2>5. g = m /\ w = "done"
    BY <2>1, <2>2, <2>3, Zenon DEF Behind, Closing
  <2> QED
    BY <1>1, <2>4, <2>5, Zenon
<1>2. CASE d.kind = "Length"
  <2>1. PICK n \in Nat : Filled(s, g, n) /\ n + r <= d.rem
    <3>1. Counted(d, s, g, m, r, p)
      BY <1>2, RemainingIs, Zenon
    <3> QED
      BY <3>1, Zenon DEF Counted
  <2>2. n = 0 /\ r = 0
    <3>1. d.rem = 0
      <4>1. "Length" # "Chunked"
        OBVIOUS
      <4> QED
        BY <1>2, <4>1, Zenon DEF AtEnd
    <3> QED
      BY <2>1, <3>1
  <2>3. \A k \in 1 .. Len(s) : ~(k <= 0)
    OBVIOUS
  <2>4. \A k \in 1 .. Len(s) : s[k].t = "more"
    BY <2>1, <2>2, <2>3, Zenon DEF Filled
  <2> QED
    BY <1>2, <2>2, <2>4, Zenon
<1> QED
  BY <1>1, <1>2, Zenon DEF AtEnd

-----------------------------------------------------------------------------
(* The two ends of the stream *)
LEMMA StreamSeq ==
  ASSUME BodyTypes
  PROVE  Stream \in Seq(Alphabet) /\ src \in Seq(Alphabet) /\ wire \in Seq(Alphabet)
<1>1. src \in Seq(Alphabet) /\ wire \in Seq(Alphabet)
  BY Zenon DEF BodyTypes
<1> QED
  BY <1>1, Joined, Zenon DEF Stream

(* Concatenation of three *)
LEMMA Associates ==
  ASSUME NEW s \in Seq(Alphabet), NEW t \in Seq(Alphabet), NEW u \in Seq(Alphabet)
  PROVE  (s \o t) \o u = s \o (t \o u)
BY ConcatAssociative

(* A sequence is its two parts. *)
LEMMA Uncut ==
  ASSUME NEW s \in Seq(Alphabet), NEW n \in 0 .. Len(s)
  PROVE  SubSeq(s, 1, n) \o Rest(s, n) = s
<1>1. PICK l \in Nat : l = Len(s)
  OBVIOUS
<1>2. PICK a \in Seq(Alphabet), b \in Seq(Alphabet) :
        /\ a = SubSeq(s, 1, n) /\ b = Rest(s, n) /\ Len(a) = n /\ Len(b) = l - n
        /\ \A i \in 1 .. n : a[i] = s[i]
        /\ \A i \in 1 .. l - n : b[i] = s[n + i]
  BY <1>1, Cut, Zenon
<1>3. PICK u \in Seq(Alphabet) : u = a \o b
  BY Joined, Zenon
<1>4. /\ Len(u) = n + (l - n) /\ \A i \in 1 .. n : u[i] = a[i]
      /\ \A i \in 1 .. l - n : u[n + i] = b[i]
  <2>1. /\ Len(a \o b) = Len(a) + Len(b)
        /\ \A i \in 1 .. Len(a) : (a \o b)[i] = a[i]
        /\ \A i \in 1 .. Len(b) : (a \o b)[Len(a) + i] = b[i]
    BY Joined, Zenon
  <2> QED
    BY <1>2, <1>3, <2>1, Zenon
<1>5. n + (l - n) = l
  BY <1>1
<1>6. ASSUME NEW k \in 1 .. l PROVE u[k] = s[k]
  <2>1. k \in 1 .. n \/ \E i \in 1 .. l - n : k = n + i
    <3>1. k > n => k - n \in 1 .. l - n /\ k = n + (k - n)
      BY <1>1
    <3>2. k <= n => k \in 1 .. n
      BY <1>1
    <3>3. k > n \/ k <= n
      BY <1>1
    <3> QED
      BY <3>1, <3>2, <3>3, Zenon
  <2> QED
    BY <1>2, <1>4, <2>1, Zenon
<1>7. u = s
  <2>1. Len(u) = Len(s) /\ \A i \in 1 .. Len(u) : u[i] = s[i]
    BY <1>1, <1>4, <1>5, <1>6, Zenon
  <2> QED
    BY <2>1, SeqEqual, Zenon
<1> QED
  BY <1>2, <1>3, <1>7, Zenon

(* What is written comes last in the stream. *)
LEMMA StreamGrows ==
  ASSUME BodyTypes, NEW t \in Seq(Alphabet), wire' = wire \o t, src' = src
  PROVE  wire' \in Seq(Alphabet) /\ Stream' = Stream \o t
<1>1. src \in Seq(Alphabet) /\ wire \in Seq(Alphabet)
  BY StreamSeq, Zenon
<1>2. (src \o wire) \o t = src \o (wire \o t)
  BY <1>1, Associates, Zenon
<1> QED
  BY <1>1, <1>2, Joined, Zenon DEF Stream

(* Types of bytes, in a concatenation *)
LEMMA ClearJoin ==
  ASSUME NEW s \in Seq(Alphabet), NEW t \in Seq(Alphabet), NEW T,
         \A k \in 1 .. Len(s) : s[k].t \in T, \A k \in 1 .. Len(t) : t[k].t \in T
  PROVE  \A k \in 1 .. Len(s \o t) : (s \o t)[k].t \in T
<1>1. PICK l \in Nat, h \in Nat : l = Len(s) /\ h = Len(t)
  OBVIOUS
<1>2. PICK u : u = s \o t
  BY Zenon
<1>3. /\ Len(u) = l + h /\ \A i \in 1 .. l : u[i] = s[i]
      /\ \A i \in 1 .. h : u[l + i] = t[i]
  <2>1. /\ Len(s \o t) = Len(s) + Len(t)
        /\ \A i \in 1 .. Len(s) : (s \o t)[i] = s[i]
        /\ \A i \in 1 .. Len(t) : (s \o t)[Len(s) + i] = t[i]
    BY Joined, Zenon
  <2> QED
    BY <1>1, <1>2, <2>1, Zenon
<1>4. ASSUME NEW k \in 1 .. l + h PROVE u[k].t \in T
  <2>1. k \in 1 .. l \/ \E i \in 1 .. h : k = l + i
    <3>1. k > l => k - l \in 1 .. h /\ k = l + (k - l)
      OBVIOUS
    <3>2. k <= l => k \in 1 .. l
      OBVIOUS
    <3>3. k > l \/ k <= l
      OBVIOUS
    <3> QED
      BY <3>1, <3>2, <3>3, Zenon
  <2> QED
    BY <1>1, <1>3, <2>1, Zenon
<1> QED
  BY <1>2, <1>3, <1>4, Zenon

(* What a write keeps for a reader that has not ended, or at a finished body *)
LEMMA WriteKeeps ==
  ASSUME BodyInv, NEW t \in Seq(Alphabet), wire' = wire \o t,
         UNCHANGED <<reading, fixed>>,
         BodyTypes', ~Blurred' => ~Blurred, made <= made',
         ~Blurred' => (reader = "reading" =>
            (Remains(dec, Stream, Len(got)) =>
                Remaining(dec, Stream \o t, Len(got), made', writer', peer', te'.rem))),
         ~Blurred' => (Finished => /\ Whole' /\ te'.kind = te.kind
                                   /\ te.kind # "Length" => made' = made /\ writer' = writer
                                   /\ \A k \in 1 .. Len(t) : t[k].t = "more")
  PROVE  BodyInv'
<1>1. reader' = reader /\ got' = got /\ dec' = dec /\ src' = src /\ conn' = conn /\ http_10' = http_10
  BY Zenon DEF reading, fixed
<1>2. BodyTypes
  BY Zenon DEF BodyInv
<1>3. Stream' = Stream \o t /\ Stream \in Seq(Alphabet)
  BY <1>1, <1>2, StreamGrows, StreamSeq, Zenon
<1>4. ASSUME ~Blurred' PROVE ~Blurred
  BY <1>4, Zenon
<1>5. ASSUME ~Blurred' PROVE \A k \in 1 .. Len(got') : got'[k] = Byte("data", k)
  BY <1>1, <1>4, <1>5, Zenon DEF BodyInv
<1>6. ASSUME ~Blurred' PROVE Len(got') <= made'
  <2>1. Len(got) <= made
    BY <1>4, <1>6, Zenon DEF BodyInv
  <2>2. Len(got) \in Nat /\ made \in Nat /\ made' \in Nat
    <3>1. got \in Seq(Alphabet) /\ made \in 0 .. MaxBody /\ made' \in 0 .. MaxBody
      BY <1>2, Zenon DEF BodyTypes
    <3> QED
      BY <3>1, BodyAssumption
  <2> QED
    BY <1>1, <2>1, <2>2
<1>7. ASSUME ~Blurred', reader' = "reading" PROVE Remains(dec, Stream, Len(got))'
  BY <1>1, <1>3, <1>4, <1>7, Zenon DEF BodyInv, Remains
<1>8. ASSUME ~Blurred', reader' = "end", ~http_10' \/ conn' = "pooled" PROVE Finished'
  <2>1. Finished
    BY <1>1, <1>4, <1>8, Zenon DEF BodyInv
  <2>2. /\ Whole' /\ te'.kind = te.kind /\ (te.kind # "Length" => made' = made /\ writer' = writer)
        /\ \A k \in 1 .. Len(t) : t[k].t = "more"
    BY <1>8, <2>1, Zenon
  <2>3. \A k \in 1 .. Len(Stream) : Stream[k].t = "more"
    BY <2>1, Zenon DEF Finished
  <2>4. \A k \in 1 .. Len(Stream \o t) : (Stream \o t)[k].t \in {"more"}
    <3>1. \A k \in 1 .. Len(Stream) : Stream[k].t \in {"more"}
      BY <2>3, Zenon
    <3>2. \A k \in 1 .. Len(t) : t[k].t \in {"more"}
      BY <2>2, Zenon
    <3> QED
      BY <1>3, <3>1, <3>2, ClearJoin, Zenon
  <2>5. te.kind = "Length" \/ (Len(got) = made /\ writer = "done")
    BY <2>1, Zenon DEF Finished
  <2>6. te'.kind = "Length" \/ (Len(got') = made' /\ writer' = "done")
    BY <1>1, <2>2, <2>5, Zenon
  <2>7. \A k \in 1 .. Len(Stream') : Stream'[k].t = "more"
    BY <1>3, <2>4, Zenon
  <2> QED
    BY <2>2, <2>6, <2>7, Zenon DEF Finished
<1>9. ASSUME ~Blurred', conn' = "pooled" PROVE reader' = "end" /\ src' = <<>>
  BY <1>1, <1>4, <1>9, Zenon DEF BodyInv
<1> QED
  BY <1>5, <1>6, <1>7, <1>8, <1>9, Zenon DEF BodyInv

(* The last chunk is a sequence of bytes. *)
LEMMA LastChunkSeq == LastChunk \in Seq(Alphabet)
<1>1. Byte("hex", 0) \in Alphabet /\ CR \in Alphabet /\ LF \in Alphabet
  BY Zenon DEF Byte, CR, LF, Alphabet, ByteTypes
<1> QED
  BY <1>1 DEF LastChunk

(* A step of the writer keeps the types. *)
LEMMA WriteTypes ==
  ASSUME BodyTypes, NEW t \in Seq(Alphabet), wire' = wire \o t, UNCHANGED <<reading, fixed>>,
         te' \in [kind : Kinds, rem : Nat, eof : BOOLEAN], te'.kind = te.kind,
         made' \in 0 .. MaxBody, writer' \in {"body", "done", "failed"}, peer' = peer,
         te.kind # "Chunked" => Clear(t),
         te.kind = "Chunked" => (te'.eof <=> writer' = "done"),
         te.kind = "Length" => (writer' = "done" => te'.rem = 0)
  PROVE  BodyTypes'
<1>1. /\ reader' = reader /\ got' = got /\ dec' = dec /\ src' = src /\ conn' = conn /\ http_10' = http_10
      /\ keepalive' = keepalive
  BY Zenon DEF reading, fixed
<1>2. Stream' = Stream \o t /\ Stream \in Seq(Alphabet) /\ wire' \in Seq(Alphabet)
  BY <1>1, StreamGrows, StreamSeq, Zenon
<1>3. te.kind # "Chunked" => Clear(Stream')
  <2>1. ASSUME te.kind # "Chunked" PROVE Clear(Stream \o t)
    <3>1. Clear(Stream) /\ Clear(t)
      BY <2>1, Zenon DEF BodyTypes
    <3> QED
      BY <1>2, <3>1, ClearJoin, Zenon DEF Clear
  <2> QED
    BY <1>2, <2>1, Zenon
<1> QED
  BY <1>1, <1>2, <1>3, Zenon DEF BodyTypes, Clear

(* Bytes of the body are not framing. *)
LEMMA DataClear ==
  ASSUME NEW m \in Nat, NEW j \in Nat
  PROVE  Clear(Bytes("data", m, j)) /\ Bytes("data", m, j) \in Seq(Alphabet) /\ Len(Bytes("data", m, j)) = j
<1>1. "data" \in ByteTypes
  BY Zenon DEF ByteTypes
<1>2. /\ Bytes("data", m, j) \in Seq(Alphabet) /\ Len(Bytes("data", m, j)) = j
      /\ \A k \in 1 .. j : Bytes("data", m, j)[k] = Byte("data", m + k)
  BY <1>1, BytesSeq, Zenon
<1>3. \A k : Byte("data", m + k).t = "data"
  BY Zenon DEF Byte
<1> QED
  BY <1>2, <1>3, Zenon DEF Clear

(* Neither are those of another message. *)
LEMMA MoreClear ==
  ASSUME NEW j \in Nat
  PROVE  /\ Clear(Bytes("more", 0, j)) /\ Bytes("more", 0, j) \in Seq(Alphabet)
         /\ \A k \in 1 .. Len(Bytes("more", 0, j)) : Bytes("more", 0, j)[k].t = "more"
<1>1. "more" \in ByteTypes /\ 0 \in Nat
  BY Zenon DEF ByteTypes
<1>2. /\ Bytes("more", 0, j) \in Seq(Alphabet) /\ Len(Bytes("more", 0, j)) = j
      /\ \A k \in 1 .. j : Bytes("more", 0, j)[k] = Byte("more", 0 + k)
  BY <1>1, BytesSeq, Zenon
<1>3. \A k : Byte("more", 0 + k).t = "more"
  BY Zenon DEF Byte
<1> QED
  BY <1>2, <1>3, Zenon DEF Clear

(* BodyStream's next piece, encoded *)
LEMMA ChunkKeeps ==
  ASSUME BodyInv, NEW n \in Sizes, Chunk(n)
  PROVE  BodyInv'
<1>1. /\ BodyTypes /\ te \in [kind : Kinds, rem : Nat, eof : BOOLEAN] /\ made \in 0 .. MaxBody
      /\ dec \in Decoders /\ dec.kind = te.kind /\ got \in Seq(Alphabet)
  BY Zenon DEF BodyInv, BodyTypes
<1>2. /\ writer = "body" /\ peer = "open" /\ writer' = "body" /\ peer' = peer
      /\ UNCHANGED <<reading, fixed>> /\ encode(n) /\ n > 0 /\ made + n <= MaxBody /\ made' = made + n
  BY Zenon DEF Chunk, poll_next_chunk, reading, fixed
<1>3. PICK m \in Nat, r \in Nat, g \in Nat : m = made /\ r = te.rem /\ g = Len(got)
  <2>1. made \in Nat
    BY <1>1, BodyAssumption
  <2>2. te.rem \in Nat
    BY <1>1, Zenon
  <2>3. Len(got) \in Nat
    BY <1>1
  <2> QED
    BY <2>1, <2>2, <2>3, Zenon
<1>4. n \in Nat \ {0} /\ m + n \in 0 .. MaxBody /\ m <= m + n
  BY <1>2, <1>3, BodyAssumption
<1>5. te.kind \in Kinds
  BY <1>1, Zenon
<1>6. PICK j \in Nat : j = Least(r, n) /\ j <= r /\ r - j \in Nat /\ (r = 0 => j = 0 /\ r - j = 0)
  BY <1>4 DEF Least
<1>7. PICK t :
        /\ wire' = wire \o t
        /\ te' \in [kind : Kinds, rem : Nat, eof : BOOLEAN] /\ te'.kind = te.kind
        /\ te.kind = "Chunked" => t = ChunkOf(m, n) /\ te'.eof = FALSE
        /\ te.kind = "Length" => t = Bytes("data", m, j) /\ te'.rem = r - j
        /\ te.kind = "Eof" => t = Bytes("data", m, n)
  <2>1. CASE te.kind = "Eof"
    <3>1. wire' = wire \o Bytes("data", made, n) /\ te' = te
      BY <1>2, <2>1, Zenon DEF encode
    <3>2. "Eof" # "Chunked" /\ "Eof" # "Length"
      BY Zenon
    <3> QED
      BY <1>1, <1>3, <2>1, <3>1, <3>2, Zenon
  <2>2. CASE te.kind = "Chunked"
    <3>1. wire' = wire \o EncodeChunked(n) /\ te' = [te EXCEPT !.eof = @ \/ n = 0]
      BY <1>2, <2>2, Zenon DEF encode
    <3>2. te.eof = FALSE
      <4>1. te.eof <=> writer = "done"
        BY <1>1, <2>2, Zenon DEF BodyTypes
      <4>2. ~te.eof /\ te.eof \in BOOLEAN
        BY <1>1, <1>2, <4>1, Zenon
      <4> QED
        BY <4>2, Zenon
    <3>3. EncodeChunked(n) = ChunkOf(m, n)
      <4>1. n # 0
        BY <1>4, Zenon
      <4> QED
        BY <1>3, <3>2, <4>1, Zenon DEF EncodeChunked, ChunkOf
    <3>4. (te.eof \/ n = 0) = FALSE
      BY <1>4, <3>2, Zenon
    <3>5. te' = [te EXCEPT !.eof = FALSE]
      BY <3>1, <3>4, Zenon
    <3>6. te' \in [kind : Kinds, rem : Nat, eof : BOOLEAN] /\ te'.kind = te.kind /\ te'.rem = r /\ te'.eof = FALSE
      BY <1>1, <1>3, <3>5, Zenon
    <3>7. "Eof" # "Chunked" /\ "Chunked" # "Length"
      BY Zenon
    <3> QED
      BY <1>3, <2>2, <3>1, <3>3, <3>6, <3>7, Zenon
  <2>3. CASE te.kind = "Length"
    <3>1. wire' = wire \o Bytes("data", made, Least(te.rem, n)) /\ te' = [te EXCEPT !.rem = @ - Least(@, n)]
      BY <1>2, <2>3, Zenon DEF encode
    <3>2. wire' = wire \o Bytes("data", m, j) /\ te' = [te EXCEPT !.rem = r - j]
      BY <1>3, <1>6, <3>1, Zenon
    <3>3. te' \in [kind : Kinds, rem : Nat, eof : BOOLEAN] /\ te'.kind = te.kind /\ te'.rem = r - j
      BY <1>1, <1>6, <3>2, Zenon
    <3>4. "Eof" # "Length" /\ "Chunked" # "Length"
      BY Zenon
    <3> QED
      BY <1>6, <2>3, <3>2, <3>3, <3>4, Zenon
  <2> QED
    BY <1>5, <2>1, <2>2, <2>3, Zenon DEF Kinds
<1>8. t \in Seq(Alphabet) /\ (te.kind # "Chunked" => Clear(t)) /\ (te.kind = "Length" => Len(t) = j)
  <2>1. n \in Nat
    BY <1>4, Zenon
  <2>2. ChunkOf(m, n) \in Seq(Alphabet)
    BY <2>1, ChunkBytes, Zenon
  <2> QED
    <3>1. "Chunked" # "Length" /\ "Eof" # "Length"
      BY Zenon
    <3>2. te.kind \in {"Chunked", "Length", "Eof"}
      BY <1>5, Zenon DEF Kinds
    <3>3. CASE te.kind = "Chunked"
      BY <1>7, <2>2, <3>1, <3>3, Zenon
    <3>4. CASE te.kind = "Length"
      <4>1. t = Bytes("data", m, j)
        BY <1>7, <3>4, Zenon
      <4>2. t \in Seq(Alphabet) /\ Clear(t) /\ Len(t) = j
        BY <4>1, DataClear, Zenon
      <4> QED
        BY <4>2, Zenon
    <3>5. CASE te.kind = "Eof"
      <4>1. t = Bytes("data", m, n)
        BY <1>7, <3>5, Zenon
      <4>2. t \in Seq(Alphabet) /\ Clear(t)
        BY <2>1, <4>1, DataClear, Zenon
      <4> QED
        BY <3>1, <3>5, <4>2, Zenon
    <3> QED
      BY <3>2, <3>3, <3>4, <3>5, Zenon
<1>9. BodyTypes'
  <2>1. made' \in 0 .. MaxBody /\ writer' \in {"body", "done", "failed"} /\ writer' # "done"
    BY <1>2, <1>3, <1>4, Zenon
  <2>2. te.kind = "Chunked" => (te'.eof <=> writer' = "done")
    BY <1>7, <2>1, Zenon
  <2> QED
    BY <1>1, <1>2, <1>7, <1>8, <2>1, <2>2, WriteTypes, Zenon
<1>10. ~Blurred /\ made <= made'
  <2>1. writer # "failed"
    BY <1>2, Zenon
  <2> QED
    BY <1>2, <1>3, <1>4, <2>1, Zenon DEF Blurred
<1>11. Remains(dec, Stream, Len(got)) =>
            Remaining(dec, Stream \o t, Len(got), made', writer', peer', te'.rem)
  <2>1. ASSUME Remaining(dec, Stream, g, m, "body", "open", r)
        PROVE  Remaining(dec, Stream \o t, g, m + n, "body", "open", te'.rem)
    <3>1. Stream \in Seq(Alphabet)
      BY <1>1, StreamSeq, Zenon
    <3>2. /\ dec.kind = "Chunked" => t = ChunkOf(m, n)
          /\ dec.kind = "Length" => t = Bytes("data", m, Least(r, n)) /\ te'.rem = r - Least(r, n)
          /\ dec.kind = "Eof" => t = Bytes("data", m, n)
      BY <1>1, <1>6, <1>7, Zenon
    <3> QED
      BY <1>1, <1>4, <2>1, <3>1, <3>2, ChunkRemains, Zenon
  <2> QED
    BY <1>2, <1>3, <1>7, <2>1, Zenon DEF Remains
<1>12. Finished => /\ Whole' /\ te'.kind = te.kind
                   /\ te.kind # "Length" => made' = made /\ writer' = writer
                   /\ \A k \in 1 .. Len(t) : t[k].t = "more"
  <2>1. SUFFICES ASSUME Finished
                 PROVE  /\ Whole' /\ te'.kind = te.kind
                        /\ te.kind # "Length" => made' = made /\ writer' = writer
                        /\ \A k \in 1 .. Len(t) : t[k].t = "more"
    BY Zenon
  <2>2. writer # "done"
    BY <1>2, Zenon
  <2>3. te.kind = "Length" /\ Whole
    BY <2>1, <2>2, Zenon DEF Finished
  <2>4. r = 0
    BY <1>3, <2>3, Zenon DEF Whole
  <2>5. te'.rem = 0 /\ Len(t) = 0
    BY <1>6, <1>7, <1>8, <2>3, <2>4, Zenon
  <2>6. Whole'
    BY <1>7, <2>3, <2>5, Zenon DEF Whole
  <2>7. 1 .. 0 = {}
    OBVIOUS
  <2> QED
    BY <1>7, <2>3, <2>5, <2>6, <2>7, Zenon
<1> QED
  BY <1>2, <1>7, <1>8, <1>9, <1>10, <1>11, <1>12, WriteKeeps, Zenon

(* encode_eof *)
LEMMA BodyDoneKeeps ==
  ASSUME BodyInv, BodyDone
  PROVE  BodyInv'
<1>1. /\ BodyTypes /\ te \in [kind : Kinds, rem : Nat, eof : BOOLEAN] /\ made \in 0 .. MaxBody
      /\ dec \in Decoders /\ dec.kind = te.kind /\ te.kind \in Kinds
  BY Zenon DEF BodyInv, BodyTypes
<1>2. /\ writer = "body" /\ peer = "open" /\ writer' = "done" /\ peer' = peer /\ made' = made
      /\ UNCHANGED <<reading, fixed>> /\ encode_eof
  BY Zenon DEF BodyDone
<1>3. made \in Nat
  BY <1>1, BodyAssumption
<1>4. PICK t : t = IF te.kind = "Chunked" THEN LastChunk ELSE <<>>
  BY Zenon
<1>5. wire' = wire \o t
  <2>1. wire' = wire \o (IF te.kind = "Chunked" THEN EncodeChunked(0) ELSE <<>>)
    BY <1>2, Zenon DEF encode_eof
  <2>2. ASSUME te.kind = "Chunked" PROVE EncodeChunked(0) = LastChunk
    <3>1. te.eof <=> writer = "done"
      BY <1>1, <2>2, Zenon DEF BodyTypes
    <3>2. ~te.eof
      BY <1>2, <3>1, Zenon
    <3> QED
      BY <3>2, Zenon DEF EncodeChunked, LastChunk
  <2> QED
    BY <1>4, <2>1, <2>2, Zenon
<1>6. /\ te' \in [kind : Kinds, rem : Nat, eof : BOOLEAN] /\ te'.kind = te.kind /\ te'.rem = te.rem
      /\ te.kind = "Chunked" => te'.eof = TRUE
      /\ te.kind = "Length" => te.rem = 0
  <2>1. te' = [te EXCEPT !.eof = (te.kind = "Chunked")] /\ (te.kind = "Length" => te.rem = 0)
    BY <1>2, Zenon DEF encode_eof
  <2>2. PICK b \in BOOLEAN : b = (te.kind = "Chunked")
    BY Zenon
  <2>3. te' = [te EXCEPT !.eof = b]
    BY <2>1, <2>2, Zenon
  <2>4. te' \in [kind : Kinds, rem : Nat, eof : BOOLEAN] /\ te'.kind = te.kind /\ te'.rem = te.rem /\ te'.eof = b
    BY <1>1, <2>3, Zenon
  <2> QED
    BY <2>1, <2>2, <2>4, Zenon
<1>7. t \in Seq(Alphabet) /\ (te.kind # "Chunked" => Clear(t) /\ t = <<>>)
  <2>1. LastChunk \in Seq(Alphabet)
    BY LastChunkSeq, Zenon
  <2>2. Clear(<<>>)
    BY NothingRead, Zenon DEF Clear
  <2> QED
    BY <1>4, <2>1, <2>2, NothingRead, Zenon
<1>8. BodyTypes'
  <2>1. made' \in 0 .. MaxBody /\ writer' \in {"body", "done", "failed"}
    BY <1>1, <1>2, Zenon
  <2>2. te.kind = "Chunked" => (te'.eof <=> writer' = "done")
    BY <1>2, <1>6, Zenon
  <2> QED
    BY <1>1, <1>2, <1>5, <1>6, <1>7, <2>1, <2>2, WriteTypes, Zenon
<1>9. ~Blurred /\ made <= made'
  <2>1. writer # "failed" /\ made <= made
    BY <1>2, <1>3
  <2> QED
    BY <1>2, <2>1, Zenon DEF Blurred
<1>10. Remains(dec, Stream, Len(got)) =>
            Remaining(dec, Stream \o t, Len(got), made', writer', peer', te'.rem)
  <2>1. Stream \in Seq(Alphabet)
    BY <1>1, StreamSeq, Zenon
  <2>2. t = IF dec.kind = "Chunked" THEN LastChunk ELSE <<>>
    BY <1>1, <1>4, Zenon
  <2> QED
    BY <1>1, <1>2, <1>3, <1>6, <2>1, <2>2, DoneRemains, Zenon DEF Remains
<1>11. Finished => /\ Whole' /\ te'.kind = te.kind
                   /\ te.kind # "Length" => made' = made /\ writer' = writer
                   /\ \A k \in 1 .. Len(t) : t[k].t = "more"
  <2>1. SUFFICES ASSUME Finished
                 PROVE  /\ Whole' /\ te'.kind = te.kind
                        /\ te.kind # "Length" => made' = made /\ writer' = writer
                        /\ \A k \in 1 .. Len(t) : t[k].t = "more"
    BY Zenon
  <2>2. writer # "done" /\ "Length" # "Chunked"
    BY <1>2, Zenon
  <2>3. te.kind = "Length" /\ Whole
    BY <2>1, <2>2, Zenon DEF Finished
  <2>4. Whole'
    BY <1>6, <2>3, Zenon DEF Whole
  <2> QED
    BY <1>6, <1>7, <2>2, <2>3, <2>4, NothingRead, Zenon
<1> QED
  BY <1>2, <1>5, <1>7, <1>8, <1>9, <1>10, <1>11, WriteKeeps, Zenon

(* The error response behind a body that failed *)
LEMMA BodyFailsKeeps ==
  ASSUME BodyInv, BodyFails
  PROVE  BodyInv'
<1>1. /\ BodyTypes /\ te \in [kind : Kinds, rem : Nat, eof : BOOLEAN] /\ made \in 0 .. MaxBody
      /\ dec \in Decoders /\ dec.kind = te.kind /\ te.kind \in Kinds
  BY Zenon DEF BodyInv, BodyTypes
<1>2. /\ writer = "body" /\ peer = "open" /\ writer' = "failed" /\ peer' = peer /\ made' = made /\ te' = te
      /\ UNCHANGED <<reading, fixed>> /\ wire' = wire \o Bytes("more", 0, 2)
  BY Zenon DEF BodyFails
<1>3. made \in Nat
  BY <1>1, BodyAssumption
<1>4. PICK t \in Seq(Alphabet) :
          t = Bytes("more", 0, 2) /\ Clear(t) /\ \A k \in 1 .. Len(t) : t[k].t = "more"
  <2>1. 2 \in Nat
    BY Zenon
  <2> QED
    BY <2>1, MoreClear, Zenon
<1>5. writer # "done" /\ writer # "failed" /\ made <= made /\ writer' # "done"
  BY <1>2, <1>3
<1>6. BodyTypes'
  <2>1. te.kind = "Chunked" => (te'.eof <=> writer' = "done")
    <3>1. te.kind = "Chunked" => (te.eof <=> writer = "done")
      BY <1>1, Zenon DEF BodyTypes
    <3> QED
      BY <1>2, <1>5, <3>1, Zenon
  <2> QED
    BY <1>1, <1>2, <1>4, <1>5, <2>1, WriteTypes, Zenon
<1>7. ~Blurred /\ made <= made'
  BY <1>2, <1>5, Zenon DEF Blurred
<1>8. ~Blurred' => te.kind = "Chunked"
  BY <1>2, Zenon DEF Blurred
<1>9. ASSUME te.kind = "Chunked", Remains(dec, Stream, Len(got))
      PROVE  Remaining(dec, Stream \o t, Len(got), made', writer', peer', te'.rem)
  <2>1. Stream \in Seq(Alphabet)
    BY <1>1, StreamSeq, Zenon
  <2> QED
    BY <1>1, <1>2, <1>3, <1>4, <1>9, <2>1, FailedRemains, Zenon DEF Remains
<1>10. te.kind = "Chunked" => ~Finished
  <2>1. "Chunked" # "Length"
    BY Zenon
  <2> QED
    BY <1>5, <2>1, Zenon DEF Finished
<1> QED
  BY <1>2, <1>4, <1>6, <1>7, <1>8, <1>9, <1>10, WriteKeeps, Zenon

(* Another message behind a finished body *)
LEMMA FollowKeeps ==
  ASSUME BodyInv, Follow
  PROVE  BodyInv'
<1>1. /\ BodyTypes /\ te \in [kind : Kinds, rem : Nat, eof : BOOLEAN] /\ made \in 0 .. MaxBody
      /\ dec \in Decoders /\ dec.kind = te.kind /\ te.kind \in Kinds
  BY Zenon DEF BodyInv, BodyTypes
<1>2. /\ writer = "done" /\ peer = "open" /\ writer' = writer /\ peer' = peer /\ made' = made /\ te' = te
      /\ UNCHANGED <<reading, fixed>> /\ wire' = wire \o Bytes("more", 0, 1) /\ te.kind # "Eof"
  BY Zenon DEF Follow, writing
<1>3. made \in Nat
  BY <1>1, BodyAssumption
<1>4. PICK t \in Seq(Alphabet) :
          t = Bytes("more", 0, 1) /\ Clear(t) /\ \A k \in 1 .. Len(t) : t[k].t = "more"
  <2>1. 1 \in Nat
    BY Zenon
  <2> QED
    BY <2>1, MoreClear, Zenon
<1>5. writer # "failed" /\ made <= made
  BY <1>2, <1>3
<1>6. BodyTypes'
  <2>1. /\ te.kind = "Chunked" => (te'.eof <=> writer' = "done")
        /\ te.kind = "Length" => (writer' = "done" => te'.rem = 0)
        /\ writer' \in {"body", "done", "failed"}
    BY <1>1, <1>2, Zenon DEF BodyTypes
  <2> QED
    BY <1>1, <1>2, <1>4, <2>1, WriteTypes, Zenon
<1>7. ~Blurred /\ made <= made'
  BY <1>2, <1>5, Zenon DEF Blurred
<1>8. ASSUME Remains(dec, Stream, Len(got))
      PROVE  Remaining(dec, Stream \o t, Len(got), made', writer', peer', te'.rem)
  <2>1. Stream \in Seq(Alphabet)
    BY <1>1, StreamSeq, Zenon
  <2>2. dec.kind # "Eof" /\ (dec.kind = "Length" => te.rem = 0)
    BY <1>1, <1>2, Zenon DEF BodyTypes
  <2>3. Remaining(dec, Stream, Len(got), made, "done", "open", te.rem)
    BY <1>2, <1>8, Zenon DEF Remains
  <2>4. Remaining(dec, Stream \o t, Len(got), made, "done", "open", te.rem)
    BY <1>1, <1>3, <1>4, <2>1, <2>2, <2>3, FollowRemains, Zenon
  <2> QED
    BY <1>2, <2>4, Zenon
<1>9. Finished => Whole'
  BY <1>2, Zenon DEF Finished, Whole
<1> QED
  BY <1>2, <1>4, <1>6, <1>7, <1>8, <1>9, WriteKeeps, Zenon

(* The connection *)
LEMMA CloseKeeps ==
  ASSUME BodyInv, Close
  PROVE  BodyInv'
<1>1. BodyTypes /\ dec \in Decoders
  BY Zenon DEF BodyInv, BodyTypes
<1>2. /\ peer = "open" /\ peer' = "closed" /\ te' = te /\ made' = made /\ writer' = writer /\ wire' = wire
      /\ reader' = reader /\ got' = got /\ dec' = dec /\ src' = src /\ conn' = conn /\ http_10' = http_10
      /\ keepalive' = keepalive
  BY Zenon DEF Close, writing, reading, fixed
<1>3. Stream' = Stream
  BY <1>2, Zenon DEF Stream
<1>4. BodyTypes'
  BY <1>1, <1>2, <1>3, Zenon DEF BodyTypes, Clear
<1>5. Remains(dec, Stream, Len(got)) => Remains(dec, Stream, Len(got))'
  BY <1>1, <1>2, <1>3, ClosedRemains, Zenon DEF Remains
<1>6. /\ Finished => Finished' 
      /\ Blurred' <=> Blurred
  BY <1>2, <1>3, Zenon DEF Finished, Whole, Blurred
<1> QED
  BY <1>2, <1>4, <1>5, <1>6, Zenon DEF BodyInv

(* The connection is reset: what was on its way is gone. *)
LEMMA LoseKeeps ==
  ASSUME BodyInv, Lose
  PROVE  BodyInv'
<1>1. /\ BodyTypes /\ te \in [kind : Kinds, rem : Nat, eof : BOOLEAN] /\ made \in 0 .. MaxBody
      /\ dec \in Decoders /\ got \in Seq(Alphabet)
  BY Zenon DEF BodyInv, BodyTypes
<1>2. /\ peer' = "lost" /\ te' = te /\ made' = made /\ writer' = writer /\ wire' = <<>>
      /\ reader' = reader /\ got' = got /\ dec' = dec /\ src' = src /\ conn' = conn /\ http_10' = http_10
      /\ keepalive' = keepalive
  BY Zenon DEF Lose, writing, reading, fixed
<1>3. src \in Seq(Alphabet) /\ wire \in Seq(Alphabet) /\ Stream = src \o wire
  BY <1>1, StreamSeq, Zenon DEF Stream
<1>4. Stream' = src
  <2>1. src \o <<>> = src
    BY <1>3
  <2> QED
    BY <1>2, <2>1, Zenon DEF Stream
<1>5. ASSUME NEW k \in 1 .. Len(src) PROVE k \in 1 .. Len(Stream) /\ Stream[k] = src[k]
  <2>1. Len(src \o wire) = Len(src) + Len(wire) /\ Len(wire) \in Nat /\ Len(src) \in Nat
        /\ \A i \in 1 .. Len(src) : (src \o wire)[i] = src[i]
    BY <1>3, Joined
  <2>2. k \in 1 .. Len(src) + Len(wire)
    BY <2>1
  <2> QED
    BY <1>3, <2>1, <2>2, Zenon
<1>6. BodyTypes'
  <2>1. Clear(Stream) => Clear(src)
    BY <1>5, Zenon DEF Clear
  <2> QED
    BY <1>1, <1>2, <1>4, <2>1, NothingRead, Zenon DEF BodyTypes, Clear
<1>7. Remains(dec, Stream, Len(got)) => Remains(dec, Stream, Len(got))'
  <2>1. made \in Nat /\ te.rem \in Nat /\ Len(got) \in Nat
    BY <1>1, BodyAssumption
  <2> QED
    BY <1>1, <1>2, <1>3, <1>4, <2>1, LostRemains, Zenon DEF Remains
<1>8. /\ Finished => Finished' 
      /\ Blurred' <=> Blurred
  BY <1>2, <1>4, <1>5, Zenon DEF Finished, Whole, Blurred
<1> QED
  BY <1>2, <1>6, <1>7, <1>8, Zenon DEF BodyInv

(* The transport hands over k bytes: the stream is the same. *)
LEMMA ReceiveKeeps ==
  ASSUME BodyInv, NEW k \in 1 .. Len(wire), Receive(k)
  PROVE  BodyInv'
<1>1. BodyTypes
  BY Zenon DEF BodyInv
<1>2. /\ peer' = peer /\ te' = te /\ made' = made /\ writer' = writer
      /\ reader' = reader /\ reader = "reading" /\ got' = got /\ dec' = dec /\ conn' = conn
      /\ http_10' = http_10 /\ keepalive' = keepalive
      /\ src' = src \o SubSeq(wire, 1, k) /\ wire' = Rest(wire, k)
  BY Zenon DEF Receive, writing, fixed, Rest
<1>3. src \in Seq(Alphabet) /\ wire \in Seq(Alphabet) /\ Stream = src \o wire
  BY <1>1, StreamSeq, Zenon DEF Stream
<1>4. k \in 0 .. Len(wire)
  BY <1>3
<1>5. SubSeq(wire, 1, k) \in Seq(Alphabet) /\ Rest(wire, k) \in Seq(Alphabet)
  BY <1>3, <1>4, Cut, Zenon
<1>6. SubSeq(wire, 1, k) \o Rest(wire, k) = wire
  BY <1>3, <1>4, Uncut, Zenon
<1>7. src' \in Seq(Alphabet) /\ wire' \in Seq(Alphabet) /\ Stream' = Stream
  <2>1. (src \o SubSeq(wire, 1, k)) \o Rest(wire, k) = src \o (SubSeq(wire, 1, k) \o Rest(wire, k))
    BY <1>3, <1>5, Associates, Zenon
  <2> QED
    BY <1>2, <1>3, <1>5, <1>6, <2>1, Joined, Zenon DEF Stream
<1>8. BodyTypes'
  BY <1>1, <1>2, <1>7, Zenon DEF BodyTypes, Clear
<1>9. /\ Remains(dec, Stream, Len(got)) => Remains(dec, Stream, Len(got))'
      /\ Blurred' <=> Blurred
  BY <1>2, <1>7, Zenon DEF Remains, Blurred
<1>10. "reading" # "end"
  BY Zenon
<1> QED
  BY <1>2, <1>8, <1>9, <1>10, Zenon DEF BodyInv

(* A chunk behind what was read *)
LEMMA DataJoin ==
  ASSUME NEW s \in Seq(Alphabet), NEW t \in Seq(Alphabet),
         \A k \in 1 .. Len(s) : s[k] = Byte("data", k),
         \A k \in 1 .. Len(t) : t[k] = Byte("data", Len(s) + k)
  PROVE  \A k \in 1 .. Len(s \o t) : (s \o t)[k] = Byte("data", k)
<1>1. PICK l \in Nat, h \in Nat : l = Len(s) /\ h = Len(t)
  OBVIOUS
<1>2. PICK u : u = s \o t
  BY Zenon
<1>3. /\ Len(u) = l + h /\ \A i \in 1 .. l : u[i] = s[i]
      /\ \A i \in 1 .. h : u[l + i] = t[i]
  <2>1. /\ Len(s \o t) = Len(s) + Len(t)
        /\ \A i \in 1 .. Len(s) : (s \o t)[i] = s[i]
        /\ \A i \in 1 .. Len(t) : (s \o t)[Len(s) + i] = t[i]
    BY Joined, Zenon
  <2> QED
    BY <1>1, <1>2, <2>1, Zenon
<1>4. ASSUME NEW k \in 1 .. l + h PROVE u[k] = Byte("data", k)
  <2>1. k \in 1 .. l \/ \E i \in 1 .. h : k = l + i
    <3>1. k > l => k - l \in 1 .. h /\ k = l + (k - l)
      OBVIOUS
    <3>2. k <= l => k \in 1 .. l
      OBVIOUS
    <3>3. k > l \/ k <= l
      OBVIOUS
    <3> QED
      BY <3>1, <3>2, <3>3, Zenon
  <2>2. CASE k \in 1 .. l
    BY <1>1, <1>3, <2>2, Zenon
  <2>3. ASSUME NEW i \in 1 .. h, k = l + i PROVE u[k] = Byte("data", k)
    <3>1. u[l + i] = t[i]
      BY <1>3, Zenon
    <3>2. t[i] = Byte("data", l + i)
      BY <1>1, Zenon
    <3> QED
      BY <2>3, <3>1, <3>2, Zenon
  <2> QED
    BY <2>1, <2>2, <2>3, Zenon
<1> QED
  BY <1>2, <1>3, <1>4, Zenon

(* PlStream::poll_next *)
LEMMA PollKeeps ==
  ASSUME BodyInv, poll_next
  PROVE  BodyInv'
<1>1. /\ BodyTypes /\ te \in [kind : Kinds, rem : Nat, eof : BOOLEAN] /\ made \in 0 .. MaxBody
      /\ dec \in Decoders /\ dec.kind = te.kind /\ got \in Seq(Alphabet) /\ src \in Seq(Alphabet)
      /\ wire \in Seq(Alphabet) /\ Clear(got) /\ (te.kind # "Chunked" => Clear(Stream))
      /\ conn \in {"held", "pooled", "dropped"} /\ reader \in {"reading", "end", "decode", "incomplete"}
  BY Zenon DEF BodyInv, BodyTypes
<1>2. made \in Nat /\ te.rem \in Nat /\ Len(got) \in Nat
  BY <1>1, BodyAssumption
<1>3. /\ reader = "reading" /\ peer' = peer /\ te' = te /\ made' = made /\ writer' = writer
      /\ wire' = wire /\ http_10' = http_10 /\ keepalive' = keepalive
  BY Zenon DEF poll_next, writing, fixed
<1>4. PICK r : /\ r = decode(dec, src) /\ dec' = r.dec /\ src' = r.src /\ got' = got \o r.chunk
               /\ \/ r.item = "chunk" /\ UNCHANGED <<reader, conn>>
                  \/ r.item = "eof" /\ reader' = "end" /\ release_connection(r.src)
                  \/ r.item = "error" /\ reader' = "decode" /\ conn' = "dropped"
                  \/ r.item = "none" /\ ~Gone /\ UNCHANGED <<reader, conn>>
                  \/ /\ r.item = "none" /\ Gone
                     /\ reader' = IF peer = "closed" /\ http_10 THEN "end" ELSE "incomplete"
                     /\ conn' = "dropped"
  BY Zenon DEF poll_next
<1>5. /\ reader' \in {"reading", "end", "decode", "incomplete"} /\ conn' \in {"held", "pooled", "dropped"}
      /\ reader' = "reading" => r.item # "error"
      /\ reader' = "end" => r.item = "eof" \/ conn' = "dropped"
      /\ conn' = "pooled" => conn = "pooled" \/ (reader' = "end" /\ r.src = <<>>)
  <2>1. "reading" # "decode" /\ "reading" # "end" /\ "error" # "chunk" /\ "error" # "none"
        /\ "dropped" # "pooled"
    BY Zenon
  <2>2. release_connection(r.src) => conn' = "dropped" \/ (conn' = "pooled" /\ r.src = <<>>)
    BY Zenon DEF release_connection
  <2>3. CASE r.item = "chunk" /\ UNCHANGED <<reader, conn>>
    BY <1>1, <1>3, <2>1, <2>3, Zenon
  <2>4. CASE r.item = "eof" /\ reader' = "end" /\ release_connection(r.src)
    BY <2>1, <2>2, <2>4, Zenon
  <2>5. CASE r.item = "error" /\ reader' = "decode" /\ conn' = "dropped"
    BY <2>5, Zenon
  <2>6. CASE r.item = "none" /\ ~Gone /\ UNCHANGED <<reader, conn>>
    BY <1>1, <1>3, <2>1, <2>6, Zenon
  <2>7. CASE /\ r.item = "none" /\ Gone
             /\ reader' = IF peer = "closed" /\ http_10 THEN "end" ELSE "incomplete"
             /\ conn' = "dropped"
    BY <2>7, Zenon
  <2> QED
    BY <1>4, <2>3, <2>4, <2>5, <2>6, <2>7, Zenon
<1>6. ASSUME ~Blurred PROVE Right(r, dec, Len(got), wire)
  <2>1. Remains(dec, src \o wire, Len(got))
    BY <1>3, <1>6, Zenon DEF BodyInv, Stream
  <2> QED
    BY <1>1, <1>2, <1>4, <2>1, DecodeRight, Zenon
<1>7. /\ r \in Outcomes /\ r.dec.kind = dec.kind /\ Clear(r.chunk)
      /\ te.kind # "Chunked" => Clear(r.src \o wire)
  <2>1. CASE te.kind = "Chunked"
    <3>1. Right(r, dec, Len(got), wire)
      BY <1>6, <2>1, Zenon DEF Blurred
    <3>2. \A k \in 1 .. Len(r.chunk) : r.chunk[k] = Byte("data", Len(got) + k)
      BY <3>1, Zenon DEF Right
    <3>3. \A k : Byte("data", Len(got) + k).t = "data"
      BY Zenon DEF Byte
    <3> QED
      BY <2>1, <3>1, <3>2, <3>3, Zenon DEF Right, Clear
  <2>2. CASE te.kind # "Chunked"
    <3>1. Clear(src \o wire) /\ dec.kind # "Chunked"
      BY <1>1, <2>2, Zenon DEF Stream
    <3> QED
      BY <1>1, <1>4, <2>2, <3>1, DecodeClear, Zenon
  <2> QED
    BY <2>1, <2>2, Zenon
<1>8. r.dec \in Decoders /\ r.src \in Seq(Alphabet) /\ r.chunk \in Seq(Alphabet)
  BY <1>7, Zenon DEF Outcomes
<1>9. got' \in Seq(Alphabet) /\ Len(got') = Len(got) + Len(r.chunk) /\ Clear(got')
  <2>1. got \o r.chunk \in Seq(Alphabet) /\ Len(got \o r.chunk) = Len(got) + Len(r.chunk)
    BY <1>1, <1>8, Joined, Zenon
  <2>2. Clear(got \o r.chunk)
    BY <1>1, <1>7, <1>8, ClearJoin, Zenon DEF Clear
  <2> QED
    BY <1>4, <2>1, <2>2, Zenon
<1>10. Stream' = r.src \o wire
  BY <1>3, <1>4, Zenon DEF Stream
<1>11. BodyTypes'
  <2>1. te'.kind # "Chunked" => Clear(Stream')
    BY <1>3, <1>7, <1>10, Zenon
  <2>2. dec' \in Decoders /\ dec'.kind = te'.kind /\ src' \in Seq(Alphabet) /\ wire' \in Seq(Alphabet)
    BY <1>1, <1>3, <1>4, <1>7, <1>8, Zenon
  <2> QED
    BY <1>1, <1>3, <1>5, <1>9, <2>1, <2>2, Zenon DEF BodyTypes, Clear
<1>12. ASSUME ~Blurred'
       PROVE  /\ \A k \in 1 .. Len(got') : got'[k] = Byte("data", k)
              /\ Len(got') <= made'
              /\ reader' = "reading" => Remains(dec, Stream, Len(got))'
              /\ reader' = "end" /\ (~http_10' \/ conn' = "pooled") => Finished'
              /\ conn' = "pooled" => reader' = "end" /\ src' = <<>>
  <2>1. ~Blurred
    BY <1>3, <1>12, Zenon DEF Blurred
  <2>2. Right(r, dec, Len(got), wire)
    BY <1>6, <2>1, Zenon
  <2>3. \A k \in 1 .. Len(got') : got'[k] = Byte("data", k)
    <3>1. \A k \in 1 .. Len(got) : got[k] = Byte("data", k)
      BY <2>1, Zenon DEF BodyInv
    <3>2. \A k \in 1 .. Len(r.chunk) : r.chunk[k] = Byte("data", Len(got) + k)
      BY <2>2, Zenon DEF Right
    <3> QED
      <4>1. \A k \in 1 .. Len(got \o r.chunk) : (got \o r.chunk)[k] = Byte("data", k)
        <5>1. r.chunk \in Seq(Alphabet) /\ got \in Seq(Alphabet)
          BY <1>1, <1>8, Zenon
        <5> QED
          BY <3>1, <3>2, <5>1, DataJoin, Zenon
      <4>2. got' = got \o r.chunk
        BY <1>4, Zenon
      <4> QED
        BY <4>1, <4>2, Zenon
  <2>4. ASSUME r.item # "error"
        PROVE  Remaining(r.dec, r.src \o wire, Len(got) + Len(r.chunk), made, writer, peer, te.rem)
    BY <2>2, <2>4, Zenon DEF Right, Remains
  <2>5. Len(got') <= made'
    <3>1. CASE r.item = "error"
      <4>1. r.chunk = <<>>
        <5>1. "error" # "chunk"
          BY Zenon
        <5> QED
          BY <2>2, <3>1, <5>1, Zenon DEF Right
      <4>2. Len(got) <= made
        BY <2>1, Zenon DEF BodyInv
      <4>3. Len(got) + 0 = Len(got)
        BY <1>2
      <4> QED
        BY <1>3, <1>9, <4>1, <4>2, <4>3, NothingRead, Zenon
    <3>2. CASE r.item # "error"
      <4>1. r.src \o wire \in Seq(Alphabet)
        BY <1>1, <1>8, Joined, Zenon
      <4>2. Len(got) + Len(r.chunk) \in Nat
        BY <1>2, <1>8
      <4>3. Len(got) + Len(r.chunk) <= made
        BY <1>2, <1>8, <2>4, <3>2, <4>1, <4>2, RemainingBound, Zenon
      <4> QED
        BY <1>3, <1>9, <4>3, Zenon
    <3> QED
      BY <3>1, <3>2, Zenon
  <2>6. ASSUME reader' = "reading" PROVE Remains(dec, Stream, Len(got))'
    BY <1>3, <1>4, <1>5, <1>9, <1>10, <2>4, <2>6, Zenon DEF Remains
  <2>7. ASSUME reader' = "end", ~http_10' \/ conn' = "pooled" PROVE Finished'
    <3>1. r.item = "eof"
      <4>1. CASE r.item = "none" /\ Gone
                 /\ reader' = (IF peer = "closed" /\ http_10 THEN "end" ELSE "incomplete")
                 /\ conn' = "dropped"
        <5>1. "end" # "incomplete" /\ "dropped" # "pooled"
          BY Zenon
        <5>2. ~http_10 \/ conn' = "pooled"
          BY <1>3, <2>7, Zenon
        <5> QED
          BY <2>7, <4>1, <5>1, <5>2, Zenon
      <4>2. "reading" # "end" /\ "decode" # "end"
        BY Zenon
      <4> QED
        BY <1>3, <1>4, <2>7, <4>1, <4>2, Zenon
    <3>2. "eof" # "error" /\ "eof" # "chunk"
      BY Zenon
    <3>3. AtEnd(r.dec)
      BY <2>2, <3>1, Zenon DEF Right
    <3>4. r.src \o wire \in Seq(Alphabet) /\ Len(got) + Len(r.chunk) \in Nat
      <4>1. Len(got) + Len(r.chunk) \in Nat
        BY <1>2, <1>8
      <4> QED
        BY <1>1, <1>8, <4>1, Joined, Zenon
    <3>5. /\ \A k \in 1 .. Len(r.src \o wire) : (r.src \o wire)[k].t = "more"
          /\ r.dec.kind = "Chunked" => Len(got) + Len(r.chunk) = made /\ writer = "done"
          /\ r.dec.kind = "Length" => te.rem = 0
      <4>1. Remaining(r.dec, r.src \o wire, Len(got) + Len(r.chunk), made, writer, peer, te.rem)
        BY <2>4, <3>1, <3>2, Zenon
      <4>2. PICK d \in Decoders, s \in Seq(Alphabet), g \in Nat, m \in Nat, e \in Nat :
                d = r.dec /\ s = r.src \o wire /\ g = Len(got) + Len(r.chunk) /\ m = made /\ e = te.rem
        BY <1>2, <1>8, <3>4, Zenon
      <4>3. /\ Remaining(d, s, g, m, writer, peer, e)
            /\ AtEnd(d)
        BY <3>3, <4>1, <4>2, Zenon
      <4>4. /\ \A k \in 1 .. Len(s) : s[k].t = "more"
            /\ d.kind = "Chunked" => g = m /\ writer = "done"
            /\ d.kind = "Length" => e = 0
        BY <4>3, EndRemains, Zenon
      <4> QED
        BY <4>2, <4>4, Zenon
    <3>6. te.kind = "Chunked" \/ te.kind = "Length"
      BY <1>1, <1>7, <3>3, Zenon DEF AtEnd
    <3>7. Whole'
      <4>1. "Chunked" # "Length"
        BY Zenon
      <4> QED
        BY <1>1, <1>3, <1>7, <3>5, <3>6, <4>1, Zenon DEF Whole
    <3>8. te'.kind = "Length" \/ (Len(got') = made' /\ writer' = "done")
      BY <1>1, <1>3, <1>7, <1>9, <3>5, <3>6, Zenon
    <3>9. \A k \in 1 .. Len(Stream') : Stream'[k].t = "more"
      BY <1>10, <3>5, Zenon
    <3> QED
      BY <3>7, <3>8, <3>9, Zenon DEF Finished
  <2>8. ASSUME conn' = "pooled" PROVE reader' = "end" /\ src' = <<>>
    <3>1. conn # "pooled"
      <4>1. "reading" # "end"
        BY Zenon
      <4> QED
        BY <1>3, <2>1, <4>1, Zenon DEF BodyInv
    <3> QED
      BY <1>4, <1>5, <2>8, <3>1, Zenon
  <2> QED
    BY <2>3, <2>5, <2>6, <2>7, <2>8, Zenon
<1> QED
  BY <1>11, <1>12, Zenon DEF BodyInv

(* It holds at first. *)
LEMMA BodyStart ==
  ASSUME Init
  PROVE  BodyInv
<1>1. PICK k \in Kinds, n \in Lengths :
        /\ te = [kind |-> k, rem |-> IF k = "Length" THEN n ELSE 0, eof |-> FALSE]
        /\ dec = [kind |-> k, st |-> "Size", rem |-> IF k = "Length" THEN n ELSE 0]
  BY Zenon DEF Init
<1>2. /\ made = 0 /\ writer = "body" /\ wire = <<>> /\ peer = "open" /\ src = <<>> /\ got = <<>>
      /\ reader = "reading" /\ conn = "held"
  BY Zenon DEF Init
<1>3. http_10 \in BOOLEAN /\ keepalive \in BOOLEAN
  BY Zenon DEF Init
<1>4. PICK r \in Nat : r = IF k = "Length" THEN n ELSE 0
  BY BodyAssumption, Zenon
<1>5. /\ te \in [kind : Kinds, rem : Nat, eof : BOOLEAN] /\ te.kind = k /\ te.rem = r /\ te.eof = FALSE
      /\ dec.kind = k /\ dec.st = "Size" /\ dec.rem = r
  BY <1>1, <1>4, Zenon
<1>6. dec \in Decoders
  <2>1. "Size" \in ChunkedStates
    BY Zenon DEF ChunkedStates
  <2> QED
    BY <1>1, <1>4, <2>1, Zenon DEF Decoders
<1>7. Stream = <<>>
  <2>1. <<>> \o <<>> = <<>>
    OBVIOUS
  <2> QED
    BY <1>2, <2>1, Zenon DEF Stream
<1>8. 0 \in 0 .. MaxBody /\ "body" # "done" /\ "body" # "failed" /\ "reading" # "end" /\ "held" # "pooled"
  BY BodyAssumption
<1>9. Clear(<<>>)
  BY NothingRead, Zenon DEF Clear
<1>10. BodyTypes
  BY <1>2, <1>3, <1>5, <1>6, <1>7, <1>8, <1>9, NothingRead, Zenon DEF BodyTypes
<1>11. Remaining(dec, <<>>, 0, 0, "body", "open", r)
  <2>1. CASE k = "Chunked"
    <3>1. r = 0
      BY <1>4, <2>1, Zenon
    <3>2. Parsed(dec, <<>>, 0, 0, "body", "open")
      <4>1. PICK q : q = [i \in {1} |-> At("Size", 0, 0)]
        BY Zenon
      <4>2. At("Size", 0, 0) \in Steps /\ At("Size", 0, 0).st = "Size" /\ At("Size", 0, 0).pos = 0
        BY Zenon DEF At, Steps, ChunkedStates
      <4>3. 1 .. 0 + 1 = {1} /\ 1 .. 0 = {} /\ 0 + 1 = 1 /\ 0 <= 0
        OBVIOUS
      <4>4. q[1] = At("Size", 0, 0) /\ q \in [{1} -> Steps]
        BY <4>1, <4>2, Zenon
      <4>5. "Size" # "Body" /\ "Size" # "End"
        BY Zenon
      <4>6. Way(q, <<>>)
        BY <4>2, <4>3, <4>4, <4>5, NothingRead, Zenon DEF Way
      <4>7. Behind(At("Size", 0, 0), 0, "body")
        BY <4>2, <4>3, Zenon DEF Behind, Closing
      <4>8. Written(At("Size", 0, 0), 0, "body", "open")
        BY <1>8, Zenon DEF Written
      <4>9. Len(<<>>) + 1 = 1 /\ 1 .. Len(<<>>) + 1 = {1}
        BY <4>3, NothingRead, Zenon
      <4>10. \A i \in 1 .. Len(<<>>) + 1 : Behind(q[i], 0, "body")
        BY <4>4, <4>7, <4>9, Zenon
      <4>11. Written(q[Len(<<>>) + 1], 0, "body", "open")
        BY <4>4, <4>8, <4>9, Zenon
      <4>12. q[1] = At(dec.st, dec.rem, 0)
        BY <1>5, <3>1, <4>4, Zenon
      <4> QED
        BY <4>6, <4>10, <4>11, <4>12, Zenon DEF Parsed
    <3> QED
      BY <1>5, <2>1, <3>2, RemainingIs, Zenon
  <2>2. Filled(<<>>, 0, 0)
    <3>1. 0 <= 0
      OBVIOUS
    <3> QED
      BY <3>1, NothingRead, Zenon DEF Filled
  <2>3. CASE k = "Length"
    <3>1. 0 \in Nat /\ 0 + 0 = 0 /\ 0 <= 0 /\ 0 + r = r /\ r <= r /\ ~(0 < 0)
      OBVIOUS
    <3>2. Counted(dec, <<>>, 0, 0, r, "open")
      BY <1>5, <2>2, <3>1, NothingRead, Zenon DEF Counted
    <3> QED
      BY <1>5, <2>3, <3>2, RemainingIs, Zenon
  <2>4. CASE k = "Eof"
    <3>1. 0 + 0 = 0 /\ 0 <= 0
      OBVIOUS
    <3>2. Flowing(<<>>, 0, 0, "open")
      BY <2>2, <3>1, NothingRead, Zenon DEF Flowing
    <3> QED
      BY <1>5, <2>4, <3>2, RemainingIs, Zenon
  <2> QED
    BY <2>1, <2>3, <2>4, Zenon DEF Kinds
<1>12. Remains(dec, Stream, Len(got)) /\ Len(got) <= made
  <2>1. 0 <= 0
    OBVIOUS
  <2> QED
    BY <1>2, <1>5, <1>7, <1>11, <2>1, NothingRead, Zenon DEF Remains
<1> QED
  BY <1>2, <1>8, <1>10, <1>12, NothingRead, Zenon DEF BodyInv

(* It holds after every step. *)
LEMMA BodyStep ==
  ASSUME BodyInv, [Next]_vars
  PROVE  BodyInv'
<1>1. CASE UNCHANGED vars
  <2>1. /\ peer' = peer /\ te' = te /\ made' = made /\ writer' = writer /\ wire' = wire /\ src' = src
        /\ reader' = reader /\ got' = got /\ dec' = dec /\ conn' = conn
        /\ http_10' = http_10 /\ keepalive' = keepalive
    BY <1>1, Zenon DEF vars, writing, reading, fixed
  <2>2. Stream' = Stream
    BY <2>1, Zenon DEF Stream
  <2>3. BodyTypes => BodyTypes'
    BY <2>1, <2>2, Zenon DEF BodyTypes, Clear
  <2>4. /\ Remains(dec, Stream, Len(got)) => Remains(dec, Stream, Len(got))'
        /\ Finished => Finished'
        /\ Blurred' <=> Blurred
    BY <2>1, <2>2, Zenon DEF Remains, Finished, Whole, Blurred
  <2> QED
    BY <2>1, <2>3, <2>4, Zenon DEF BodyInv
<1> QED
  BY <1>1, ChunkKeeps, BodyDoneKeeps, BodyFailsKeeps, FollowKeeps, CloseKeeps, LoseKeeps,
     ReceiveKeeps, PollKeeps, Zenon DEF Next

(* What the inductive invariant says of the reader *)
LEMMA BodySafe ==
  ASSUME BodyInv
  PROVE  Intact
<1>1. BodyTypes
  BY Zenon DEF BodyInv
<1>2. src \in Seq(Alphabet) /\ wire \in Seq(Alphabet) /\ got \in Seq(Alphabet) /\ Clear(got)
      /\ Stream \in Seq(Alphabet)
  BY <1>1, StreamSeq, Zenon DEF BodyTypes
<1>3. /\ DOMAIN src = 1 .. Len(src) /\ DOMAIN wire = 1 .. Len(wire) /\ DOMAIN got = 1 .. Len(got)
      /\ DOMAIN Stream = 1 .. Len(Stream)
  BY <1>2
<1>4. TypeOK
  <2>1. \A b \in {wire[k] : k \in DOMAIN wire} \union {src[k] : k \in DOMAIN src} : b.t \in ByteTypes
    <3>1. \A b \in Alphabet : b.t \in ByteTypes
      BY Zenon DEF Alphabet
    <3>2. /\ \A k \in 1 .. Len(wire) : wire[k] \in Alphabet
          /\ \A k \in 1 .. Len(src) : src[k] \in Alphabet
      BY <1>2
    <3> QED
      BY <1>3, <3>1, <3>2, Zenon
  <2>2. \A k \in DOMAIN got : got[k].t \in {"data", "more"}
    BY <1>2, <1>3, Zenon DEF Clear
  <2> QED
    BY <1>1, <2>1, <2>2, Zenon DEF TypeOK, BodyTypes, Decoders
<1>5. ASSUME ~Blurred PROVE got = Bytes("data", 0, Len(got)) /\ Len(got) <= made
  <2>1. /\ \A k \in 1 .. Len(got) : got[k] = Byte("data", k)
        /\ Len(got) <= made
    BY <1>5, Zenon DEF BodyInv
  <2>2. PICK n \in Nat : n = Len(got)
    BY <1>2
  <2>3. PICK b : b = Bytes("data", 0, n)
    BY Zenon
  <2>4. b \in Seq(Alphabet) /\ Len(b) = n /\ \A k \in 1 .. n : b[k] = Byte("data", 0 + k)
    <3>1. "data" \in ByteTypes /\ 0 \in Nat
      BY Zenon DEF ByteTypes
    <3> QED
      BY <2>3, <3>1, BytesSeq, Zenon
  <2>5. \A k \in 1 .. n : 0 + k = k
    OBVIOUS
  <2>6. Len(got) = Len(b) /\ \A k \in 1 .. Len(got) : got[k] = b[k]
    <3>1. ASSUME NEW k \in 1 .. n PROVE got[k] = b[k]
      <4>1. got[k] = Byte("data", k)
        BY <2>1, <2>2, Zenon
      <4>2. b[k] = Byte("data", 0 + k)
        BY <2>4, Zenon
      <4>3. 0 + k = k
        BY <2>5, Zenon
      <4> QED
        BY <4>1, <4>2, <4>3, Zenon
    <3> QED
      BY <2>2, <2>4, <3>1, Zenon
  <2>7. got = b
    BY <1>2, <2>4, <2>6, SeqEqual, Zenon
  <2> QED
    BY <2>1, <2>2, <2>3, <2>7, Zenon
<1>6. ASSUME ~Blurred, reader = "end", ~http_10 \/ conn = "pooled"
      PROVE  /\ Whole /\ (te.kind = "Length" \/ Len(got) = made)
             /\ \A k \in DOMAIN (src \o wire) : (src \o wire)[k].t = "more"
  <2>1. Finished
    BY <1>6, Zenon DEF BodyInv
  <2> QED
    BY <1>3, <2>1, Zenon DEF Finished, Stream
<1>7. ASSUME ~Blurred, conn = "pooled"
      PROVE  reader = "end" /\ src = <<>> /\ Whole /\ \A k \in DOMAIN wire : wire[k].t = "more"
  <2>1. reader = "end" /\ src = <<>>
    BY <1>7, Zenon DEF BodyInv
  <2>2. <<>> \o wire = wire
    BY <1>2
  <2> QED
    BY <1>6, <1>7, <2>1, <2>2, Zenon
<1> QED
  BY <1>4, <1>5, <1>6, <1>7, Zenon DEF Intact

(* Whatever the sizes of the pieces a body stream yields, the framing of     *)
(* TransferEncoding and the way the transport cuts, closes or loses it, what *)
(* PlStream yields is the body from its first byte on; it ends without an    *)
(* error only behind a finished body; and it gives its connection back to    *)
(* the pool only when no byte of the body can still arrive there.            *)
THEOREM BodiesAreIntact == Spec => []Intact
<1>1. Init => BodyInv
  BY BodyStart, Zenon
<1>2. BodyInv /\ [Next]_vars => BodyInv'
  BY BodyStep, Zenon
<1>3. BodyInv => Intact
  BY BodySafe, Zenon
<1> QED
  BY <1>1, <1>2, <1>3, PTL DEF Spec
=============================================================================
