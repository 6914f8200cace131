----------------------------- MODULE ReadTimer -----------------------------
(***************************************************************************)
(* The read-rate timers of the HTTP/1 dispatcher (handle_timeout,          *)
(* update_hdrs_timer and update_payload_timer in geario-http/src/h1/       *)
(* dispatcher.rs; the rates are set in config.rs), with the numbers module *)
(* H1Dispatcher leaves out: bytes read, bytes left, and time.              *)
(*                                                                         *)
(* Time passes only in units of a timer period: deadline is when the timer *)
(* that is running now expires, counted from its first start.              *)
(***************************************************************************)
EXTENDS Integers

CONSTANTS Rate,     \* FrameReadRate of the head ("HDRS") and the body ("PL"):
                    \* [rate, timeout, max_timeout] of each
          MaxBytes, \* bound: bytes the peer sends at a time and leaves buffered
          Word      \* numbers of bytes are kept modulo Word (2^32 in the code)

Kinds == {"HDRS", "PL"}

ASSUME RateAssumption ==
    /\ Rate \in [Kinds -> [rate : Nat, timeout : Nat \ {0}, max_timeout : Nat]]
    /\ MaxBytes \in Nat /\ Word \in Nat \ {0} /\ MaxBytes < Word

VARIABLES
    timer,            \* READ_HDRS_TIMEOUT, READ_PL_TIMEOUT or "off"
    read_remains, read_consumed, read_max_timeout,
    unread,              \* bytes received and not decoded
    deadline

counts == <<read_remains, read_consumed>>
tvars == <<timer, counts, read_max_timeout, unread, deadline>>

TimerTypeOK ==
    /\ timer \in Kinds \union {"off", "failed"}
    /\ read_remains \in 0 .. Word - 1 /\ read_consumed \in 0 .. Word - 1
    /\ read_max_timeout \in Nat
    /\ unread \in 0 .. MaxBytes
    /\ deadline \in Nat

(* Dispatcher::new starts the header timer. *)
TimerInit ==
    /\ timer = "HDRS" /\ read_remains = 0 /\ read_consumed = 0
    /\ read_max_timeout = Rate["HDRS"].max_timeout
    /\ deadline = Rate["HDRS"].timeout
    /\ unread = 0

-----------------------------------------------------------------------------
StartTimer(k) ==
    /\ timer' = k
    /\ read_max_timeout' = Rate[k].max_timeout
    /\ deadline' = Rate[k].timeout

(* n bytes arrive and the decoder leaves l of what is buffered. *)
ReadSome(n, l) == unread + n <= MaxBytes /\ l \in 0 .. unread + n /\ unread' = l

(* update_hdrs_timer: a part of a head *)
HeadPartUnreset(n, l) ==
    /\ ReadSome(n, l)
    /\ read_remains' = l /\ UNCHANGED read_consumed
    /\ \/ /\ timer = "HDRS"
          /\ UNCHANGED <<timer, read_max_timeout, deadline>>
       \/ /\ timer = "off" /\ unread + n > 0
          /\ StartTimer("HDRS")
HeadPart(n, l) ==
    /\ ReadSome(n, l)
    /\ read_remains' = l
    /\ \/ /\ timer = "HDRS"
          /\ UNCHANGED <<timer, read_consumed, read_max_timeout, deadline>>
       \/ /\ timer = "off" /\ unread + n > 0
          /\ read_consumed' = 0
          /\ StartTimer("HDRS")

(* update_hdrs_timer: the head is complete *)
HeadDone(n, l) ==
    /\ timer \in {"HDRS", "off"} /\ ReadSome(n, l)
    /\ timer' = "off" /\ read_remains' = 0
    /\ UNCHANGED <<read_consumed, read_max_timeout, deadline>>

(* update_payload_timer *)
BodyPart(n, l) ==
    /\ ReadSome(n, l)
    /\ read_remains' = l
    /\ \/ /\ timer = "PL"
          /\ read_consumed' = (read_consumed + (unread + n - l)) % Word
          /\ UNCHANGED <<timer, read_max_timeout, deadline>>
       \/ /\ timer = "off"
          /\ read_consumed' = unread + n - l
          /\ StartTimer("PL")

(* The end of the body, or a receiver that is full *)
BodyStop ==
    /\ timer = "PL" /\ timer' = "off"
    /\ UNCHANGED <<counts, read_max_timeout, unread, deadline>>

(* handle_timeout.  The counter of the other purpose is what it subtracts  *)
(* from or subtracts: the difference is taken modulo Word.                 *)
remainsAt(k) == IF k = "HDRS" THEN 0 ELSE read_remains
consumedAt(k) == IF k = "HDRS" THEN read_consumed ELSE 0
total(k) == (remainsAt(k) - consumedAt(k)) % Word

leftAfter(k) ==
    IF Rate[k].max_timeout # 0 /\ total(k) > Rate[k].rate
    THEN IF read_max_timeout > Rate[k].timeout
         THEN read_max_timeout - Rate[k].timeout ELSE 0
    ELSE read_max_timeout

Extended(k) ==
    total(k) > Rate[k].rate /\ (Rate[k].max_timeout = 0 \/ leftAfter(k) # 0)

Expire ==
    /\ timer \in Kinds
    /\ read_remains' = remainsAt(timer) /\ read_consumed' = consumedAt(timer)
    /\ read_max_timeout' = leftAfter(timer)
    /\ \/ /\ Extended(timer)
          /\ deadline' = deadline + Rate[timer].timeout
          /\ UNCHANGED timer
       \/ /\ ~Extended(timer)
          /\ timer' = "failed"
          /\ UNCHANGED deadline
    /\ UNCHANGED unread

TimerNext ==
    \/ \E n \in 0 .. MaxBytes, l \in 0 .. MaxBytes :
           HeadPart(n, l) \/ HeadDone(n, l) \/ BodyPart(n, l)
    \/ BodyStop \/ Expire

TimerSpec == TimerInit /\ [][TimerNext]_tvars

-----------------------------------------------------------------------------
(* Correctness. *)

(* The difference handle_timeout computes on unsigned numbers does not wrap: *)
(* what an earlier body left in read_consumed never reaches a head's expiry. *)
NoUnderflow == timer \in Kinds => consumedAt(timer) <= remainsAt(timer)

(* However a peer paces its bytes, reading a head or an uninterrupted body   *)
(* takes less than max_timeout plus one timeout, if there is a max_timeout. *)
BoundedReading ==
    timer \in Kinds /\ Rate[timer].max_timeout # 0
        => deadline < Rate[timer].max_timeout + Rate[timer].timeout

(* Both: the expiry of a read timer decides by true numbers of bytes, and    *)
(* grants no more than it was configured to.                                 *)
ReadTimersSafe == NoUnderflow /\ BoundedReading

============================================================================
