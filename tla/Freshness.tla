------------------------------ MODULE Freshness ------------------------------
(***************************************************************************)
(* The two gates every authenticated message of the protocol passes before *)
(* anything else is looked at (src/src/protocol/Protocol.cc): the          *)
(* timestamp window and the bounded replay cache.                          *)
(*                                                                         *)
(* A cache is the deque ReplayCache::order_, oldest nonce first; the set   *)
(* seen_ beside it always holds the same nonces, so it is the range of the *)
(* deque.  hits_ is a statistic and is left out.                           *)
(***************************************************************************)
EXTENDS Naturals, Sequences, Functions

\* A mutant of TimestampFresh that only refuses timestamps of the future.
TimestampNotAhead(now, sent, window) == sent <= now + window

\* timestampFresh: the clocks may differ either way, by at most the window.
TimestampFresh(now, sent, window) ==
    /\ now <= sent + window
    /\ sent <= now + window

Remembers(cache, nonce) == nonce \in Range(cache)

\* What an accepted offer leaves behind: the nonce joins the young end, and
\* the oldest one falls out when the capacity is exceeded.
Remember(cache, nonce, capacity) ==
    LET grown == Append(cache, nonce)
    IN  IF Len(grown) > capacity THEN Tail(grown) ELSE grown
=============================================================================
