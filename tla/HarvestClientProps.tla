--------------------------- MODULE HarvestClientProps ---------------------------
(***************************************************************************)
(* Correctness properties of the Harvest client.                           *)
(***************************************************************************)
EXTENDS HarvestClient

\* Every variable holds a value of its kind; the bucket is never overdrawn and
\* never holds more than its capacity.
TypeOK ==
    /\ tokens \in 0..Full
    /\ lag \in Int /\ lag <= Full
    /\ pc \in [Call -> CallState]
    /\ wait \in [Call -> Nat]
    /\ attempts \in [Call -> 0..(MaxRetries + 1)]
    /\ landed \in [Call -> Nat]
    /\ penalty \in Nat
    /\ spent \in [0..Window -> Nat]

\* However requests, sleeps and penalties interleave, any interval of a ticks
\* sees at most the bucket's capacity plus what refills in a ticks.
RateBound == \A a \in 0..Window : spent[a] <= Full + a

\* "Every concurrent caller on this bucket waits out the penalty, not just the
\* one that got the 429": no request starts before the Retry-After of the latest
\* 429 is over, whoever got it, whoever was already asleep with an earlier
\* wake-up, and whatever penalty was running.  (What was left of that one is
\* forgotten, so a latest 429 with an earlier end lets requests start before the
\* Retry-After of the 429 before it is over.)
PenaltyHolds ==
    [][\A c \in Call : pc[c] = "acquiring" /\ pc'[c] = "sent" => penalty = 0]_vars

\* What the writers of invoices rely on when they settle a row.  A call creates
\* at most one invoice over all its attempts; when it ends in a 4xx, or in a
\* 429 past the cap, none of its attempts created one.
VerdictTrue ==
    \A c \in Call :
        /\ landed[c] <= 1
        /\ pc[c] \in {"limited", "refused"} => landed[c] = 0
        /\ pc[c] = "created" => landed[c] = 1

\* A call ends, though other callers may take every token it has slept for and
\* every answer may be a 429.
CallsReturn == \A c \in Call : pc[c] = "acquiring" ~> pc[c] \in Ended

(***************************************************************************)
(* The inductive invariant.                                                *)
(***************************************************************************)

\* Only a penalty moves updated_at into the future, and it empties the bucket.
EmptyAhead == lag < 0 => tokens = 0

\* A call that has not given up has not used up its retries.
Counted == \A c \in Call : pc[c] # "limited" => attempts[c] <= MaxRetries

\* What was spent and what is left never exceed what there was.
Budget == \A a \in 0..Window : spent[a] + Refilled <= Full + a

\* The bucket holds less than a token until the penalty is over.
Drained == penalty > 0 => tokens + lag <= Cost - penalty

\* Nothing was created while the call can still be retried.
Untouched == \A c \in Call : pc[c] \in {"idle", "acquiring", "sent"} => landed[c] = 0

\* No header is shorter than the refill of one token.
LongRetry == \A r \in RetryAfter : r >= Cost
=============================================================================
