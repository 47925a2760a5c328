----------------------------- MODULE HarvestClient -----------------------------
(***************************************************************************)
(* The client of the Harvest API: the token bucket that paces requests and *)
(* the POST that retries on 429 and on nothing else.                       *)
(*                                                                         *)
(* Time is counted in ticks and tokens in grains, so that the bucket       *)
(* refills one grain per tick: a request costs Cost grains, which is also  *)
(* the number of ticks (window / capacity) that refill one token.  No      *)
(* absolute clock is kept: lag is now - updated_at, and is negative while  *)
(* a penalty has moved updated_at into the future.                         *)
(*                                                                         *)
(* The limiter's lock is never held over an await, so each critical        *)
(* section is one action; what runs between them is any interleaving.      *)
(***************************************************************************)
EXTENDS Integers

CONSTANTS
    Call,        \* calls of _post
    Full,        \* capacity of the bucket, in grains
    Cost,        \* grains in one token
    RetryAfter,  \* values of the Retry-After header, in ticks
    MaxRetries,  \* _MAX_429_RETRIES
    Window       \* longest interval, in ticks, whose spending is remembered

ASSUME HarvestAssumption ==
    /\ Cost \in Nat \ {0}
    /\ Full \in Nat /\ Cost <= Full
    /\ RetryAfter \subseteq Nat
    /\ MaxRetries \in Nat
    /\ Window \in Nat

VARIABLES
    tokens,    \* _Bucket.tokens, as of updated_at
    lag,       \* now - _Bucket.updated_at, counted up to Full
    pc,        \* where a call is, or how it ended
    wait,      \* ticks a call still sleeps
    attempts,  \* 429 answers a call has had
    landed,    \* invoices Harvest has created for a call
    penalty,   \* ticks until the Retry-After of the latest 429 is over
    spent      \* spent[a]: grains spent during the last a ticks

bucket == <<tokens, lag>>
vars == <<tokens, lag, pc, wait, attempts, landed, penalty, spent>>

\* How a call ends: with the invoice, HarvestRateLimited, another 4xx, or an
\* exception that says nothing about the invoice.
Ended == {"created", "limited", "refused", "unknown"}
CallState == {"idle", "acquiring", "sent"} \cup Ended

\* _Bucket.refill: what the bucket holds now.
Refilled ==
    IF lag <= 0 THEN tokens
    ELSE IF tokens + lag < Full THEN tokens + lag ELSE Full

\* Mutant: updated_at stays, and the same time refills the bucket again.
RefilledLagKept == lag

\* updated_at moves to now, or stays in the future.
RefilledLag == IF lag <= 0 THEN lag ELSE 0

Init ==
    /\ tokens = Full
    /\ lag = 0
    /\ pc = [c \in Call |-> "idle"]
    /\ wait = [c \in Call |-> 0]
    /\ attempts = [c \in Call |-> 0]
    /\ landed = [c \in Call |-> 0]
    /\ penalty = 0
    /\ spent = [a \in 0..Window |-> 0]

Begin(c) ==
    /\ pc[c] = "idle"
    /\ pc' = [pc EXCEPT ![c] = "acquiring"]
    /\ UNCHANGED <<bucket, wait, attempts, landed, penalty, spent>>

(***************************************************************************)
(* acquire: take a token, or sleep and look again.                         *)
(***************************************************************************)
Awake(c) == pc[c] = "acquiring" /\ wait[c] = 0

Spend(c) ==
    /\ Awake(c)
    /\ Refilled >= Cost
    /\ tokens' = Refilled - Cost
    /\ lag' = RefilledLag
    /\ pc' = [pc EXCEPT ![c] = "sent"]
    /\ spent' = [a \in 0..Window |-> spent[a] + Cost]
    /\ UNCHANGED <<wait, attempts, landed, penalty>>

Doze(c) ==
    /\ Awake(c)
    /\ Refilled < Cost
    /\ tokens' = Refilled
    /\ lag' = RefilledLag
    /\ wait' = [wait EXCEPT ![c] = Cost - Refilled]
    /\ UNCHANGED <<pc, attempts, landed, penalty, spent>>

(***************************************************************************)
(* What comes of the request.                                              *)
(***************************************************************************)
End(c, how, n) ==
    /\ pc[c] = "sent"
    /\ pc' = [pc EXCEPT ![c] = how]
    /\ landed' = [landed EXCEPT ![c] = @ + n]
    /\ UNCHANGED <<bucket, wait, attempts, penalty, spent>>

Accepted(c) == End(c, "created", 1)

\* 400 to 499, except 429: nothing was created.
Refused(c) == End(c, "refused", 0)

\* Mutant: retry what is not known to have failed.
DoubtfulRetried(c) ==
    /\ pc[c] = "sent"
    /\ pc' = [pc EXCEPT ![c] = "acquiring"]
    /\ \E n \in {0, 1} : landed' = [landed EXCEPT ![c] = @ + n]
    /\ UNCHANGED <<bucket, wait, attempts, penalty, spent>>

\* A timeout, a lost connection, a 5xx or a body that cannot be read: the
\* exception propagates, whether or not the invoice exists.
Doubtful(c) == \E n \in {0, 1} : End(c, "unknown", n)

\* Mutant: the retries are not counted.
CountUncounted(c) == attempts[c]

Count(c) == attempts[c] + 1

\* 429 past the cap: raised, and the bucket is not told.
GivesUp(c) ==
    /\ pc[c] = "sent"
    /\ Count(c) > MaxRetries
    /\ pc' = [pc EXCEPT ![c] = "limited"]
    /\ attempts' = [attempts EXCEPT ![c] = Count(c)]
    /\ UNCHANGED <<bucket, wait, landed, penalty, spent>>

\* Mutant: the bucket is drained but refills from now on.
PenalizeDrains(r) == tokens' = 0 /\ lag' = 0

\* penalize: no token before r ticks have passed, for any caller.  What is left
\* of an earlier penalty is forgotten, be it longer or shorter.
Penalize(r) == tokens' = 0 /\ lag' = Cost - r

\* 429 within the cap: penalize, sleep, acquire again.
Throttled(c, r) ==
    /\ pc[c] = "sent"
    /\ Count(c) <= MaxRetries
    /\ attempts' = [attempts EXCEPT ![c] = Count(c)]
    /\ Penalize(r)
    /\ pc' = [pc EXCEPT ![c] = "acquiring"]
    /\ wait' = [wait EXCEPT ![c] = r]
    /\ penalty' = r
    /\ UNCHANGED <<landed, spent>>

(***************************************************************************)
(* One tick of time.  A sleeper may wake later than it asked to.           *)
(***************************************************************************)
Tick ==
    /\ lag' = IF lag < Full THEN lag + 1 ELSE lag
    /\ wait' = [c \in Call |-> IF wait[c] > 0 THEN wait[c] - 1 ELSE 0]
    /\ penalty' = IF penalty > 0 THEN penalty - 1 ELSE 0
    /\ spent' = [a \in 0..Window |-> IF a = 0 THEN 0 ELSE spent[a - 1]]
    /\ UNCHANGED <<tokens, pc, attempts, landed>>

Acquire(c) == Spend(c) \/ Doze(c)

Answer(c) ==
    \/ Accepted(c) \/ Refused(c) \/ Doubtful(c) \/ GivesUp(c)
    \/ \E r \in RetryAfter : Throttled(c, r)

Next == Tick \/ \E c \in Call : Begin(c) \/ Acquire(c) \/ Answer(c)

Spec == Init /\ [][Next]_vars

\* Time passes, a task that can run does run, and a request ends within the
\* client's timeout.
Fairness ==
    /\ WF_vars(Tick)
    /\ \A c \in Call : WF_vars(Acquire(c)) /\ WF_vars(Answer(c))

FairSpec == Spec /\ Fairness
=============================================================================
