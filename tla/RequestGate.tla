------------------------------ MODULE RequestGate ------------------------------
(***************************************************************************)
(* The two middlewares that keep state in Redis: the rate limits of a user  *)
(* (api/middleware/rate_limit.py) around the idempotency of his mutations   *)
(* (api/middleware/idempotency.py), main.py:115. The requests modelled are  *)
(* of one user, carry one Idempotency-Key and have no body.                 *)
(*                                                                         *)
(* Every command to Redis is a step and may fail; the windows and the       *)
(* stored answer expire at any time once they have a time to live.          *)
(***************************************************************************)
EXTENDS Naturals, FiniteSets

CONSTANTS
    Clients,      \* requests in flight
    Limit,        \* Limit[w]: RATE_LIMIT_PER_MINUTE, RATE_LIMIT_PER_HOUR
    MaxArrivals   \* bound on the requests ever made

ASSUME LimitAssumption ==
    Limit \in [{"minute", "hour"} -> Nat] /\ IsFiniteSet(Clients) /\ MaxArrivals \in Nat

VARIABLES
    hits,         \* hits[w]: the counter of a window, 0 for no key
    timed,        \* the windows whose key has a time to live
    answer,       \* is an answer stored under the idempotency key
    req,          \* req[c]: a request in flight
    arrivals,     \* requests made so far
    admitted,     \* admitted[w]: history, requests counted in the window and let past it
    repeated      \* history: a request that had its answer stored was run again

qVars == <<hits, timed, answer, req, arrivals, admitted, repeated>>

Windows == {"minute", "hour"}
Expire(w) == IF w = "minute" THEN "expire_minute" ELSE "expire_hour"
(* at: the next step; n: the count of its INCR; keyed: its answer will be    *)
(* stored; outer, inner: call_next of each middleware still to be repeated   *)
(* when it raises; answered: an answer was stored when it arrived            *)
Req == [at : {"none", "run", "store", "look"} \cup Windows \cup {Expire(w) : w \in Windows},
        n : 0..MaxArrivals, keyed : BOOLEAN, outer : BOOLEAN, inner : BOOLEAN, answered : BOOLEAN]
NoReq == [at |-> "none", n |-> 0, keyed |-> FALSE, outer |-> FALSE, inner |-> FALSE, answered |-> FALSE]

GateInit ==
    /\ hits = [w \in Windows |-> 0] /\ timed = {} /\ answer = FALSE
    /\ req = [c \in Clients |-> NoReq]
    /\ arrivals = 0
    /\ admitted = [w \in Windows |-> 0] /\ repeated = FALSE

Goes(c, at) == req' = [req EXCEPT ![c].at = at]
Ends(c) == req' = [req EXCEPT ![c] = NoReq]

Arrives(c) ==
    /\ req[c] = NoReq /\ arrivals < MaxArrivals
    /\ arrivals' = arrivals + 1
    /\ req' = [req EXCEPT ![c] = [NoReq EXCEPT !.at = "minute", !.outer = TRUE, !.answered = answer]]
    /\ UNCHANGED <<hits, timed, answer, admitted, repeated>>

(* mutant: one too many *)
OverByOne(w, n) == n > Limit[w] + 1

(* minute_count > minute_limit, hour_count > hour_limit: a 429 *)
Over(w, n) == n > Limit[w]

(* Past a window: the hour is counted after the minute lets the request on   *)
Past(w) == IF w = "minute" THEN "hour" ELSE "look"

(* INCR; the first of a window sets its time to live by another command      *)
Counts(c, w) ==
    LET n == hits[w] + 1 IN
    /\ req[c].at = w
    /\ hits' = [hits EXCEPT ![w] = n]
    /\ req' = [req EXCEPT ![c] = IF Over(w, n) THEN NoReq
                                 ELSE [@ EXCEPT !.n = n, !.at = IF n = 1 THEN Expire(w) ELSE Past(w)]]
    /\ admitted' = [admitted EXCEPT ![w] = IF Over(w, n) THEN @ ELSE @ + 1]
    /\ UNCHANGED <<timed, answer, arrivals, repeated>>

(* EXPIRE, which gives a key whatever its count a time to live *)
SetsTime(c, w) ==
    /\ req[c].at = Expire(w)
    /\ timed' = IF hits[w] > 0 THEN timed \cup {w} ELSE timed
    /\ Goes(c, Past(w))
    /\ UNCHANGED <<hits, answer, arrivals, admitted, repeated>>

(* Redis is gone or fails: on without the limits, call_next in the handler   *)
(* of the exception or before the counters                                   *)
LimitsFail(c) ==
    /\ req[c].at \notin {"none", "look", "run", "store"}
    /\ \E again \in BOOLEAN :
          req' = [req EXCEPT ![c].at = "look", ![c].outer = again /\ req[c].at = "minute"]
    /\ UNCHANGED <<hits, timed, answer, arrivals, admitted, repeated>>

(* mutant: the answer is taken *)
TakesAnswer(c) ==
    /\ req[c].at = "look"
    /\ answer' = FALSE
    /\ IF answer THEN Ends(c)
       ELSE req' = [req EXCEPT ![c].at = "run", ![c].keyed = TRUE, ![c].inner = TRUE]
    /\ UNCHANGED <<hits, timed, arrivals, admitted, repeated>>

(* GET: a stored answer is the answer *)
Looks(c) ==
    /\ req[c].at = "look"
    /\ IF answer THEN Ends(c)
       ELSE req' = [req EXCEPT ![c].at = "run", ![c].keyed = TRUE, ![c].inner = TRUE]
    /\ UNCHANGED <<hits, timed, answer, arrivals, admitted, repeated>>

(* No Redis, or GET raises: run all the same                                 *)
LookFails(c) ==
    /\ req[c].at = "look"
    /\ \E again \in BOOLEAN :
          req' = [req EXCEPT ![c].at = "run", ![c].keyed = FALSE, ![c].inner = again, ![c].answered = FALSE]
    /\ UNCHANGED <<hits, timed, answer, arrivals, admitted, repeated>>

(* The endpoint changes the state and answers with a 2xx *)
Succeeds(c) ==
    /\ req[c].at = "run"
    /\ repeated' = (repeated \/ req[c].answered)
    /\ IF req[c].keyed THEN Goes(c, "store") ELSE Ends(c)
    /\ UNCHANGED <<hits, timed, answer, arrivals, admitted>>

(* ... or with another status: nothing is stored *)
Refuses(c) ==
    /\ req[c].at = "run"
    /\ Ends(c)
    /\ UNCHANGED <<hits, timed, answer, arrivals, admitted, repeated>>

(* ... or raises, and its session is rolled back: each middleware calls the  *)
(* endpoint a second time, the inner one without the key, the outer one      *)
(* through the inner                                                         *)
Raises(c) ==
    LET q == req[c] IN
    /\ q.at = "run"
    /\ req' = [req EXCEPT ![c] =
                 IF q.inner THEN [q EXCEPT !.inner = FALSE, !.keyed = FALSE]
                 ELSE IF q.outer THEN [q EXCEPT !.outer = FALSE, !.at = "look"]
                 ELSE NoReq]
    /\ UNCHANGED <<hits, timed, answer, arrivals, admitted, repeated>>

(* SETEX, or its failure, which is only logged *)
Stores(c) ==
    /\ req[c].at = "store"
    /\ \E stored \in BOOLEAN : answer' = (answer \/ stored)
    /\ Ends(c)
    /\ UNCHANGED <<hits, timed, arrivals, admitted, repeated>>

(* The process dies, or the client goes away and its request is cancelled    *)
ReqDies(c) ==
    /\ req[c] # NoReq
    /\ Ends(c)
    /\ UNCHANGED <<hits, timed, answer, arrivals, admitted, repeated>>

WindowEnds(w) ==
    /\ w \in timed
    /\ hits' = [hits EXCEPT ![w] = 0]
    /\ timed' = timed \ {w}
    /\ admitted' = [admitted EXCEPT ![w] = 0]
    /\ UNCHANGED <<answer, req, arrivals, repeated>>

(* IDEMPOTENCY_TTL_SECONDS; who is in flight may then run again              *)
AnswerExpires ==
    /\ answer
    /\ answer' = FALSE
    /\ req' = [c \in Clients |-> [req[c] EXCEPT !.answered = FALSE]]
    /\ UNCHANGED <<hits, timed, arrivals, admitted, repeated>>

GateNext ==
    \/ \E c \in Clients :
          \/ Arrives(c) \/ LimitsFail(c) \/ Looks(c) \/ LookFails(c)
          \/ Succeeds(c) \/ Refuses(c) \/ Raises(c) \/ Stores(c) \/ ReqDies(c)
          \/ \E w \in Windows : Counts(c, w) \/ SetsTime(c, w)
    \/ \E w \in Windows : WindowEnds(w)
    \/ AnswerExpires

GateSpec == GateInit /\ [][GateNext]_qVars

-------------------------------------------------------------------------------
GateTypeOK ==
    /\ hits \in [Windows -> 0..MaxArrivals] /\ timed \subseteq Windows
    /\ answer \in BOOLEAN /\ req \in [Clients -> Req]
    /\ admitted \in [Windows -> 0..MaxArrivals] /\ repeated \in BOOLEAN

(* However the requests and the failures of Redis interleave, a window that  *)
(* is not over has let past no more requests than its limit.                 *)
AdmittedWithinLimit == \A w \in Windows : admitted[w] <= Limit[w]

(* A request made after the answer of its key was stored, while it is, does  *)
(* not run the endpoint again unless Redis fails (idempotency.py:46-49).     *)
AnswerReplayed == ~repeated

(* What the two middlewares promise together, Redis failing or not.          *)
GateKeeps == AdmittedWithinLimit /\ AnswerReplayed

(* A client who is over its limit is let in again: "Please try again later"  *)
(* (rate_limit.py:111). A counter without a time to live is that of a        *)
(* request about to set it.                                                  *)
CounterIsTimed ==
    \A w \in Windows : hits[w] > 0 /\ w \notin timed => \E c \in Clients : req[c].at = Expire(w)

(* "we must never call it twice on the same request" (rate_limit.py:164):    *)
(* the endpoint of a request is called once.                                 *)
CalledOnce == [][\A c \in Clients : req[c].at = "run" => req'[c].at \in {"none", "store"}]_qVars

===============================================================================
