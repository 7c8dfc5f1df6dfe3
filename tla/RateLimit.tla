----------------------------- MODULE RateLimit ------------------------------
(***************************************************************************)
(* The token bucket of the rate-limit extension: RateLimitCounters lives   *)
(* in a manager process that serves the connection of every worker process *)
(* in a thread of its own, without a lock.                                 *)
(*                                                                         *)
(* Source: dhcpkit/ipv6/server/extensions/rate_limit/manager.py.           *)
(* This is the entry of one client key; entries do not influence each      *)
(* other.  The float arithmetic is exact here: everything is counted in    *)
(* units of 1/Per of a request.                                            *)
(***************************************************************************)
EXTENDS Integers, Sequences

CONSTANTS
    Threads,     \* threads of the manager process: one per worker process
    Rate, Per,   \* Rate requests in Per seconds
    Burst,       \* burst size: 'burst or rate'
    MaxRequests, \* bound: requests of this client
    MaxTime      \* bound: the clock

ASSUME RateAssumption ==
    /\ Rate \in Nat \ {0} /\ Per \in Nat \ {0} /\ Burst \in Nat \ {0}
    /\ MaxRequests \in Nat /\ MaxTime \in Nat

VARIABLES
    known,     \* is the key in 'counters'?
    allowance, \* the stored allowance
    last,      \* the stored time of the last check
    pc,        \* what a thread does next
    myNow,     \* its local 'now'
    myState,   \* its local 'allowance, last_check'
    now,       \* time.time()
    requests,  \* how many requests were checked
    accepted   \* history: the times of the requests that were allowed

state == <<known, allowance, last>>
locals == <<pc, myNow, myState>>
vars == <<state, locals, now, requests, accepted>>

Full == Burst * Per

Init ==
    /\ known = FALSE /\ allowance = 0 /\ last = 0
    /\ pc = [t \in Threads |-> "idle"]
    /\ myNow = [t \in Threads |-> 0]
    /\ myState = [t \in Threads |-> [allowance |-> 0, last |-> 0]]
    /\ now = 0 /\ requests = 0 /\ accepted = <<>>

-----------------------------------------------------------------------------
(* check_request(), cut where another thread can come in between           *)

ReadClock(t) ==
    /\ pc[t] = "idle" /\ requests < MaxRequests
    /\ requests' = requests + 1
    /\ myNow' = [myNow EXCEPT ![t] = now]
    /\ pc' = [pc EXCEPT ![t] = "read"]
    /\ UNCHANGED <<state, myState, now, accepted>>

(* counters.setdefault(): a new client starts with a full bucket.          *)
ReadState(t) ==
    /\ pc[t] = "read"
    /\ known' = TRUE
    /\ IF known THEN UNCHANGED <<allowance, last>>
                ELSE allowance' = Full /\ last' = myNow[t]
    /\ myState' = [myState EXCEPT ![t] = [allowance |-> allowance', last |-> last']]
    /\ pc' = [pc EXCEPT ![t] = "decide"]
    /\ UNCHANGED <<myNow, now, requests, accepted>>

(* The allowance after the time waited; "No saving up!"                    *)
Saved(t) == \* faulty variant: saving up
    myState[t].allowance + (myNow[t] - myState[t].last) * Rate
Forfeited(t) == \* faulty variant: less than a whole request is not credited
    LET waited == (myNow[t] - myState[t].last) * Rate
        sum == myState[t].allowance + (waited - (waited % Per))
    IN  IF sum > Full THEN Full ELSE sum
Refilled(t) ==
    LET sum == myState[t].allowance + (myNow[t] - myState[t].last) * Rate
    IN  IF sum > Full THEN Full ELSE sum

Decide(t) ==
    /\ pc[t] = "decide"
    /\ IF Refilled(t) < Per
         THEN allowance' = Refilled(t) /\ UNCHANGED accepted
         ELSE /\ allowance' = Refilled(t) - Per
              /\ accepted' = Append(accepted, myNow[t])
    /\ last' = myNow[t]
    /\ pc' = [pc EXCEPT ![t] = "idle"]
    /\ UNCHANGED <<known, myNow, myState, now, requests>>

Tick ==
    /\ now < MaxTime /\ now' = now + 1
    /\ UNCHANGED <<state, locals, requests, accepted>>

CheckRequest(t) == ReadClock(t) \/ ReadState(t) \/ Decide(t)

Next == (\E t \in Threads : CheckRequest(t)) \/ Tick

Spec == Init /\ [][Next]_vars

-----------------------------------------------------------------------------
(* Properties                                                              *)

(* Type correctness; what is stored never is more than a full bucket.      *)
TypeOK ==
    /\ known \in BOOLEAN /\ last \in Nat
    /\ allowance \in Int /\ allowance <= Full
    /\ pc \in [Threads -> {"idle", "read", "decide"}]
    /\ myNow \in [Threads -> Nat]
    /\ myState \in [Threads -> [allowance : Int, last : Nat]]
    /\ now \in Nat /\ requests \in Nat /\ accepted \in Seq(Nat)

(* Between any two accepted requests no more than a burst and the rate     *)
(* were accepted: "The burst size allowed" (rate-limit.rst line 53).       *)
RateLimited ==
    \A i, j \in 1..Len(accepted) : i <= j =>
        (j - i + 1) * Per <= Full + (accepted[j] - accepted[i]) * Rate

(* A request is refused only when accepting it would break that limit: the *)
(* bucket loses nothing of the time a client has waited.                   *)
RefusalsJustified ==
    [][\A t \in Threads :
         pc[t] = "decide" /\ pc'[t] = "idle" /\ accepted' = accepted =>
           \E i \in DOMAIN accepted :
              (Len(accepted) - i + 2) * Per
                > Full + (myNow[t] - accepted[i]) * Rate]_vars
=============================================================================
