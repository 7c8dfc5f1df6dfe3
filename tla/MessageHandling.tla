-------------------------- MODULE MessageHandling ---------------------------
(***************************************************************************)
(* One worker process handling one message after another: parsing, the     *)
(* chain of handlers in its phases pre, handle and post, the answers given *)
(* when a handler raises, the counters, and the messages sent.             *)
(*                                                                         *)
(* Sources: dhcpkit/ipv6/server/message_handler.py, worker.py, the         *)
(* handlers in handlers/, extensions/static_assignments/__init__.py,       *)
(* extensions/leasequery/__init__.py, extensions/bulk_leasequery.py,       *)
(* extensions/prefix_delegation.py, extensions/rate_limit/__init__.py.     *)
(* Handlers that only copy or add plain options are left out; the          *)
(* UnansweredIA handlers are always created authoritative.                 *)
(***************************************************************************)
EXTENDS Integers, Sequences, FiniteSets, Selections

CONSTANTS
    Requests,   \* the messages clients send; a prefix in an IA_PD is the
                \* set of subnets that it covers
    Configured, \* the configured handlers, those of inner filters first,
                \* each with the ways to come in that the filters match
    AllowFrom,  \* the peers that may send leasequeries
    AllowRapidCommit, RapidCommitRejections,
    None,       \* no address
    MaxRequests \* bound: messages received

Kinds == {"na", "ta", "pd"}

ASSUME HandlingAssumption ==
    /\ AllowRapidCommit \in BOOLEAN /\ RapidCommitRejections \in BOOLEAN
    /\ MaxRequests \in Nat
    /\ \A r \in Requests : /\ r.ias \in Seq(SetOf(r.ias))
                           /\ \A ia \in SetOf(r.ias) : ia.kind \in Kinds
    /\ Configured \in Seq(SetOf(Configured))
    /\ \A h \in SetOf(Configured) :
          h.name \in {"RateLimit", "ServerUnicast", "Ignore", "Leasequery", "Static"}

(* What clients promise, and module Contents checks in part: an IAID is    *)
(* used once per kind of IA, a decline has no IA_PD, and messages that     *)
(* ask for no addresses have no IA.                                        *)
RequestsAreDistinct ==
    \A r \in Requests :
        /\ \A i, j \in DOMAIN r.ias :
             r.ias[i].kind = r.ias[j].kind /\ r.ias[i].iaid = r.ias[j].iaid => i = j
        /\ r.type = "Decline" => \A ia \in SetOf(r.ias) : ia.kind # "pd"
        /\ r.type \in {"InformationRequest", "Leasequery"} => r.ias = <<>>

(* A client's address and prefix are configured in one place, and no       *)
(* filter keeps a message from it.                                         *)
Assignments == {h \in SetOf(Configured) : h.name = "Static"}
OneAssignment ==
    /\ \A g, h \in Assignments : g = h
    /\ \A h \in Assignments, r \in Requests : r.via \in h.for

VARIABLES
    stage,        \* the phase the message is in
    pos,          \* the handler that is next in this phase
    request,      \* bundle.request
    allowUnicast, \* bundle.allow_unicast
    response,     \* bundle.response: the first response
    more,         \* messages its iterator has left, the last is "done"
    handled,      \* bundle.handled_options: IA options
    answered,     \* bundle.handled_options: the query of a leasequery
    counters,     \* statistics
    leased        \* client: the leases it was given in replies

bundle == <<request, allowUnicast, response, more, handled, answered>>
vars == <<stage, pos, bundle, counters, leased>>

Counters ==
    {"incoming_packet", "unparsable_packet", "message_in", "message_out",
     "outgoing_packet", "handling_error", "for_other_server",
     "do_not_respond", "use_multicast", "unknown_query_type", "not_allowed",
     "other_error"}

Handler(n) == [name |-> n]

(* Every filter around a handler must match.                               *)
Selected == Those(Configured, {h \in SetOf(Configured) : request.via \in h.for})

(* get_handlers(): set-up, what the filters selected, clean-up.            *)
Chain ==
    (IF AllowRapidCommit THEN <<Handler("RapidCommit")>> ELSE <<>>)
    \o <<Handler("ServerId"), Handler("RequireBulkOverTCP"),
         Handler("RefuseBulkOverUDP")>>
    \o Selected
    \o <<Handler("RejectUnwantedUnicast"), Handler("UnansweredIA"),
         Handler("UnansweredLeasequery"), Handler("UnansweredIAPD"),
         Handler("AddMissingStatus")>>

NoResponse ==
    [type |-> "none", answers |-> <<>>, status |-> "none", rapid |-> FALSE]

Init ==
    /\ stage = "idle" /\ pos = 1
    /\ request \in Requests
    /\ allowUnicast = FALSE /\ response = NoResponse /\ more = 0
    /\ handled = {} /\ answered = FALSE
    /\ counters = [c \in Counters |-> 0] /\ leased = {}

-----------------------------------------------------------------------------
(* The worker and the phases                                               *)

Count(names) ==
    counters' = [c \in Counters |->
                   IF c \in names THEN counters[c] + 1 ELSE counters[c]]

Received == counters["incoming_packet"] < MaxRequests

(* parse_incoming_request() and a new TransactionBundle; handle() starts.  *)
Receive ==
    /\ stage = "idle" /\ Received
    /\ request' \in Requests
    /\ allowUnicast' = FALSE /\ response' = NoResponse /\ more' = 0
    /\ handled' = {} /\ answered' = FALSE
    /\ Count({"incoming_packet", "message_in"})
    /\ stage' = "pre" /\ pos' = 1
    /\ UNCHANGED leased

ReceiveUnparsable ==
    /\ stage = "idle" /\ Received
    /\ Count({"incoming_packet", "unparsable_packet"})
    /\ UNCHANGED <<stage, pos, bundle, leased>>

(* An unknown message, or one that clients do not send: there is no        *)
(* request, and handle() returns at once.  (Over TCP such a message breaks *)
(* get_update_set(), and is not even counted.)                             *)
ReceiveNoRequest ==
    /\ stage = "idle" /\ Received
    /\ Count({"incoming_packet"})
    /\ UNCHANGED <<stage, pos, bundle, leased>>

At(phase, name) == stage = phase /\ Chain[pos].name = name

(* The next handler of this phase, or the next phase.                      *)
PastEnd(n) == n > Len(Chain) \* faulty variant: one too far
AtEnd(n) == n = Len(Chain)
Onward ==
    \/ ~AtEnd(pos) /\ pos' = pos + 1 /\ UNCHANGED stage
    \/ /\ AtEnd(pos) /\ pos' = 1
       /\ stage' = CASE stage = "pre" -> "init" [] stage = "handle" -> "post"
                     [] stage = "post" -> "analyse"

Pass == Onward /\ UNCHANGED <<response, more, counters>>

(* A handler raised CannotRespondError or ForOtherServerError.             *)
Ignore(counter) ==
    /\ stage' = "analyse" /\ pos' = 1
    /\ response' = NoResponse /\ more' = 0
    /\ Count({counter})

(* A handler raised an error that is told to the client.  The response     *)
(* setter replaces the first message of the list only.                     *)
ReplyWithStatus(type, status, counter) ==
    /\ stage' = "analyse" /\ pos' = 1
    /\ response' = [NoResponse EXCEPT !.type = type, !.status = status]
    /\ Count({counter}) /\ UNCHANGED more

(* Any other exception leaves handle() and ends up in handle_message().    *)
HandlingError ==
    /\ stage' = "idle" /\ pos' = 1
    /\ Count({"handling_error"}) /\ UNCHANGED <<response, more>>

-----------------------------------------------------------------------------
(* pre()                                                                   *)

ServerIdPre ==
    /\ At("pre", "ServerId")
    /\ \/ request.server # "other" /\ Pass
       \/ request.server = "other" /\ Ignore("for_other_server")
    /\ UNCHANGED <<request, allowUnicast, handled, answered, leased>>

RequireBulkOverTCPPre ==
    LET refuse == request.via = "tcp" /\ request.type # "Leasequery"
    IN  /\ At("pre", "RequireBulkOverTCP")
        /\ (~refuse /\ Pass) \/ (refuse /\ Ignore("do_not_respond"))
        /\ UNCHANGED <<request, allowUnicast, handled, answered, leased>>

RefuseBulkOverUDPPre ==
    LET refuse == /\ request.via # "tcp" /\ request.type = "Leasequery"
                  /\ request.query = "bulk"
    IN  /\ At("pre", "RefuseBulkOverUDP")
        /\ \/ ~refuse /\ Pass
           \/ refuse /\ ReplyWithStatus("LeasequeryReply", "NotAllowed", "not_allowed")
        /\ UNCHANGED <<request, allowUnicast, handled, answered, leased>>

IgnorePre ==
    LET match == Chain[pos].types = {} \/ request.type \in Chain[pos].types
    IN  /\ At("pre", "Ignore")
        /\ (~match /\ Pass) \/ (match /\ Ignore("do_not_respond"))
        /\ UNCHANGED <<request, allowUnicast, handled, answered, leased>>

(* Whether the client is within its rate is up to module RateLimit; the    *)
(* process that knows may be gone.                                         *)
RateLimitPre ==
    /\ At("pre", "RateLimit")
    /\ Pass \/ Ignore("do_not_respond") \/ HandlingError
    /\ UNCHANGED <<request, allowUnicast, handled, answered, leased>>

ServerUnicastPre ==
    /\ At("pre", "ServerUnicast")
    /\ Pass /\ allowUnicast' = TRUE
    /\ UNCHANGED <<request, handled, answered, leased>>

(* Nobody is allowed when no prefix matches; there may be none at all.     *)
LeasequeryPre ==
    LET refuse == request.type = "Leasequery" /\ request.peer \notin AllowFrom
    IN  /\ At("pre", "Leasequery")
        /\ \/ ~refuse /\ Pass
           \/ refuse /\ ReplyWithStatus("LeasequeryReply", "NotAllowed", "not_allowed")
        /\ UNCHANGED <<request, allowUnicast, handled, answered, leased>>

(* Not multicast, and only the relay that the worker itself has added.     *)
RejectUnwantedUnicastPre ==
    LET refuse == ~allowUnicast /\ request.via \in {"unicast", "tcp"}
    IN  /\ At("pre", "RejectUnwantedUnicast")
        /\ \/ ~refuse /\ Pass
           \/ refuse /\ ReplyWithStatus("Reply", "UseMulticast", "use_multicast")
        /\ UNCHANGED <<request, allowUnicast, handled, answered, leased>>

(* The handler does not override this phase.                               *)
Overrides ==
    [pre |-> {"ServerId", "RequireBulkOverTCP", "RefuseBulkOverUDP", "Ignore",
              "RateLimit", "ServerUnicast", "Leasequery",
              "RejectUnwantedUnicast"},
     handle |-> {"Static", "Leasequery", "UnansweredIA", "UnansweredIAPD",
                 "AddMissingStatus"},
     post |-> {"RapidCommit", "UnansweredLeasequery"}]

NotOverridden ==
    /\ stage \in DOMAIN Overrides
    /\ Chain[pos].name \notin Overrides[stage]
    /\ Pass /\ UNCHANGED <<request, allowUnicast, handled, answered, leased>>

-----------------------------------------------------------------------------
(* init_response()                                                         *)

ResponseType ==
    CASE request.type = "Solicit" -> "Advertise"
      [] request.type \in {"Request", "Renew", "Rebind", "Release", "Decline",
                           "InformationRequest"} -> "Reply"
      [] request.type = "Confirm" ->
           IF \E i \in DOMAIN request.ias : request.ias[i].addrs # {}
           THEN "Reply" ELSE "none"
      [] request.type = "Leasequery" -> "LeasequeryReply"
      [] OTHER -> "none"

InitResponse ==
    /\ stage = "init"
    /\ \/ /\ ResponseType # "none"
          /\ response' = [NoResponse EXCEPT !.type = ResponseType]
          /\ stage' = "handle" /\ pos' = 1
          /\ UNCHANGED <<more, counters>>
       \/ ResponseType = "none" /\ Ignore("do_not_respond")
    /\ UNCHANGED <<request, allowUnicast, handled, answered, leased>>

-----------------------------------------------------------------------------
(* handle()                                                                *)

Answer(ia, live, dead, status) ==
    [kind |-> ia.kind, iaid |-> ia.iaid, live |-> live, dead |-> dead,
     status |-> status]

(* get_unhandled_options(): options are compared by value.                 *)
Unhandled(kinds) ==
    Those(request.ias, {ia \in SetOf(request.ias) : ia.kind \in kinds} \ handled)

Respond(answers) ==
    response' = [response EXCEPT !.answers = @ \o answers]

Mark(ias) == handled' = handled \cup ias

(* find_iana_option_for_address(), find_iapd_option_for_prefix()           *)
FindOption(ias, a) ==
    LET holding == Those(ias, {ia \in SetOf(ias) : a \in ia.addrs})
    IN  IF holding # <<>> THEN <<holding[1]>>
        ELSE IF ias # <<>> THEN <<ias[1]>> ELSE <<>>

Grants(kind, a) ==
    IF a \in {None, {}} THEN <<>> ELSE FindOption(Unhandled({kind}), a)

(* handle_request(), also for a solicit: one address and one prefix.       *)
StaticRequest(h) ==
    LET pd == Grants("pd", h.prefix)
        na == Grants("na", h.address)
    IN  /\ request.type \in {"Solicit", "Request"}
        /\ Respond([i \in DOMAIN pd |-> Answer(pd[i], {h.prefix}, {}, "none")] \o
                   [i \in DOMAIN na |-> Answer(na[i], {h.address}, {}, "none")])
        /\ Mark(SetOf(pd) \cup SetOf(na))

StaticConfirm(h) ==
    /\ request.type = "Confirm"
    /\ Mark({ia \in SetOf(Unhandled({"na"})) : h.address \in ia.addrs})
    /\ UNCHANGED response

Overlapping(h) ==
    {ia \in SetOf(Unhandled({"pd"})) : \E p \in ia.addrs : p \cap h.prefix # {}}

KeptAlone(addrs, a) == \* faulty variant: only if there are no others
    IF addrs = {a} THEN {a} ELSE {}
Kept(addrs, a) == addrs \cap {a}

(* handle_renew_rebind(): IA_PDs that overlap, but every IA_NA.            *)
StaticRenew(h) ==
    LET pd == Those(Unhandled({"pd"}), Overlapping(h))
        na == Unhandled({"na"})
        Renewed(s, a) == [i \in DOMAIN s |->
            Answer(s[i], Kept(s[i].addrs, a), s[i].addrs \ Kept(s[i].addrs, a),
                   "none")]
    IN  /\ request.type \in {"Renew", "Rebind"}
        /\ Respond(Renewed(pd, h.prefix) \o Renewed(na, h.address))
        /\ Mark(SetOf(pd) \cup SetOf(na))

StaticRelease(h) ==
    /\ request.type \in {"Release", "Decline"}
    /\ Mark(Overlapping(h) \cup
            {ia \in SetOf(Unhandled({"na"})) : h.address \in ia.addrs})
    /\ UNCHANGED response

StaticHandle ==
    LET h == Chain[pos]
    IN  /\ At("handle", "Static")
        /\ \/ StaticRequest(h) \/ StaticConfirm(h)
           \/ StaticRenew(h) \/ StaticRelease(h)
           \/ /\ request.type \in {"InformationRequest", "Leasequery"}
              /\ UNCHANGED <<response, handled>>
        /\ Onward
        /\ UNCHANGED <<request, allowUnicast, more, answered, counters, leased>>

(* find_leases() says how many leases there are; reading them comes later  *)
(* and may find fewer.                                                     *)
Unmarked == UNCHANGED answered \* faulty variant: the query is not marked
MarkQuery == answered' = TRUE

LeasequeryHandle ==
    /\ At("handle", "Leasequery")
    /\ \/ (request.type # "Leasequery" \/ answered) /\ Pass /\ UNCHANGED answered
       \/ /\ request.type = "Leasequery" /\ ~answered
          /\ \/ HandlingError /\ UNCHANGED answered \* the store raises
             \/ Pass /\ UNCHANGED answered          \* not supported
             \/ Pass /\ MarkQuery                   \* no leases, or over UDP
             \/ /\ MarkQuery                        \* the leases are gone
                /\ ReplyWithStatus("LeasequeryReply",
                     IF request.via = "tcp" THEN "QueryTerminated" ELSE "UnspecFail",
                     "other_error")
             \/ /\ request.via = "tcp" /\ MarkQuery \* the first is in response
                /\ more' \in 1..2
                /\ Onward /\ UNCHANGED <<response, counters>>
    /\ UNCHANGED <<request, allowUnicast, handled, leased>>

AnswerAll(ias, status) ==
    Respond([i \in DOMAIN ias |-> Answer(ias[i], {}, {}, status)])
WithdrawAll(ias) ==
    Respond([i \in DOMAIN ias |-> Answer(ias[i], {}, ias[i].addrs, "none")])

(* force_status(): there is at most one status option.                     *)
ForceStatus(ias) ==
    response' = [response EXCEPT !.status = IF ias # <<>> THEN "NotOnLink" ELSE @]

(* Faulty variant: IA_TAs are forgotten.                                   *)
OnlyIANA == {"na"}
Addressed == {"na", "ta"}

UnansweredIAHandle ==
    LET ias == Unhandled(Addressed)
    IN  /\ At("handle", "UnansweredIA")
        /\ \/ /\ request.type \in {"Solicit", "Request"}
              /\ AnswerAll(ias, "NoAddrsAvail")
           \/ request.type = "Confirm" /\ ForceStatus(ias)
           \/ request.type \in {"Renew", "Rebind"} /\ WithdrawAll(ias)
           \/ request.type \in {"Decline", "Release"} /\ AnswerAll(ias, "NoBinding")
           \/ /\ request.type \in {"InformationRequest", "Leasequery"}
              /\ UNCHANGED response
        /\ Onward
        /\ UNCHANGED <<request, allowUnicast, more, handled, answered, counters,
                       leased>>

UnansweredIAPDHandle ==
    LET ias == Unhandled({"pd"})
    IN  /\ At("handle", "UnansweredIAPD")
        /\ \/ /\ request.type \in {"Solicit", "Request"}
              /\ AnswerAll(ias, "NoPrefixAvail")
           \/ request.type \in {"Renew", "Release"} /\ AnswerAll(ias, "NoBinding")
           \/ request.type = "Rebind" /\ WithdrawAll(ias)
           \/ /\ request.type \in {"Confirm", "Decline", "InformationRequest",
                                   "Leasequery"}
              /\ UNCHANGED response
        /\ Onward
        /\ UNCHANGED <<request, allowUnicast, more, handled, answered, counters,
                       leased>>

AddMissingStatusHandle ==
    /\ At("handle", "AddMissingStatus")
    /\ response' = [response EXCEPT !.status =
         IF request.type \in {"Confirm", "Release", "Decline"} /\ @ = "none"
         THEN "Success" ELSE @]
    /\ Onward
    /\ UNCHANGED <<request, allowUnicast, more, handled, answered, counters,
                   leased>>

-----------------------------------------------------------------------------
(* post()                                                                  *)

(* Faulty variant: only what handlers refused counts as a refusal.         *)
AnsweredRefusal ==
    \E i \in DOMAIN response.answers :
        LET a == response.answers[i]
        IN  a.status = IF a.kind = "pd" THEN "NoPrefixAvail" ELSE "NoBinding"
Refused ==
    \/ Unhandled(Kinds) # <<>>
    \/ \E i \in DOMAIN response.answers :
         LET a == response.answers[i]
         IN  a.status = IF a.kind = "pd" THEN "NoPrefixAvail" ELSE "NoAddrsAvail"

RapidCommitPost ==
    LET commit == /\ request.type = "Solicit" /\ request.rapid
                  /\ response.type = "Advertise"
                  /\ RapidCommitRejections \/ ~Refused
    IN  /\ At("post", "RapidCommit")
        /\ response' = IF commit
                       THEN [response EXCEPT !.type = "Reply", !.rapid = TRUE]
                       ELSE response
        /\ Onward
        /\ UNCHANGED <<request, allowUnicast, more, handled, answered, counters,
                       leased>>

UnansweredLeasequeryPost ==
    LET refuse == request.type = "Leasequery" /\ ~answered
    IN  /\ At("post", "UnansweredLeasequery")
        /\ \/ ~refuse /\ Pass
           \/ /\ refuse
              /\ ReplyWithStatus("LeasequeryReply", "UnknownQueryType",
                                 "unknown_query_type")
        /\ UNCHANGED <<request, allowUnicast, handled, answered, leased>>

-----------------------------------------------------------------------------
(* analyse_post() ignores all exceptions; what a store remembers is up to  *)
(* module LeaseStore.                                                      *)
CountAlways == Count({"message_out"}) \* faulty variant: nothing goes out
CountOut == IF response.type # "none" THEN Count({"message_out"})
                                      ELSE UNCHANGED counters

AnalysePost ==
    /\ stage = "analyse" /\ pos' = 1 /\ CountOut
    /\ stage' = IF response.type # "none" THEN "send" ELSE "idle"
    /\ UNCHANGED <<bundle, leased>>

(* What a reply tells its client.                                          *)
Leases(dead) ==
    UNION {{[kind |-> a.kind, iaid |-> a.iaid, addr |-> x] :
              x \in IF dead THEN a.dead ELSE a.live} : a \in SetOf(response.answers)}
GivenUp ==
    UNION {{[kind |-> ia.kind, iaid |-> ia.iaid, addr |-> x] : x \in ia.addrs} :
             ia \in SetOf(request.ias)}

Learned ==
    IF response.type = "Reply"
    THEN (leased \cup Leases(FALSE)) \
         (Leases(TRUE) \cup
          IF request.type \in {"Release", "Decline"} THEN GivenUp ELSE {})
    ELSE leased

(* send_reply() sends or, when the message cannot be encoded or the TCP    *)
(* connection is gone, only logs that it does not; sendto() raises.        *)
SendFirst ==
    /\ stage = "send"
    /\ \/ /\ leased' \in {Learned, leased} /\ Count({"outgoing_packet"})
          /\ stage' = IF more > 0 THEN "more" ELSE "idle"
       \/ /\ request.via # "tcp" /\ Count({"outgoing_packet", "handling_error"})
          /\ stage' = "idle" /\ UNCHANGED leased
    /\ UNCHANGED <<pos, bundle>>

(* Data of the next lease, and in the end "done"; the generator reads the  *)
(* store and may raise.                                                    *)
SendMore ==
    /\ stage = "more"
    /\ \/ /\ more' = more - 1 /\ Count({"outgoing_packet"})
          /\ stage' = IF more' > 0 THEN "more" ELSE "idle"
          /\ UNCHANGED <<pos, response>>
       \/ HandlingError
    /\ UNCHANGED <<request, allowUnicast, handled, answered, leased>>

Next ==
    \/ Receive \/ ReceiveUnparsable \/ ReceiveNoRequest
    \/ ServerIdPre \/ RequireBulkOverTCPPre \/ RefuseBulkOverUDPPre \/ IgnorePre
    \/ RateLimitPre \/ ServerUnicastPre \/ LeasequeryPre
    \/ RejectUnwantedUnicastPre \/ NotOverridden
    \/ InitResponse
    \/ StaticHandle \/ LeasequeryHandle \/ UnansweredIAHandle
    \/ UnansweredIAPDHandle \/ AddMissingStatusHandle
    \/ RapidCommitPost \/ UnansweredLeasequeryPost
    \/ AnalysePost \/ SendFirst \/ SendMore

Spec == Init /\ [][Next]_vars

-----------------------------------------------------------------------------
(* Properties                                                              *)

(* Type correctness of the worker's state; options are marked as handled   *)
(* only if they are options of the request at hand.                        *)
TypeOK ==
    /\ stage \in {"idle", "pre", "init", "handle", "post", "analyse", "send",
                  "more"}
    /\ pos \in 1..Len(Chain) /\ request \in Requests
    /\ allowUnicast \in BOOLEAN /\ answered \in BOOLEAN /\ more \in 0..2
    /\ handled \subseteq SetOf(request.ias)
    /\ response.type \in {"none", "Advertise", "Reply", "LeasequeryReply"}
    /\ \A i \in DOMAIN response.answers :
         response.answers[i].kind \in Kinds
    /\ counters \in [Counters -> Nat]

(* The counters explain every message: it was answered, or ignored for one *)
(* counted reason, or its handling broke; and every error told to a client *)
(* is a message sent.                                                      *)
MessagesAccounted ==
    LET c == counters
        unexplained == c["message_in"] - c["message_out"]
                         - c["for_other_server"] - c["do_not_respond"]
    IN  stage = "idle" =>
          /\ c["unparsable_packet"] + c["message_in"] <= c["incoming_packet"]
          /\ 0 <= unexplained /\ unexplained <= c["handling_error"]
          /\ c["use_multicast"] + c["unknown_query_type"] + c["not_allowed"]
               + c["other_error"] <= c["message_out"]

(* Sending a normal response, not one that only tells of an error.         *)
Normal == stage = "send" /\ response.status \in {"none", "Success"}

AnswersTo(ia) ==
    Those(response.answers,
          {a \in SetOf(response.answers) : a.kind = ia.kind /\ a.iaid = ia.iaid})

(* Every IA option of a request is answered once, by the handler that took *)
(* it or by one of the clean-up handlers; a release or decline that a      *)
(* handler took needs no answer, and a confirm is confirmed only when all  *)
(* its IAs for addresses were taken ("Make sure that every ... is          *)
(* answered", unanswered_ia.py line 30).                                   *)
IAsAnswered ==
    Normal => \A ia \in SetOf(request.ias) :
        LET n == Len(AnswersTo(ia))
        IN  \/ request.type \in {"Solicit", "Request", "Renew", "Rebind"} /\ n = 1
            \/ /\ request.type \in {"Release", "Decline"}
               /\ n = IF ia \in handled THEN 0 ELSE 1
            \/ /\ request.type = "Confirm" /\ n = 0
               /\ ia.kind = "pd" \/ ia \in handled

(* A solicit is answered with a reply, which commits the leases, only if   *)
(* the client asked for it and, unless rejections may be committed too,    *)
(* every IA got what it asked for (rapid_commit.py line 21).               *)
RapidCommitGrantsAll ==
    Normal /\ request.type = "Solicit" /\ response.type = "Reply" =>
        /\ AllowRapidCommit /\ request.rapid /\ response.rapid
        /\ RapidCommitRejections \/
             \A ia \in SetOf(request.ias) :
                \E a \in SetOf(AnswersTo(ia)) : a.live # {}

(* What a client was given in one reply is confirmed whenever it renews or *)
(* rebinds: the configuration has not changed.                             *)
LeasesKept ==
    Normal /\ request.type \in {"Renew", "Rebind"} =>
        \A l \in leased \cap GivenUp : l \in Leases(FALSE) \ Leases(TRUE)

(* No data follow an answer that tells of an error, although the setter of *)
(* bundle.response leaves the rest of the list in place.                   *)
ErrorsStandAlone ==
    stage \in {"send", "more"} /\ response.status # "none" => more = 0
=============================================================================
