------------------------------- MODULE Answers -------------------------------
(***************************************************************************)
(* The messages that a worker sends: the options that handlers copy from   *)
(* the request or add to the response, and the chain of relay-replies that *)
(* takes the response back along the way that the request came.            *)
(*                                                                         *)
(* Which requests are refused, and what is done about IAs and leasequeries *)
(* is in module MessageHandling; here a handler may refuse what its phase  *)
(* allows it to refuse.                                                    *)
(*                                                                         *)
(* Sources: dhcpkit/ipv6/server/worker.py, message_handler.py,             *)
(* transaction_bundle.py, handlers/basic.py, handlers/basic_relay.py and   *)
(* the handlers derived from those, extensions/leasequery/__init__.py and  *)
(* extensions/bulk_leasequery.py, listeners/udp.py, ipv6/messages.py,      *)
(* ipv6/utils.py.  The handler that echoes relay options has nothing to    *)
(* do: no table lets a relay-forward hold the option that asks for it.     *)
(***************************************************************************)
EXTENDS Contents, Selections

CONSTANTS
    Requests,    \* [type, options]: a message, options are [class, value]
    RelayChains, \* what relays have put around it, the innermost first:
                 \* [hop, link, peer, options]
    Ways,        \* [via, interface, address, source]: how it comes in,
                 \* by "multicast", "unicast" or "tcp"
    Handlers,    \* sequences of configured handlers
    MaxLeases,   \* bound on the leases that a leasequery finds
    OurId,       \* value of the server's ServerIdOption
    NoValue      \* value of an option that does not matter here

(* Options, relays and handlers are lists.  No handler adds what only a     *)
(* leasequery puts into its answer, or copies what a relay has relayed.    *)
ASSUME AnswersAssumption ==
    /\ MaxLeases \in Nat
    /\ \A r \in Requests : r.options \in Seq(SetOf(r.options))
    /\ \A relays \in RelayChains :
          /\ relays \in Seq(SetOf(relays))
          /\ \A relay \in SetOf(relays) : relay.options \in Seq(SetOf(relay.options))
    /\ \A configured \in Handlers :
          /\ configured \in Seq(SetOf(configured))
          /\ \A h \in SetOf(configured) :
                \/ /\ h.kind \in {"Simple", "Overwrite"}
                   /\ h.option.class \notin {"ClientDataOption", "LQClientLink"}
                \/ h.kind = "CopyRelay" /\ h.class # "RelayMessageOption"
                \/ h.kind = "Leasequery"

VARIABLES
    stage,    \* the phase, or "idle"
    next,     \* the handler that is next
    handlers, \* those that are configured; does not change
    packet,   \* the datagram, or NoPacket
    request,  \* bundle.request
    incoming, \* bundle.incoming_relay_messages
    outgoing, \* bundle.outgoing_relay_messages
    response, \* bundle.response
    following, \* the responses that come after it
    queried,  \* the leasequery has been marked as handled
    refused,  \* history: a handler refused the request before handle()
    sent      \* what the last send_reply() sent, and where to

bundle == <<request, incoming, outgoing, response, following, queried, refused>>
answersVars == <<stage, next, handlers, packet, bundle, sent>>

Option(class, value) == [class |-> class, value |-> value]
Classes(options) == [i \in DOMAIN options |-> options[i].class]

(* get_options_of_type(), and what it leaves.                              *)
OfType(options, class) ==
    Those(options, {o \in SetOf(options) : class \in Lineage(o.class)})
NotOfType(options, class) ==
    Those(options, {o \in SetOf(options) : class \notin Lineage(o.class)})

Message(type, options) == [type |-> type, options |-> options]
NoMessage == Message("none", <<>>)
NothingSent == [relays |-> <<>>, message |-> NoMessage, address |-> NoValue,
                port |-> NoValue, interface |-> NoValue]

NoPacket == [way |-> NoValue, relays |-> <<>>, request |-> NoMessage]
Packets == [way : Ways, relays : RelayChains, request : Requests]

-----------------------------------------------------------------------------
(* parse_incoming_request()                                                *)

FromClients ==
    {"SolicitMessage", "RequestMessage", "ConfirmMessage", "RenewMessage",
     "RebindMessage", "ReleaseMessage", "DeclineMessage",
     "InformationRequestMessage", "LeasequeryMessage"}

(* validate(), of every message in the datagram.                           *)
Valid(p) ==
    /\ ValidContents(p.request.type, Classes(p.request.options))
    /\ \A i \in DOMAIN p.relays :
          ValidContents("RelayForwardMessage",
                        <<"RelayMessageOption">> \o Classes(p.relays[i].options))

(* A relay-forward of the server's own goes around the datagram.           *)
OwnRelay(p) ==
    [hop |-> IF p.relays = <<>> THEN 0 ELSE p.relays[Len(p.relays)].hop + 1,
     link |-> p.way.address, peer |-> p.way.source,
     options |-> <<Option("InterfaceIdOption", p.way.interface)>>]

(* TransactionBundle(), split_relay_chain()                                *)
Chained(p) == Append(p.relays, OwnRelay(p))
Accepted(p) == Valid(p) /\ ~(p.way.via = "tcp" /\ Len(Chained(p)) > 1)

ReceiveRequest ==
    /\ stage = "idle"
    /\ packet' \in Packets
    /\ Accepted(packet') /\ packet'.request.type \in FromClients
    /\ request' = packet'.request /\ incoming' = Chained(packet')
    /\ outgoing' = <<>> /\ response' = NoMessage /\ following' = <<>>
    /\ queried' = FALSE /\ refused' = FALSE
    /\ stage' = "pre" /\ next' = 1
    /\ UNCHANGED <<handlers, sent>>

(* Nothing is sent when the datagram does not parse, or holds a message    *)
(* that servers send.                                                      *)
ReceiveOther ==
    /\ stage = "idle"
    /\ packet' \in Packets
    /\ ~(Accepted(packet') /\ packet'.request.type \in FromClients)
    /\ stage' = "send"
    /\ UNCHANGED <<next, handlers, bundle, sent>>

-----------------------------------------------------------------------------
(* handle(): the phases                                                    *)

Chain ==
    <<[kind |-> "RapidCommit"],
      [kind |-> "Overwrite", option |-> Option("ServerIdOption", OurId), always |-> TRUE],
      [kind |-> "Copy", class |-> "ClientIdOption", always |-> TRUE],
      [kind |-> "CopyRelay", class |-> "InterfaceIdOption"]>>
    \o handlers \o <<[kind |-> "AddMissingStatus"]>>

(* construct_plain_status_reply(), construct_leasequery_status_reply()     *)
StatusReply(type) ==
    Message(type, <<OfType(request.options, "ClientIdOption")[1],
                    Option("ServerIdOption", OurId),
                    Option("StatusCodeOption", NoValue)>>)

StopWith(message) ==
    /\ response' = message /\ stage' = "send"
    /\ UNCHANGED <<next, handlers, packet, request, incoming, outgoing, following, sent>>

(* Only leasequeries may come over a connection.                           *)
Pre ==
    /\ stage = "pre" /\ stage' = "init"
    /\ packet.way.via = "tcp" => request.type = "LeasequeryMessage"
    /\ UNCHANGED <<next, handlers, packet, bundle, sent>>

(* CannotRespondError, ForOtherServerError                                 *)
Ignore ==
    /\ stage = "pre"
    /\ StopWith(NoMessage) /\ UNCHANGED <<queried, refused>>

(* UseMulticastError                                                       *)
RefuseUnicast ==
    /\ stage = "pre" /\ packet.way.via # "multicast" /\ Len(incoming) < 2
    /\ StopWith(StatusReply("ReplyMessage")) /\ refused' = TRUE /\ UNCHANGED queried

RefuseLeasequery ==
    /\ stage = "pre" /\ request.type = "LeasequeryMessage"
    /\ StopWith(StatusReply("LeasequeryReplyMessage")) /\ refused' = TRUE
    /\ UNCHANGED queried

(* wrap_response() and create_outgoing_relay_messages()                    *)
RelayReply(relay) == [hop |-> relay.hop, link |-> relay.link, peer |-> relay.peer,
                      options |-> <<Option("RelayMessageOption", NoValue)>>]
OuterFirst(relays) == \* faulty variant: appended, not inserted
    [i \in DOMAIN relays |-> RelayReply(relays[Len(relays) + 1 - i])]
RelayReplies(relays) == [i \in DOMAIN relays |-> RelayReply(relays[i])]

ResponseType ==
    CASE request.type = "SolicitMessage" -> "AdvertiseMessage"
      [] request.type = "LeasequeryMessage" -> "LeasequeryReplyMessage"
      [] OTHER -> "ReplyMessage"

HoldsAddress == \E o \in SetOf(request.options) :
                   o.class \in AddressIAs \cup {"IAPDOption"} /\ o.value # {}

InitResponse ==
    /\ stage = "init"
    /\ \/ /\ request.type = "ConfirmMessage" => HoldsAddress
          /\ response' = Message(ResponseType, <<>>)
          /\ outgoing' = RelayReplies(incoming)
          /\ stage' = "handle" /\ next' = 1
          /\ UNCHANGED <<handlers, packet, request, incoming, following, queried,
                         refused, sent>>
       \/ /\ request.type = "ConfirmMessage" /\ ~HoldsAddress
          /\ StopWith(NoMessage) /\ UNCHANGED <<queried, refused>>

-----------------------------------------------------------------------------
(* The handle() of each kind of handler                                    *)

At(kind) == stage = "handle" /\ Chain[next].kind = kind
Handler == Chain[next]

Proceed ==
    /\ IF next = Len(Chain) THEN stage' = "post" /\ next' = 1
                            ELSE next' = next + 1 /\ UNCHANGED stage
    /\ UNCHANGED <<handlers, packet, request, incoming, refused, sent>>
Onward == Proceed /\ UNCHANGED <<following, queried>>

SetOptions(options) ==
    response' = [response EXCEPT !.options = options]

(* An option-request option, if there is one, has to name the option.      *)
Requested(class, always) ==
    LET oros == OfType(request.options, "OptionRequestOption")
    IN  ~always /\ oros # <<>> => class \in oros[1].value

Welcome(class, always) == MayHold(response.type, class) /\ Requested(class, always)

AddedFirst(options, new) == <<new>> \o options \* faulty variant: keeps the old
Overwritten(options, new) == <<new>> \o NotOfType(options, new.class)

OverwriteOption ==
    /\ At("Overwrite") /\ Onward /\ UNCHANGED outgoing
    /\ IF Welcome(Handler.option.class, Handler.always)
       THEN SetOptions(Overwritten(response.options, Handler.option))
       ELSE UNCHANGED response

CopyOption ==
    LET class == Handler.class
    IN  /\ At("Copy") /\ Onward /\ UNCHANGED outgoing
        /\ IF Welcome(class, Handler.always)
           THEN SetOptions(OfType(request.options, class)
                           \o NotOfType(response.options, class))
           ELSE UNCHANGED response

(* SimpleOptionHandler: what is there already is combined with what is     *)
(* configured, or stays, when combine() is not overridden.                 *)
Combined(found, new) ==
    Option(new.class, UNION {found[i].value : i \in DOMAIN found} \cup new.value)

AddOption ==
    LET new == Handler.option
        found == OfType(response.options, new.class)
        others == NotOfType(response.options, new.class)
    IN  /\ At("Simple") /\ UNCHANGED outgoing
        /\ \/ /\ ~Welcome(new.class, Handler.always) \/ (found # <<>> /\ Handler.combine = "none")
              /\ Onward /\ UNCHANGED response
           \/ /\ Welcome(new.class, Handler.always) /\ found = <<>>
              /\ Onward /\ SetOptions(Append(response.options, new))
           \/ /\ Welcome(new.class, Handler.always) /\ found # <<>> /\ Handler.combine = "all"
              /\ Onward /\ SetOptions(Append(others, Combined(found, new)))

Abandon ==
    /\ stage' = "idle" /\ next' = 1 /\ packet' = NoPacket /\ request' = NoMessage
    /\ incoming' = <<>> /\ outgoing' = <<>> /\ response' = NoMessage
    /\ following' = <<>> /\ queried' = FALSE /\ refused' = FALSE
    /\ sent' = NothingSent /\ UNCHANGED handlers

(* Two classes combine with an attribute that their options do not have;   *)
(* the exception leaves handle(), and nothing is sent.                     *)
FailToAddOption ==
    /\ At("Simple") /\ Handler.combine = "AttributeError"
    /\ Welcome(Handler.option.class, Handler.always)
    /\ OfType(response.options, Handler.option.class) # <<>>
    /\ Abandon

(* CopyRelayOptionHandler and RelayHandler                                 *)
CopyRelayOption ==
    LET class == Handler.class
    IN  /\ At("CopyRelay") /\ Onward /\ UNCHANGED response
        /\ outgoing' = IF ~MayHold("RelayReplyMessage", class) THEN outgoing
                       ELSE [i \in DOMAIN outgoing |->
                               [outgoing[i] EXCEPT !.options =
                                  OfType(incoming[i].options, class) \o NotOfType(@, class)]]

(* LeasequeryHandler: a store that cannot search for this leaves the query *)
(* alone.  One lease goes into the reply, several give their links, or, on *)
(* a connection, a message each and one that says that those were all.     *)
Bulk(leases) == [i \in 1..leases |-> Message(
    IF i < leases THEN "LeasequeryDataMessage" ELSE "LeasequeryDoneMessage",
    <<Option(IF i < leases THEN "ClientDataOption" ELSE "StatusCodeOption", NoValue)>>)]

AnswerLeasequery ==
    LET Put(class) == SetOptions(Append(response.options, Option(class, NoValue)))
        overTCP == packet.way.via = "tcp"
        asked == request.type = "LeasequeryMessage" /\ ~queried
    IN  /\ At("Leasequery")
        /\ \/ Onward /\ UNCHANGED <<response, outgoing>>
           \/ /\ asked /\ Proceed /\ queried' = TRUE /\ UNCHANGED outgoing
              /\ \E leases \in 0..MaxLeases :
                    /\ following' = IF overTCP /\ leases > 0 THEN Bulk(leases) ELSE <<>>
                    /\ CASE leases = 0 -> UNCHANGED response
                         [] leases = 1 \/ (leases > 1 /\ overTCP) -> Put("ClientDataOption")
                         [] OTHER -> Put("LQClientLink")
           \/ asked /\ Abandon \* find_leases() raises
           \/ /\ asked /\ queried' = TRUE \* an error while the leases are read
              /\ StopWith(StatusReply("LeasequeryReplyMessage")) /\ UNCHANGED refused

AddMissingStatus ==
    /\ At("AddMissingStatus") /\ Onward /\ UNCHANGED outgoing
    /\ IF /\ request.type \in {"ConfirmMessage", "ReleaseMessage", "DeclineMessage"}
          /\ OfType(response.options, "StatusCodeOption") = <<>>
       THEN SetOptions(Append(response.options, Option("StatusCodeOption", NoValue)))
       ELSE UNCHANGED response

NothingToHandle == At("RapidCommit") /\ Onward /\ UNCHANGED <<response, outgoing>>

(* post(): the rapid commit, unless it is off or something was refused.    *)
Post ==
    /\ stage = "post" /\ stage' = "send"
    /\ \/ UNCHANGED response
       \/ /\ request.type = "SolicitMessage" /\ response.type = "AdvertiseMessage"
          /\ OfType(request.options, "RapidCommitOption") # <<>>
          /\ response' = Message("ReplyMessage",
                           <<Option("RapidCommitOption", NoValue)>> \o response.options)
    /\ UNCHANGED <<next, handlers, packet, request, incoming, outgoing, following,
                   queried, refused, sent>>

-----------------------------------------------------------------------------
(* outgoing_messages and UDPReplier.send_reply()                           *)

ServerPort == 547
ClientPort == 546

Send ==
    LET relays == IF outgoing = <<>> THEN RelayReplies(incoming) ELSE outgoing
        outer == relays[Len(relays)]
        interfaces == OfType(outer.options, "InterfaceIdOption")
    IN  /\ stage = "send" /\ response # NoMessage
        /\ outgoing' = relays
        /\ sent' = [relays |-> relays, message |-> response, address |-> outer.peer,
                    port |-> IF Len(relays) > 1 THEN ServerPort ELSE ClientPort,
                    interface |-> IF interfaces = <<>> THEN NoValue
                                  ELSE interfaces[1].value]
        /\ stage' = "sent"
        /\ UNCHANGED <<next, handlers, packet, request, incoming, response, following,
                       queried, refused>>

(* MessagesList: the next response goes into the same relay-replies.       *)
SendFollowing ==
    /\ stage = "sent" /\ following # <<>>
    /\ sent' = [sent EXCEPT !.message = Head(following)]
    /\ following' = Tail(following)
    /\ UNCHANGED <<stage, next, handlers, packet, request, incoming, outgoing, response,
                   queried, refused>>

(* All has been sent, or the next lease cannot be read: an exception.      *)
Finish ==
    /\ \/ stage = "sent" /\ following = <<>>
       \/ stage = "sent" /\ following # <<>>
       \/ stage = "send" /\ response = NoMessage
    /\ Abandon

AnswersInit ==
    /\ stage = "idle" /\ next = 1 /\ handlers \in Handlers
    /\ packet = NoPacket /\ request = NoMessage
    /\ incoming = <<>> /\ outgoing = <<>> /\ response = NoMessage
    /\ following = <<>> /\ queried = FALSE /\ refused = FALSE /\ sent = NothingSent

AnswersNext ==
    \/ ReceiveRequest \/ ReceiveOther
    \/ Pre \/ Ignore \/ RefuseUnicast \/ RefuseLeasequery \/ InitResponse
    \/ OverwriteOption \/ CopyOption \/ AddOption \/ FailToAddOption
    \/ CopyRelayOption \/ AnswerLeasequery \/ AddMissingStatus \/ NothingToHandle
    \/ Post \/ Send \/ SendFollowing \/ Finish

AnswersSpec == AnswersInit /\ [][AnswersNext]_answersVars

-----------------------------------------------------------------------------
(* Properties                                                              *)

(* A leasequery may hold several client-ids, its answer only one, but the  *)
(* handler copies all of them.                                             *)
SeveralClientIds == Len(OfType(request.options, "ClientIdOption")) > 1

(* No table says what the messages of a bulk answer after the first hold. *)
InBulk == {"LeasequeryDataMessage", "LeasequeryDoneMessage"}

(* What the server sends holds what its own tables say a message of that   *)
(* type must and may hold, whatever handlers are configured, in whatever   *)
(* order, and wherever an error made it stop: nobody validates a response. *)
ResponsesValid ==
    stage = "sent" =>
        /\ \/ ValidContents(sent.message.type, Classes(sent.message.options))
           \/ SeveralClientIds \/ sent.message.type \in InBulk
        /\ \A i \in DOMAIN sent.relays :
              ValidContents("RelayReplyMessage", Classes(sent.relays[i].options))

(* A response goes back through the relays that the request came through,  *)
(* in their order, and every relay finds in it the interface-id that it    *)
(* had put in; it leaves by the interface the request came in on, for the  *)
(* port of a relay or of a client.  A request that is refused before       *)
(* handle() is answered without interface-ids.                             *)
RelayRepliesMirror ==
    stage = "sent" =>
        /\ Len(sent.relays) = Len(packet.relays) + 1
        /\ \A i \in DOMAIN packet.relays :
              /\ sent.relays[i].hop = packet.relays[i].hop
              /\ sent.relays[i].link = packet.relays[i].link
              /\ sent.relays[i].peer = packet.relays[i].peer
              /\ refused \/ OfType(sent.relays[i].options, "InterfaceIdOption")
                              = OfType(packet.relays[i].options, "InterfaceIdOption")
        /\ sent.address = packet.way.source
        /\ sent.port = ServerPort <=> packet.relays # <<>>
        /\ refused \/ sent.interface = packet.way.interface
=============================================================================
