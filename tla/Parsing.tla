------------------------------- MODULE Parsing -------------------------------
(***************************************************************************)
(* Parsing a datagram: Message.parse() and everything it calls, with the   *)
(* position in the buffer and the elements that are still being read.      *)
(* Options are parsed without a limit of their own: what keeps an element  *)
(* from using octets of its neighbours is only checked after the fact.     *)
(* Which octets the datagram holds is chosen on the way; an exception of   *)
(* any kind refuses the datagram as a whole.                               *)
(*                                                                         *)
(* Sources: dhcpkit/protocol_element.py, dhcpkit/utils.py, the load_from() *)
(* and parse() methods of the classes in module Formats, and               *)
(* parse_incoming_request() in dhcpkit/ipv6/server/worker.py.              *)
(***************************************************************************)
EXTENDS Formats, Sequences

CONSTANTS
    Datagrams,    \* [message: what the first octet says, size]
    Lengths,      \* lengths that headers of options say
    PrefixOctets, \* octets that prefixes of variable size take
    MaxDepth      \* elements in each other before the interpreter gives up

ASSUME ParsingAssumption ==
    /\ Datagrams \subseteq [message : DOMAIN MessageFormat, size : Nat]
    /\ Lengths \subseteq 0..Unlimited
    /\ PrefixOctets \subseteq 0..16 /\ MaxDepth \in Nat

VARIABLES
    status,   \* "received", "parsing", "parsed", "accepted" or "refused"
    datagram, \* the buffer
    pos,      \* offset + my_offset
    elements, \* those being read, the innermost last
    altered,  \* the last class of an element that did not use the length in
              \* its header, or that save() writes with another length
    exceeded  \* history: an element ended past its own length

vars == <<status, datagram, pos, elements, altered, exceeded>>

Init ==
    /\ status = "received" /\ datagram \in Datagrams
    /\ pos = 0 /\ elements = <<>> /\ altered = "none" /\ exceeded = FALSE

Innermost == elements[Len(elements)]
size == datagram.size
Left == size - pos

RefuseInside == \* faulty variant: goes on with the element around it
    /\ status' = "refused" /\ elements' = SubSeq(elements, 1, Len(elements) - 1)
    /\ UNCHANGED <<datagram, pos, altered, exceeded>>
Refuse ==
    /\ status' = "refused" /\ elements' = <<>>
    /\ UNCHANGED <<datagram, pos, altered, exceeded>>

(* An element that has elements in it: what it holds, where it ends, and   *)
(* whether load_from() checks afterwards that it ended there.              *)
Element(holds, end, checked) ==
    [holds |-> holds, end |-> end, checked |-> checked]

-----------------------------------------------------------------------------
(* Messages                                                                *)

(* A message is the datagram itself or what a relay-message holds.  Its    *)
(* length is only compared with what was parsed by the option around it.   *)
(* What load_from() of a message reads, whatever its length: the octets of *)
(* the transaction-id may be missing, those of a relay's addresses not.    *)
EnterMessage(message, start, length, checked) ==
    /\ status' = "parsing"
    /\ \/ /\ message = "UnknownMessage"
          /\ pos' = start + length
          /\ elements' = Append(elements, Element(Nothing, start + length, checked))
       \/ /\ message # "UnknownMessage"
          /\ pos' = start + MessageFormat[message].fixed
          /\ elements' = Append(elements, Element(Options, start + length, checked))
    /\ UNCHANGED <<datagram, altered, exceeded>>

ParseMessage ==
    /\ status = "received"
    /\ \/ /\ size >= MessageFormat[datagram.message].least
          /\ EnterMessage(datagram.message, 0, size, FALSE)
       \/ size < MessageFormat[datagram.message].least /\ Refuse

-----------------------------------------------------------------------------
(* Options                                                                 *)

(* parse_option_header(), or the code that stands in for it.               *)
Headers(formats) ==
    {h \in [class : DOMAIN formats, length : Lengths] :
        /\ formats[h.class].least <= h.length
        /\ h.length <= formats[h.class].most}

OptionHeaders == Headers(OptionFormat)
SuboptionHeaders == Headers(SuboptionFormat)

FitsBuffer(length) == 4 + length <= Left

(* What one way to read an element uses and what save() makes of it.       *)
Use(used, saved) == [used |-> used, saved |-> saved]

(* Fixed fields are read from the buffer, whatever the length says; only   *)
(* the buffer's end stops it.                                              *)
UseOctets(fixed, length, left) ==
    IF length >= fixed THEN {Use(length, length)}
    ELSE IF left >= fixed THEN {Use(length, fixed)} ELSE {}

UseDUID(length, left) ==
    UNION {UseOctets(2 + DUIDFormat[d].fixed, length, left) : d \in DOMAIN DUIDFormat}

(* parse_domain_bytes(): one label of one octet and the empty label.       *)
UseDomain(length) == IF length >= 3 THEN {Use(length, length)} ELSE {}

(* Without the empty label a name is relative, which is not passed on to   *)
(* encode_domain(): it adds one.                                           *)
UseRelativeDomain(length) ==
    LET absolute == {Use(length, length)}
        relative == {Use(length, length + 1)}
    IN  CASE length >= 4 -> absolute \cup relative
          [] length = 3 -> relative
          [] length < 3 -> {}

(* parse_domain_list_bytes(): no length means all that is in the buffer.   *)
UseDomains(length, left) ==
    LET available == IF length = 0 THEN left ELSE length
    IN  IF available = 0 \/ available >= 3 THEN {Use(available, available)} ELSE {}

UseValues(unit, length) == IF length % unit = 0 THEN {Use(length, length)} ELSE {}

UseCounted(fixed, header, length) ==
    IF length = fixed \/ length >= fixed + header THEN {Use(length, length)} ELSE {}

Uses(format, length, left) ==
    CASE format.rest = Nothing -> {Use(length, length)}
      [] format.rest = Octets -> UseOctets(format.fixed, length, left)
      [] format.rest = AnyDUID -> UseDUID(length, left)
      [] format.rest = Domain -> UseDomain(length)
      [] format.rest = RelativeDomain -> UseRelativeDomain(length)
      [] format.rest = Domains -> UseDomains(length, left)
      [] format.rest \in {Items(2), Items(16)} -> UseValues(format.rest[2], length)
      [] format.rest \in {Counted(2), Counted(4)} ->
           UseCounted(format.fixed, format.rest[2], length)

Holding == {Options, PrefixOptions, Suboptions}

(* More is to follow: while max_offset > my_offset.                        *)
Wants(kind) ==
    /\ status = "parsing" /\ Innermost.holds = kind /\ pos < Innermost.end

Take(header, format) ==
    \E use \in Uses(format, header.length, Left - 4) :
        /\ pos' = pos + 4 + use.used
        /\ altered' = IF use = Use(header.length, header.length) THEN altered
                      ELSE header.class
        /\ UNCHANGED <<status, datagram, elements, exceeded>>

ParseSimpleOption ==
    /\ Wants(Options)
    /\ \E h \in OptionHeaders :
          /\ FitsBuffer(h.length)
          /\ OptionFormat[h.class].rest \notin Holding \cup {RelayedMessage}
          /\ Take(h, OptionFormat[h.class])

(* An option that holds options or suboptions.                             *)
EnterOption ==
    /\ Wants(Options) /\ Len(elements) < MaxDepth
    /\ \E h \in OptionHeaders :
          LET f == OptionFormat[h.class]
              holds == IF f.rest = Suboptions THEN Suboptions ELSE Options
          IN  /\ FitsBuffer(h.length) /\ f.rest \in Holding
              /\ \E prefix \in IF f.rest = PrefixOptions THEN PrefixOctets ELSE {0} :
                    pos' = pos + 4 + f.fixed + prefix
              /\ elements' = Append(elements, Element(holds, pos + 4 + h.length, TRUE))
    /\ UNCHANGED <<status, datagram, altered, exceeded>>

(* A relay-message option, or relay data in an answer to a leasequery.     *)
EnterRelayMessage ==
    /\ Wants(Options) /\ Len(elements) < MaxDepth
    /\ \E h \in OptionHeaders, m \in DOMAIN MessageFormat :
          LET f == OptionFormat[h.class]
              start == pos + 4 + f.fixed
          IN  /\ FitsBuffer(h.length) /\ f.rest = RelayedMessage
              /\ size - start >= MessageFormat[m].least
              /\ EnterMessage(m, start, h.length - f.fixed, TRUE)

(* NTP suboptions: only unknown ones are compared with the buffer, but     *)
(* names and addresses are not there if the buffer has ended.              *)
ParseSuboption ==
    /\ Wants(Suboptions)
    /\ \E h \in SuboptionHeaders :
          /\ FitsBuffer(h.length)
          /\ Take(h, SuboptionFormat[h.class])

(* The loop ends, and with it load_from().                                 *)
EndsBefore == pos < Innermost.end \* faulty variant: too long is fine
EndsElsewhere == pos # Innermost.end
LeaveElement ==
    /\ status = "parsing" /\ pos >= Innermost.end
    /\ \/ Innermost.checked /\ EndsElsewhere /\ Refuse
       \/ /\ ~(Innermost.checked /\ EndsElsewhere)
          /\ elements' = SubSeq(elements, 1, Len(elements) - 1)
          /\ status' = IF Len(elements) = 1 THEN "parsed" ELSE "parsing"
          /\ exceeded' = (exceeded \/ pos # Innermost.end)
          /\ UNCHANGED <<datagram, pos, altered>>

(* There is no room for a header, the header is refused, values are, or    *)
(* elements are nested too deep.                                           *)
RefuseElement ==
    /\ status = "parsing" /\ pos < Innermost.end
    /\ Refuse

-----------------------------------------------------------------------------
(* parse_incoming_request() validates what was parsed.  The transaction-id *)
(* may lack octets, as a slice of a buffer that has ended.                 *)
TransactionIdMissing == pos > size

Validate ==
    /\ status = "parsed"
    /\ \/ Refuse
       \/ /\ ~TransactionIdMissing
          /\ status' = "accepted"
          /\ UNCHANGED <<datagram, pos, elements, altered, exceeded>>

(* The worker turns to another datagram.                                   *)
Receive ==
    /\ status \in {"accepted", "refused"}
    /\ status' = "received" /\ datagram' \in Datagrams
    /\ pos' = 0 /\ elements' = <<>> /\ altered' = "none" /\ exceeded' = FALSE

Next ==
    \/ ParseMessage \/ ParseSimpleOption \/ EnterOption \/ EnterRelayMessage
    \/ ParseSuboption \/ LeaveElement \/ RefuseElement \/ Validate \/ Receive

Spec == Init /\ [][Next]_vars

-----------------------------------------------------------------------------
(* Properties                                                              *)

(* Everything has its type, and the innermost element began inside those   *)
(* around it.                                                              *)
TypeOK ==
    /\ status \in {"received", "parsing", "parsed", "accepted", "refused"}
    /\ datagram \in Datagrams /\ pos \in Nat
    /\ elements \in Seq([holds : {Options, Suboptions, Nothing}, end : Nat,
                         checked : BOOLEAN])
    /\ altered \in DOMAIN OptionFormat \cup DOMAIN SuboptionFormat \cup {"none"}
    /\ exceeded \in BOOLEAN
    /\ status = "parsing" <=> elements # <<>>

(* A datagram that is handed to the handlers has been used to its last     *)
(* octet, and no element of it, however deep in relayed messages, used     *)
(* octets of its neighbours: options are parsed without a limit, so this   *)
(* rests on the comparisons after the loops, all the way up.               *)
AcceptedWhole == status = "accepted" => pos = size /\ ~exceeded

(* What save() makes of an element that was parsed is as long as what was  *)
(* received, and load_from() used what the header said.  It does not hold  *)
(* for DUIDs and remote-ids that are too short, domain lists without       *)
(* length and relative domain names: only for those.                       *)
ElementsAreTheirBytes ==
    altered \in {"none", "ClientIdOption", "ServerIdOption", "RelayIdOption",
                "RemoteIdOption", "DomainSearchListOption",
                "SIPServersDomainNameListOption", "ClientFQDNOption"}
=============================================================================
