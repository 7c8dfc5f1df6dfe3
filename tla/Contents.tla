------------------------------ MODULE Contents -------------------------------
(***************************************************************************)
(* What may be in what: the tables that add_may_contain() fills, and       *)
(* validate_contains(), which checks a list of elements against them.      *)
(*                                                                         *)
(* Sources: dhcpkit/protocol_element.py, the ends of                       *)
(* dhcpkit/ipv6/options.py and of the modules in dhcpkit/ipv6/extensions/. *)
(***************************************************************************)
EXTENDS Integers, FiniteSets, Sequences

Infinite == 2147483647 \* 2^31 - 1

Between(min, max, classes) == [c \in classes |-> [min |-> min, max |-> max]]
AnyNumber(classes) == Between(0, Infinite, classes)
AtMostOne(classes) == Between(0, 1, classes)
One(classes) == Between(1, 1, classes)
AtLeastOne(classes) == Between(1, Infinite, classes)

(* Tables are sets of rows, each about some classes: what they may hold.   *)
(* Several rows about a class hold together.                               *)
For(classes, entries) == [c \in classes |-> entries]
Together(tables) ==
    [k \in UNION {DOMAIN t : t \in tables} |->
       LET table == CHOOSE t \in tables : k \in DOMAIN t IN table[k]]

-----------------------------------------------------------------------------
(* options.py                                                              *)

UserClasses ==
    {"UserClassOption", "VendorClassOption", "VendorSpecificInformationOption"}
AddressIAs == {"IANAOption", "IATAOption"}
FromClient ==
    Together({One({"ClientIdOption", "ElapsedTimeOption"}),
              AtMostOne({"OptionRequestOption"}), AnyNumber(UserClasses)})
ToServer == One({"ServerIdOption"})
Reconfigurable == AtMostOne({"ReconfigureAcceptOption"})

CoreTable == {
    For({"Message"}, Together({AnyNumber({"UnknownOption"}),
                               AtMostOne({"AuthenticationOption"})})),
    For({"Option"}, AnyNumber({"UnknownOption"})),
    For({"SolicitMessage"},
        Together({FromClient, AnyNumber(AddressIAs), Reconfigurable,
                  AtMostOne({"RapidCommitOption"})})),
    For({"RequestMessage", "RenewMessage"},
        Together({FromClient, ToServer, AnyNumber(AddressIAs), Reconfigurable})),
    For({"RebindMessage"}, Together({FromClient, AnyNumber(AddressIAs), Reconfigurable})),
    For({"ConfirmMessage"}, Together({FromClient, AnyNumber(AddressIAs)})),
    For({"ReleaseMessage", "DeclineMessage"},
        Together({FromClient, ToServer, AnyNumber(AddressIAs)})),
    For({"InformationRequestMessage"},
        Together({FromClient, Reconfigurable, AtMostOne({"ServerUnicastOption"})})),
    For({"AdvertiseMessage"},
        Together({One({"ClientIdOption", "ServerIdOption"}),
                  AnyNumber(AddressIAs \cup UserClasses),
                  AtMostOne({"PreferenceOption", "StatusCodeOption"}), Reconfigurable})),
    For({"ReplyMessage"},
        Together({One({"ServerIdOption"}), AnyNumber(AddressIAs \cup UserClasses),
                  AtMostOne({"ClientIdOption", "PreferenceOption", "ServerUnicastOption",
                             "StatusCodeOption", "RapidCommitOption"}), Reconfigurable})),
    For({"ReconfigureMessage"},
        Together({One({"ClientIdOption", "ServerIdOption", "ReconfigureMessageOption"}),
                  AtMostOne({"OptionRequestOption"})})),
    For({"RelayForwardMessage"}, AtMostOne({"RelayMessageOption", "InterfaceIdOption"})),
    For({"RelayReplyMessage"},
        Together({One({"RelayMessageOption"}), AtMostOne({"InterfaceIdOption"})})),
    For(AddressIAs, AnyNumber({"IAAddressOption", "StatusCodeOption"})),
    For({"IAAddressOption"}, AnyNumber({"StatusCodeOption"})),
    For({"RelayMessageOption"}, AnyNumber({"Message"}))}

-----------------------------------------------------------------------------
(* extensions/                                                             *)

(* Most extensions allow their option in these messages.                   *)
Configuring ==
    {"SolicitMessage", "AdvertiseMessage", "RequestMessage", "RenewMessage",
     "RebindMessage", "ReplyMessage"}
Informing == Configuring \cup {"InformationRequestMessage"}
Assigning == Configuring \cup {"ConfirmMessage", "ReleaseMessage"}

PrefixDelegationTable == {
    For(Assigning, AnyNumber({"IAPDOption"})),
    For({"IAPDOption"}, Together({AnyNumber({"IAPrefixOption"}),
                                  AtMostOne({"StatusCodeOption"})})),
    For({"IAPrefixOption"}, AtMostOne({"StatusCodeOption"}))}

LeasequeryTable == {
    For({"LeasequeryMessage"},
        Together({AtLeastOne({"ClientIdOption"}), One({"LQQueryOption"}),
                  AnyNumber({"ServerIdOption", "OptionRequestOption",
                             "StatusCodeOption"})})),
    For({"LeasequeryReplyMessage"},
        Together({One({"ClientIdOption", "ServerIdOption"}),
                  AtMostOne({"ClientDataOption"}),
                  AnyNumber({"LQRelayDataOption", "LQClientLink", "StatusCodeOption"})})),
    For({"LQQueryOption"},
        AnyNumber({"IAAddressOption", "ClientIdOption", "OptionRequestOption"})),
    For({"ClientDataOption"}, AnyNumber({"Option"})),
    For({"LQRelayDataOption"}, One({"RelayForwardMessage"}))}

MapTable == {
    For(Assigning, AnyNumber({"S46ContainerOption"})),
    For({"S46RuleOption", "S46V4V6BindingOption"}, AnyNumber({"S46PortParametersOption"})),
    For({"S46MapEContainerOption"},
        Together({AtLeastOne({"S46RuleOption", "S46BROption"}),
                  AnyNumber({"S46PortParametersOption"})})),
    For({"S46MapTContainerOption"},
        Together({AtLeastOne({"S46RuleOption"}), One({"S46DMROption"}),
                  AnyNumber({"S46PortParametersOption"})})),
    For({"S46LWContainerOption"},
        Together({AtMostOne({"S46V4V6BindingOption"}), AtLeastOne({"S46BROption"}),
                  AnyNumber({"S46PortParametersOption"})}))}

NTPTable == {
    For(Informing, AnyNumber({"NTPServersOption"})),
    For({"NTPServersOption"}, AtLeastOne({"NTPSubOption"}))}

DNSTable ==
    {For(Informing, AnyNumber({"RecursiveNameServersOption", "DomainSearchListOption"}))}
SIPTable ==
    {For(Informing,
         AnyNumber({"SIPServersDomainNameListOption", "SIPServersAddressListOption"}))}
SNTPTable == {For(Informing, AnyNumber({"SNTPServersOption"}))}
DSLiteTable == {For(Informing, AtMostOne({"AFTRNameOption"}))}
TimezoneTable ==
    {For(Informing, AtMostOne({"PosixTimezoneOption", "TZDBTimezoneOption"}))}
ClientFQDNTable == {For(Configuring, AtMostOne({"ClientFQDNOption"}))}
SolMaxRTTable ==
    {For({"AdvertiseMessage", "ReplyMessage"}, AtMostOne({"SolMaxRTOption", "InfMaxRTOption"}))}
PDExcludeTable == {For({"IAPDOption"}, AtMostOne({"PDExcludeOption"}))}
RemoteIdTable ==
    {For({"RelayForwardMessage", "RelayReplyMessage"}, AnyNumber({"RemoteIdOption"}))}
SubscriberIdTable ==
    {For({"RelayForwardMessage", "RelayReplyMessage"}, AnyNumber({"SubscriberIdOption"}))}
LinkLayerIdTable == {For({"RelayServerMessage"}, AtMostOne({"LinkLayerIdOption"}))}

Tables ==
    CoreTable \cup PrefixDelegationTable \cup LeasequeryTable \cup MapTable \cup NTPTable
    \cup DNSTable \cup SIPTable \cup SNTPTable \cup DSLiteTable \cup TimezoneTable
    \cup ClientFQDNTable \cup SolMaxRTTable \cup PDExcludeTable \cup RemoteIdTable
    \cup SubscriberIdTable \cup LinkLayerIdTable

-----------------------------------------------------------------------------
(* protocol_element.py: a class has the entries of its base classes too.   *)

RelayMessages == {"RelayForwardMessage", "RelayReplyMessage"}
ClientServerMessages ==
    Assigning \cup {"InformationRequestMessage", "DeclineMessage", "ReconfigureMessage",
                   "LeasequeryMessage", "LeasequeryReplyMessage",
                   "LeasequeryDataMessage", "LeasequeryDoneMessage"}
S46Containers ==
    {"S46MapEContainerOption", "S46MapTContainerOption", "S46LWContainerOption"}

BaseClasses(class) ==
    CASE class \in RelayMessages -> {"RelayServerMessage", "Message"}
      [] class \in ClientServerMessages -> {"ClientServerMessage", "Message"}
      [] class = "UnknownMessage" -> {"Message"}
      [] class \in S46Containers -> {"S46ContainerOption", "Option"}
      [] class \in {"NTPServerAddressSubOption", "NTPMulticastAddressSubOption",
                   "NTPServerFQDNSubOption", "UnknownNTPSubOption"} -> {"NTPSubOption"}
      [] OTHER -> {"Option"}

Lineage(class) == {class} \cup BaseClasses(class)

(* _may_contain of every class that is a message or in a table: its        *)
(* entries, and those of its base classes.                                 *)
Holders ==
    RelayMessages \cup ClientServerMessages \cup {"UnknownMessage"}
    \cup UNION {DOMAIN t \cup UNION {DOMAIN t[c] : c \in DOMAIN t} : t \in Tables}

Rows(class) == {t[class] : t \in {t \in Tables : class \in DOMAIN t}}
EntriesOf(class) == Together(UNION {Rows(c) : c \in Lineage(class)})

MayContain == [class \in Holders |-> EntriesOf(class)]

(* get_element_class(): the most specific of the classes that the table    *)
(* names; one that may occur no times is not allowed either.               *)
ElementClasses(class, element) ==
    LET table == MayContain[class]
        named == Lineage(element) \cap DOMAIN table
    IN  {k \in named : /\ \A other \in named : other \in Lineage(k)
                       /\ table[k].max >= 1}

MayHold(class, element) == ElementClasses(class, element) # {}

(* validate_contains(), for the classes of the elements.                   *)
ValidContents(class, elements) ==
    /\ \A i \in DOMAIN elements : MayHold(class, elements[i])
    /\ \A k \in DOMAIN MayContain[class] :
          LET count == Cardinality({i \in DOMAIN elements :
                                      k \in ElementClasses(class, elements[i])})
          IN  MayContain[class][k].min <= count /\ count <= MayContain[class][k].max
=============================================================================
