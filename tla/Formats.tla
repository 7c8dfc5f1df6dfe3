------------------------------- MODULE Formats -------------------------------
(***************************************************************************)
(* The classes of messages, options, suboptions and DUIDs, one definition  *)
(* for each: what its load_from(), validate() and save() do with lengths.  *)
(* All numbers are octets.                                                 *)
(*                                                                         *)
(* Sources: dhcpkit/ipv6/messages.py, options.py, duids.py and the classes *)
(* in dhcpkit/ipv6/extensions/.                                            *)
(***************************************************************************)
EXTENDS Integers

Unlimited == 2^16 - 1

(* least, most: what load_from() demands of the length in the header.      *)
(* fixed: fields that are always read, and always saved.                   *)
(* rest: what follows them, until the length has been used up.             *)
(* Values that load_from() or validate() refuses are left to the caller.   *)
Format(least, most, fixed, rest) ==
    [least |-> least, most |-> most, fixed |-> fixed, rest |-> rest]

(* The kinds of rest                                                       *)
Kind(name) == <<name, 0>>
Nothing == Kind("nothing")
Octets == Kind("octets")              \* all that is left, perhaps nothing
Items(size) == <<"items", size>>      \* values of this size
Counted(size) == <<"counted", size>>  \* values after a header of this size
AnyDUID == Kind("duid")
Domain == Kind("domain")
RelativeDomain == Kind("relative domain") \* or not relative
Domains == Kind("domains")
Options == Kind("options")            \* options, until the length is reached
PrefixOptions == Kind("prefix, options") \* a prefix of any size first
Suboptions == Kind("suboptions")
RelayedMessage == Kind("message")

Exactly(size) == Format(size, size, size, Nothing)

-----------------------------------------------------------------------------
(* options.py                                                              *)

UnknownOption == Format(0, Unlimited, 0, Octets)
ClientIdOption == Format(2, Unlimited, 0, AnyDUID)
ServerIdOption == Format(2, Unlimited, 0, AnyDUID)
IANAOption == Format(12, Unlimited, 12, Options)
IATAOption == Format(4, Unlimited, 4, Options)
IAAddressOption == Format(24, Unlimited, 24, Options)
OptionRequestOption == Format(0, Unlimited, 0, Items(2))
PreferenceOption == Exactly(1)
ElapsedTimeOption == Exactly(2)
RelayMessageOption == Format(1, Unlimited, 0, RelayedMessage)
AuthenticationOption == Format(11, Unlimited, 11, Octets)
ServerUnicastOption == Exactly(16)
StatusCodeOption == Format(2, Unlimited, 2, Octets)
RapidCommitOption == Exactly(0)
UserClassOption == Format(0, Unlimited, 0, Counted(2))
VendorClassOption == Format(4, Unlimited, 4, Counted(2))
VendorSpecificInformationOption == Format(4, Unlimited, 4, Counted(4))
InterfaceIdOption == Format(0, Unlimited, 0, Octets)
ReconfigureMessageOption == Exactly(1)
ReconfigureAcceptOption == Exactly(0)

(* extensions/                                                             *)

IAPDOption == Format(12, Unlimited, 12, Options)
IAPrefixOption == Format(25, Unlimited, 25, Options)
LQQueryOption == Format(17, Unlimited, 17, Options)
ClientDataOption == Format(0, Unlimited, 0, Options)
CLTTimeOption == Exactly(4)
LQRelayDataOption == Format(20, Unlimited, 16, RelayedMessage)
LQClientLink == Format(0, Unlimited, 0, Items(16))
RelayIdOption == Format(2, Unlimited, 0, AnyDUID)
S46RuleOption == Format(8, Unlimited, 8, PrefixOptions)
S46BROption == Exactly(16)
S46DMROption == Format(1, 17, 1, Octets)
S46V4V6BindingOption == Format(5, Unlimited, 5, PrefixOptions)
S46PortParametersOption == Exactly(4)
S46ContainerOption == Format(5, Unlimited, 0, Options)
S46MapEContainerOption == S46ContainerOption
S46MapTContainerOption == S46ContainerOption
S46LWContainerOption == S46ContainerOption
NTPServersOption == Format(0, Unlimited, 0, Suboptions)
SIPServersDomainNameListOption == Format(0, Unlimited, 0, Domains)
SIPServersAddressListOption == Format(0, Unlimited, 0, Items(16))
ClientFQDNOption == Format(0, Unlimited, 1, RelativeDomain)
RecursiveNameServersOption == Format(0, Unlimited, 0, Items(16))
DomainSearchListOption == Format(0, Unlimited, 0, Domains)
PosixTimezoneOption == Format(0, Unlimited, 0, Octets)
TZDBTimezoneOption == Format(0, Unlimited, 0, Octets)
SolMaxRTOption == Exactly(4)
InfMaxRTOption == Exactly(4)
SNTPServersOption == Format(0, Unlimited, 0, Items(16))
RemoteIdOption == Format(0, Unlimited, 4, Octets)
AFTRNameOption == Format(4, Unlimited, 0, Domain)
LinkLayerIdAnyLength == Format(0, Unlimited, 2, Octets) \* faulty variant: no min_length
LinkLayerIdOption == Format(2, Unlimited, 2, Octets)
SubscriberIdOption == Format(0, Unlimited, 0, Octets)
EchoRequestOption == Format(0, Unlimited, 0, Items(2))
PDExcludeOption == Format(2, 17, 1, Octets)

(* extensions/ntp.py                                                       *)

UnknownNTPSubOption == Format(0, Unlimited, 0, Octets)
NTPServerAddressSubOption == Exactly(16)
NTPMulticastAddressSubOption == Exactly(16)
NTPServerFQDNSubOption == Format(0, Unlimited, 0, Domain)

(* duids.py: the fields after the type; validate() sets the limits.        *)

UnknownDUID == Format(0, Unlimited, 0, Octets)
LinkLayerTimeDUID == Format(0, 126, 6, Octets)
EnterpriseDUID == Format(0, 126, 4, Octets)
LinkLayerDUID == Format(0, 126, 2, Octets)

(* messages.py: the header; a message has no length of its own.            *)

UnknownMessage == Format(1, Unlimited, 1, Octets)
ClientServerMessage == Format(1, Unlimited, 4, Options)
RelayServerMessage == Format(34, Unlimited, 34, Options)

-----------------------------------------------------------------------------
(* The registries: which class has which name.                             *)

OptionFormat == [
    UnknownOption |-> UnknownOption,
    ClientIdOption |-> ClientIdOption, ServerIdOption |-> ServerIdOption,
    IANAOption |-> IANAOption, IATAOption |-> IATAOption,
    IAAddressOption |-> IAAddressOption,
    OptionRequestOption |-> OptionRequestOption,
    PreferenceOption |-> PreferenceOption,
    ElapsedTimeOption |-> ElapsedTimeOption,
    RelayMessageOption |-> RelayMessageOption,
    AuthenticationOption |-> AuthenticationOption,
    ServerUnicastOption |-> ServerUnicastOption,
    StatusCodeOption |-> StatusCodeOption,
    RapidCommitOption |-> RapidCommitOption,
    UserClassOption |-> UserClassOption,
    VendorClassOption |-> VendorClassOption,
    VendorSpecificInformationOption |-> VendorSpecificInformationOption,
    InterfaceIdOption |-> InterfaceIdOption,
    ReconfigureMessageOption |-> ReconfigureMessageOption,
    ReconfigureAcceptOption |-> ReconfigureAcceptOption,
    IAPDOption |-> IAPDOption, IAPrefixOption |-> IAPrefixOption,
    LQQueryOption |-> LQQueryOption, ClientDataOption |-> ClientDataOption,
    CLTTimeOption |-> CLTTimeOption, LQRelayDataOption |-> LQRelayDataOption,
    LQClientLink |-> LQClientLink, RelayIdOption |-> RelayIdOption,
    S46RuleOption |-> S46RuleOption, S46BROption |-> S46BROption,
    S46DMROption |-> S46DMROption,
    S46V4V6BindingOption |-> S46V4V6BindingOption,
    S46PortParametersOption |-> S46PortParametersOption,
    S46MapEContainerOption |-> S46MapEContainerOption,
    S46MapTContainerOption |-> S46MapTContainerOption,
    S46LWContainerOption |-> S46LWContainerOption,
    NTPServersOption |-> NTPServersOption,
    SIPServersDomainNameListOption |-> SIPServersDomainNameListOption,
    SIPServersAddressListOption |-> SIPServersAddressListOption,
    ClientFQDNOption |-> ClientFQDNOption,
    RecursiveNameServersOption |-> RecursiveNameServersOption,
    DomainSearchListOption |-> DomainSearchListOption,
    PosixTimezoneOption |-> PosixTimezoneOption,
    TZDBTimezoneOption |-> TZDBTimezoneOption,
    SolMaxRTOption |-> SolMaxRTOption, InfMaxRTOption |-> InfMaxRTOption,
    SNTPServersOption |-> SNTPServersOption, RemoteIdOption |-> RemoteIdOption,
    AFTRNameOption |-> AFTRNameOption, LinkLayerIdOption |-> LinkLayerIdOption,
    SubscriberIdOption |-> SubscriberIdOption,
    EchoRequestOption |-> EchoRequestOption,
    PDExcludeOption |-> PDExcludeOption]

SuboptionFormat == [
    UnknownNTPSubOption |-> UnknownNTPSubOption,
    NTPServerAddressSubOption |-> NTPServerAddressSubOption,
    NTPMulticastAddressSubOption |-> NTPMulticastAddressSubOption,
    NTPServerFQDNSubOption |-> NTPServerFQDNSubOption]

DUIDFormat == [
    UnknownDUID |-> UnknownDUID, LinkLayerTimeDUID |-> LinkLayerTimeDUID,
    EnterpriseDUID |-> EnterpriseDUID, LinkLayerDUID |-> LinkLayerDUID]

MessageFormat == [
    UnknownMessage |-> UnknownMessage,
    ClientServerMessage |-> ClientServerMessage,
    RelayServerMessage |-> RelayServerMessage]
=============================================================================
