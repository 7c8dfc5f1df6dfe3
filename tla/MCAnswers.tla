----------------------------- MODULE MCAnswers ------------------------------
(* Requests of each kind of treatment, and some that are not valid; chains *)
(* of up to two relays, with and without the options that are copied.      *)
EXTENDS Answers

CONSTANTS client, other, us, eth0, eth1, server, host

O(class) == Option(class, NoValue)
Basic == <<Option("ClientIdOption", client), O("ElapsedTimeOption")>>
ToUs == Append(Basic, Option("ServerIdOption", us))
IA(addresses) == Option("IANAOption", addresses)
ORO(classes) == Option("OptionRequestOption", classes)
Query == O("LQQueryOption")

AllRequests == {
    Message("SolicitMessage", Basic \o <<O("RapidCommitOption"), IA({}), O("VendorClassOption")>>),
    Message("SolicitMessage", Basic \o <<ORO({"RecursiveNameServersOption"})>>),
    Message("SolicitMessage", <<Option("ClientIdOption", client)>>),
    Message("RequestMessage", ToUs \o <<IA({}), ORO({"SolMaxRTOption", "AFTRNameOption"})>>),
    Message("ConfirmMessage", Basic \o <<IA({host})>>),
    Message("ConfirmMessage", Basic \o <<IA({})>>),
    Message("ReleaseMessage", ToUs \o <<IA({host})>>),
    Message("InformationRequestMessage", Basic),
    Message("LeasequeryMessage", <<Option("ClientIdOption", client), Query>>),
    Message("LeasequeryMessage",
            <<Option("ClientIdOption", client), Option("ClientIdOption", other), Query>>),
    Message("ReplyMessage", ToUs)}

Relay(hop, link, options) == [hop |-> hop, link |-> link, peer |-> <<"peer", link>>,
                              options |-> options]
AllRelayChains == {
    <<>>,
    <<Relay(0, 1, <<>>)>>,
    <<Relay(0, 1, <<Option("InterfaceIdOption", 1), Option("RemoteIdOption", 1)>>)>>,
    <<Relay(0, 1, <<Option("InterfaceIdOption", 1), O("LinkLayerIdOption")>>),
      Relay(1, 2, <<Option("RemoteIdOption", 1), Option("InterfaceIdOption", 2),
                    Option("RemoteIdOption", 2)>>)>>,
    <<Relay(0, 1, <<O("EchoRequestOption")>>)>>}

Way(via, interface) ==
    [via |-> via, interface |-> interface, address |-> server, source |-> host]
AllWays == {Way("multicast", eth0), Way("unicast", eth1), Way("tcp", eth0)}

Simple(class, value, always, combine) ==
    [kind |-> "Simple", option |-> Option(class, value), always |-> always,
     combine |-> combine]
Overwrite(class, value) ==
    [kind |-> "Overwrite", option |-> Option(class, value), always |-> FALSE]
CopyRelay(class) == [kind |-> "CopyRelay", class |-> class]

(* One handler of each kind of behaviour, in any order, and each twice.    *)
SomeHandlers == {
    Simple("RecursiveNameServersOption", {1}, FALSE, "all"),
    Simple("RecursiveNameServersOption", {2}, FALSE, "all"),
    Simple("AFTRNameOption", {1}, FALSE, "none"),
    Simple("DomainSearchListOption", {1}, FALSE, "AttributeError"),
    Simple("ServerUnicastOption", {1}, TRUE, "none"),
    Overwrite("SolMaxRTOption", 1), Overwrite("SolMaxRTOption", 2),
    CopyRelay("RemoteIdOption"), CopyRelay("LinkLayerIdOption"),
    [kind |-> "Leasequery"]}
AllHandlers == [1..2 -> SomeHandlers]
=============================================================================
