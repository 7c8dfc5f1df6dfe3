--------------------------- MODULE Parsing_proofs ---------------------------
(***************************************************************************)
(* Parsing for every datagram, every length that a header can say and any  *)
(* depth of elements in each other; then the way back, module Answers, for *)
(* every request, chain of relays and list of handlers.                    *)
(***************************************************************************)
EXTENDS Parsing, Answers, FiniteSetTheorems, SequenceTheorems, WellFoundedInduction,
        TLAPS

(* The kinds of rest that an option without elements in it has, and those  *)
(* with which an element always is as long as its header says.             *)
SimpleKinds ==
    {Nothing, Octets, AnyDUID, Domain, RelativeDomain, Domains,
     Items(2), Items(16), Counted(2), Counted(4)}
DependableKinds == SimpleKinds \ {AnyDUID, Domains, RelativeDomain}

WellFormed(format) ==
    /\ format.least \in Nat /\ format.fixed \in Nat
    /\ format.rest \in SimpleKinds \cup Holding \cup {RelayedMessage}
    /\ format.rest = RelayedMessage => format.fixed <= format.least

(* The fields are never longer than the least length.                      *)
Dependable(format) ==
    /\ WellFormed(format)
    /\ format.rest \in DependableKinds \cup Holding \cup {RelayedMessage}
    /\ format.rest = Octets => format.fixed <= format.least

(* The classes that ElementsAreTheirBytes names, and their formats.        *)
ExceptedClasses ==
    {"ClientIdOption", "ServerIdOption", "RelayIdOption", "RemoteIdOption",
     "DomainSearchListOption", "SIPServersDomainNameListOption",
     "ClientFQDNOption"}
ExceptedFormats ==
    {ClientIdOption, ServerIdOption, RelayIdOption, RemoteIdOption,
     DomainSearchListOption, SIPServersDomainNameListOption, ClientFQDNOption}

(* All others, by what they hold.                                          *)
OctetFormats ==
    {UnknownOption, AuthenticationOption, StatusCodeOption, InterfaceIdOption,
     S46DMROption, PosixTimezoneOption, TZDBTimezoneOption, LinkLayerIdOption,
     SubscriberIdOption, PDExcludeOption}
HoldingFormats ==
    {IANAOption, IATAOption, IAAddressOption, IAPDOption, IAPrefixOption,
     LQQueryOption, ClientDataOption, S46RuleOption, S46V4V6BindingOption,
     S46MapEContainerOption, S46MapTContainerOption, S46LWContainerOption,
     NTPServersOption}
DividedFormats ==
    {OptionRequestOption, UserClassOption, VendorClassOption,
     VendorSpecificInformationOption, LQClientLink,
     SIPServersAddressListOption, RecursiveNameServersOption,
     SNTPServersOption, AFTRNameOption, EchoRequestOption}
FixedFormats ==
    {PreferenceOption, ElapsedTimeOption, ServerUnicastOption,
     RapidCommitOption, ReconfigureMessageOption, ReconfigureAcceptOption,
     CLTTimeOption, S46BROption, S46PortParametersOption, SolMaxRTOption,
     InfMaxRTOption}
RelayingFormats == {RelayMessageOption, LQRelayDataOption}

RegularFormats ==
    OctetFormats \cup HoldingFormats \cup DividedFormats \cup FixedFormats
        \cup RelayingFormats

-----------------------------------------------------------------------------
(* Formats                                                                 *)

LEMMA KindsDiffer ==
    /\ Octets \notin {Nothing, Domain, AnyDUID, Domains, RelativeDomain,
                      Options, PrefixOptions, Suboptions, RelayedMessage}
    /\ RelayedMessage \notin {Nothing, Domain, AnyDUID, Domains, RelativeDomain,
                              Options, PrefixOptions, Suboptions}
    /\ Nothing \notin {AnyDUID, Domains, RelativeDomain}
    /\ Domain \notin {AnyDUID, Domains, RelativeDomain}
    /\ \A n : /\ Items(n) \notin {Nothing, Octets, AnyDUID, Domain, Domains,
                                  RelativeDomain, RelayedMessage}
              /\ Counted(n) \notin {Nothing, Octets, AnyDUID, Domain, Domains,
                                    RelativeDomain, RelayedMessage}
              /\ \A m : Items(n) # Counted(m)
BY DEF Kind, Nothing, Octets, Items, Counted, AnyDUID, Domain, RelativeDomain,
       Domains, Options, PrefixOptions, Suboptions, RelayedMessage

(* A format is dependable whose kind needs no condition.                   *)
LEMMA UnconditionalKinds ==
    ASSUME NEW least \in Nat, NEW most, NEW fixed \in Nat,
           NEW rest \in (DependableKinds \cup Holding) \ {Octets}
    PROVE  Dependable(Format(least, most, fixed, rest))
<1>1. rest # RelayedMessage
  BY KindsDiffer DEF DependableKinds, SimpleKinds, Holding
<1> QED
  BY <1>1 DEF Dependable, WellFormed, DependableKinds, Format

LEMMA KindsAreUnconditional ==
    {Nothing, Domain, Options, PrefixOptions, Suboptions, Items(2), Items(16),
     Counted(2), Counted(4)} \subseteq (DependableKinds \cup Holding) \ {Octets}
<1>1. {Nothing, Domain, Items(2), Items(16), Counted(2), Counted(4)}
        \subseteq DependableKinds \ {Octets}
  BY KindsDiffer DEF DependableKinds, SimpleKinds
<1>2. {Options, PrefixOptions, Suboptions} \subseteq Holding \ {Octets}
  BY KindsDiffer DEF Holding
<1> QED
  BY <1>1, <1>2

LEMMA OctetsAreDependable ==
    ASSUME NEW format \in OctetFormats
    PROVE  Dependable(format)
<1>1. Octets \in DependableKinds
  BY KindsDiffer DEF DependableKinds, SimpleKinds
<1>2. /\ format.rest = Octets /\ format.fixed \in Nat
      /\ format.least \in Nat /\ format.fixed <= format.least
  BY DEF OctetFormats, Format, UnknownOption, AuthenticationOption,
         StatusCodeOption, InterfaceIdOption, S46DMROption, PosixTimezoneOption,
         TZDBTimezoneOption, LinkLayerIdOption, SubscriberIdOption,
         PDExcludeOption
<1> QED
  BY <1>1, <1>2 DEF Dependable, WellFormed, DependableKinds

LEMMA RelayingIsDependable ==
    ASSUME NEW format \in RelayingFormats
    PROVE  Dependable(format)
<1>1. /\ format.rest = RelayedMessage /\ format.fixed \in Nat
      /\ format.least \in Nat /\ format.fixed <= format.least
  BY DEF RelayingFormats, Format, RelayMessageOption, LQRelayDataOption
<1> QED
  BY <1>1 DEF Dependable, WellFormed

LEMMA RegularIsDependable ==
    ASSUME NEW format \in RegularFormats
    PROVE  Dependable(format)
<1>1. CASE format \in HoldingFormats
  BY <1>1, UnconditionalKinds, KindsAreUnconditional
  DEF HoldingFormats, IANAOption, IATAOption, IAAddressOption, IAPDOption,
      IAPrefixOption, LQQueryOption, ClientDataOption, S46RuleOption,
      S46V4V6BindingOption, S46ContainerOption, S46MapEContainerOption,
      S46MapTContainerOption, S46LWContainerOption, NTPServersOption
<1>2. CASE format \in DividedFormats
  BY <1>2, UnconditionalKinds, KindsAreUnconditional
  DEF DividedFormats, OptionRequestOption, UserClassOption, VendorClassOption,
      VendorSpecificInformationOption, LQClientLink,
      SIPServersAddressListOption, RecursiveNameServersOption,
      SNTPServersOption, AFTRNameOption, EchoRequestOption
<1>3. CASE format \in FixedFormats
  BY <1>3, UnconditionalKinds, KindsAreUnconditional
  DEF FixedFormats, Exactly, PreferenceOption, ElapsedTimeOption,
      ServerUnicastOption, RapidCommitOption, ReconfigureMessageOption,
      ReconfigureAcceptOption, CLTTimeOption, S46BROption,
      S46PortParametersOption, SolMaxRTOption, InfMaxRTOption
<1> QED
  BY <1>1, <1>2, <1>3, OctetsAreDependable, RelayingIsDependable
  DEF RegularFormats

(* The table of options, read as a whole.                                  *)
LEMMA OptionClasses ==
    ASSUME NEW class \in DOMAIN OptionFormat
    PROVE  /\ WellFormed(OptionFormat[class])
           /\ class \notin ExceptedClasses => Dependable(OptionFormat[class])
<1>1. class \notin ExceptedClasses => OptionFormat[class] \in RegularFormats
  BY DEF OptionFormat, ExceptedClasses, RegularFormats, OctetFormats,
         HoldingFormats, DividedFormats, FixedFormats, RelayingFormats
<1>2. class \in ExceptedClasses => OptionFormat[class] \in ExceptedFormats
  BY DEF OptionFormat, ExceptedClasses, ExceptedFormats
<1>3. ASSUME NEW format \in ExceptedFormats PROVE WellFormed(format)
  <2>1. /\ format.fixed \in Nat /\ format.least \in Nat
        /\ format.rest \in {AnyDUID, Octets, Domains, RelativeDomain}
    BY DEF ExceptedFormats, Format, ClientIdOption, ServerIdOption,
           RelayIdOption, RemoteIdOption, DomainSearchListOption,
           SIPServersDomainNameListOption, ClientFQDNOption
  <2> QED
    BY <2>1, KindsDiffer DEF WellFormed, SimpleKinds
<1> QED
  BY <1>1, <1>2, <1>3, RegularIsDependable DEF Dependable

(* Suboptions are few, and none has elements in it.                        *)
LEMMA SuboptionClasses ==
    ASSUME NEW class \in DOMAIN SuboptionFormat
    PROVE  /\ Dependable(SuboptionFormat[class])
           /\ SuboptionFormat[class].rest \in DependableKinds
<1>1. SuboptionFormat[class]
        \in {UnknownNTPSubOption, NTPServerAddressSubOption,
             NTPMulticastAddressSubOption, NTPServerFQDNSubOption}
  BY DEF SuboptionFormat
<1>2. {Octets, Nothing, Domain} \subseteq DependableKinds
  BY KindsDiffer DEF DependableKinds, SimpleKinds
<1>3. ASSUME NEW format \in {UnknownNTPSubOption, NTPServerAddressSubOption,
                             NTPMulticastAddressSubOption, NTPServerFQDNSubOption}
      PROVE  /\ format.rest \in {Octets, Nothing, Domain}
             /\ format.least \in Nat /\ format.fixed \in Nat
             /\ format.fixed <= format.least
  BY DEF Format, Exactly, UnknownNTPSubOption, NTPServerAddressSubOption,
         NTPMulticastAddressSubOption, NTPServerFQDNSubOption
<1>4. /\ SuboptionFormat[class].rest \in DependableKinds
      /\ SuboptionFormat[class].rest # RelayedMessage
  BY <1>1, <1>2, <1>3, KindsDiffer
<1> QED
  BY <1>1, <1>3, <1>4 DEF Dependable, WellFormed, DependableKinds

-----------------------------------------------------------------------------
(* What an element uses                                                    *)

(* However an option is read, it uses natural numbers of octets.           *)
LEMMA UsesAreNatural ==
    ASSUME NEW format, format.rest \in SimpleKinds,
           NEW length \in Nat, NEW left \in Nat,
           NEW use \in Uses(format, length, left)
    PROVE  use.used \in Nat
<1> DEFINE Good(U) == \A u \in U : u.used \in Nat
<1>1. \A fixed : Good(UseOctets(fixed, length, left))
  BY DEF UseOctets, Use
<1>2. Good(UseDUID(length, left))
  BY <1>1 DEF UseDUID
<1>3. Good(UseDomain(length))
  BY DEF UseDomain, Use
<1>4. Good(UseRelativeDomain(length))
  BY DEF UseRelativeDomain, Use
<1>5. Good(UseDomains(length, left))
  BY DEF UseDomains, Use
<1>6. \A unit : Good(UseValues(unit, length))
  BY DEF UseValues, Use
<1>7. \A fixed, header : Good(UseCounted(fixed, header, length))
  BY DEF UseCounted, Use
<1>8. Good({Use(length, length)})
  BY DEF Use
<1> HIDE DEF Good
<1>9. Good(Uses(format, length, left))
  BY <1>1, <1>2, <1>3, <1>4, <1>5, <1>6, <1>7, <1>8 DEF Uses, SimpleKinds
<1> QED
  BY <1>9 DEF Good

(* A dependable format uses what the header says, and saves as much.       *)
LEMMA DependableUses ==
    ASSUME NEW format, Dependable(format), format.rest \in DependableKinds,
           NEW length \in Nat, format.least <= length,
           NEW left, NEW use \in Uses(format, length, left)
    PROVE  use = Use(length, length)
<1> DEFINE Good(U) == \A u \in U : u = Use(length, length)
<1>1. format.rest = Octets => Good(UseOctets(format.fixed, length, left))
  BY DEF UseOctets, Dependable, WellFormed
<1>2. Good(UseDomain(length))
  BY DEF UseDomain
<1>3. \A unit : Good(UseValues(unit, length))
  BY DEF UseValues
<1>4. \A fixed, header : Good(UseCounted(fixed, header, length))
  BY DEF UseCounted
<1>5. Good({Use(length, length)})
  OBVIOUS
<1> HIDE DEF Good
<1>6. Good(Uses(format, length, left))
  BY <1>1, <1>2, <1>3, <1>4, <1>5, KindsDiffer
  DEF Uses, SimpleKinds, DependableKinds
<1> QED
  BY <1>6 DEF Good

-----------------------------------------------------------------------------
(* Elements                                                                *)

(* Dropping the innermost element leaves the others as they are.           *)
LEMMA DropInnermost ==
    ASSUME NEW S, NEW s \in Seq(S), s # <<>>
    PROVE  LET rest == SubSeq(s, 1, Len(s) - 1)
           IN  /\ rest \in Seq(S) /\ Len(rest) = Len(s) - 1
               /\ \A i \in 1..Len(rest) : rest[i] = s[i]
               /\ Len(s) = 1 => rest = <<>>
               /\ Len(s) # 1 => rest # <<>>
<1> DEFINE rest == SubSeq(s, 1, Len(s) - 1)
<1>1. Len(s) \in Nat \ {0} /\ \A i \in 1..Len(s) : s[i] \in S
  BY EmptySeq, ElementOfSeq
<1>2. /\ rest \in Seq(S)
      /\ Len(rest) = IF 1 <= Len(s) - 1 THEN Len(s) - 1 - 1 + 1 ELSE 0
      /\ \A i \in 1..(Len(s) - 1 - 1 + 1) : rest[i] = s[1 + i - 1]
  <2>1. 1 \in Int /\ Len(s) - 1 \in Int /\ \A i \in 1..(Len(s) - 1) : s[i] \in S
    BY <1>1
  <2> QED
    BY <2>1, SubSeqProperties
<1> HIDE DEF rest
<1>3. Len(rest) = Len(s) - 1 /\ \A i \in 1..Len(rest) : rest[i] = s[i]
  <2>1. Len(rest) = Len(s) - 1
    <3>1. Len(s) \in Nat \ {0}
      BY <1>1
    <3>2. Len(rest) = IF 1 <= Len(s) - 1 THEN Len(s) - 1 - 1 + 1 ELSE 0
      BY <1>2
    <3>3. \A n \in Nat \ {0} : (IF 1 <= n - 1 THEN n - 1 - 1 + 1 ELSE 0) = n - 1
      OBVIOUS
    <3> QED
      BY ONLY <3>1, <3>2, <3>3
  <2>2. ASSUME NEW i \in 1..Len(rest) PROVE rest[i] = s[i]
    <3>1. i \in Int /\ i \in 1..(Len(s) - 1 - 1 + 1)
      BY <1>1, <2>1
    <3>2. 1 + i - 1 = i
      BY ONLY <3>1
    <3> QED
      BY <1>2, <3>1, <3>2
  <2> QED
    BY <2>1, <2>2
<1>4. Len(s) = 1 => rest = <<>>
  BY <1>2, <1>3, EmptySeq
<1>5. Len(s) # 1 => rest # <<>>
  BY <1>1, <1>3
<1> QED
  BY <1>2, <1>3, <1>4, <1>5 DEF rest

(* Entering one leaves those around it as they are.                        *)
LEMMA AddInnermost ==
    ASSUME NEW S, NEW s \in Seq(S), NEW e \in S
    PROVE  /\ Append(s, e) \in Seq(S) /\ Append(s, e) # <<>>
           /\ Len(Append(s, e)) = Len(s) + 1 /\ Len(s) \in Nat
           /\ Append(s, e)[Len(s) + 1] = e
           /\ \A i \in 1..Len(s) : Append(s, e)[i] = s[i]
BY EmptySeq

-----------------------------------------------------------------------------
(* Types                                                                   *)

Elements == [holds : {Options, Suboptions, Nothing}, end : Nat,
             checked : BOOLEAN]

(* TypeOK without the classes in `altered', which needs the formats.       *)
TypeInv ==
    /\ status \in {"received", "parsing", "parsed", "accepted", "refused"}
    /\ datagram \in Datagrams /\ pos \in Nat
    /\ elements \in Seq(Elements) /\ exceeded \in BOOLEAN
    /\ altered \in DOMAIN OptionFormat \cup DOMAIN SuboptionFormat \cup {"none"}
    /\ status = "parsing" => elements # <<>>
    /\ status # "parsing" => elements = <<>>

LEMMA DatagramsHaveSizes ==
    ASSUME NEW d \in Datagrams
    PROVE  d.message \in DOMAIN MessageFormat /\ d.size \in Nat
BY ParsingAssumption

LEMMA MessagesAreWellFormed ==
    ASSUME NEW m \in DOMAIN MessageFormat
    PROVE  MessageFormat[m].fixed \in Nat
BY DEF MessageFormat, Format, UnknownMessage, ClientServerMessage,
       RelayServerMessage

(* What is known of a header of an option, wherever it is read.            *)
LEMMA OptionHeadersAreSound ==
    ASSUME NEW h \in OptionHeaders
    PROVE  /\ h.class \in DOMAIN OptionFormat /\ h.length \in Nat
           /\ OptionFormat[h.class].least <= h.length
           /\ WellFormed(OptionFormat[h.class])
<1>1. h.length \in Lengths /\ h.class \in DOMAIN OptionFormat
      /\ OptionFormat[h.class].least <= h.length
  BY DEF OptionHeaders, Headers
<1>2. Lengths \subseteq Nat
  BY ParsingAssumption
<1> QED
  BY <1>1, <1>2, OptionClasses

LEMMA SuboptionHeadersAreSound ==
    ASSUME NEW h \in SuboptionHeaders
    PROVE  /\ h.class \in DOMAIN SuboptionFormat /\ h.length \in Nat
           /\ SuboptionFormat[h.class].least <= h.length
           /\ Dependable(SuboptionFormat[h.class])
           /\ SuboptionFormat[h.class].rest \in DependableKinds
<1>1. h.length \in Lengths /\ h.class \in DOMAIN SuboptionFormat
      /\ SuboptionFormat[h.class].least <= h.length
  BY DEF SuboptionHeaders, Headers
<1>2. Lengths \subseteq Nat
  BY ParsingAssumption
<1> QED
  BY <1>1, <1>2, SuboptionClasses

LEMMA Room ==
    ASSUME TypeInv, NEW length \in Nat, FitsBuffer(length)
    PROVE  Left - 4 \in Nat
BY DatagramsHaveSizes DEF TypeInv, FitsBuffer, Left, size

(* A message begins at a natural offset and ends at one.                   *)
LEMMA EnterMessageType ==
    ASSUME TypeInv, NEW m \in DOMAIN MessageFormat, NEW start \in Nat,
           NEW length \in Nat, NEW checked \in BOOLEAN,
           EnterMessage(m, start, length, checked)
    PROVE  TypeInv'
<1>1. \A k \in {Options, Nothing} : Element(k, start + length, checked) \in Elements
  BY DEF Element, Elements
<1>2. elements' \in Seq(Elements) /\ elements' # <<>>
  BY <1>1, AddInnermost DEF TypeInv, EnterMessage
<1>3. pos' \in Nat
  BY MessagesAreWellFormed DEF EnterMessage
<1> QED
  BY <1>2, <1>3 DEF TypeInv, EnterMessage

LEMMA RefuseType ==
    ASSUME TypeInv, Refuse
    PROVE  TypeInv'
<1>1. elements' = <<>> /\ elements' \in Seq(Elements)
  BY EmptySeq DEF Refuse
<1> QED
  BY <1>1 DEF TypeInv, Refuse

LEMMA TakeType ==
    ASSUME TypeInv, NEW h, NEW format, Take(h, format), h.length \in Nat,
           FitsBuffer(h.length), format.rest \in SimpleKinds,
           h.class \in DOMAIN OptionFormat \cup DOMAIN SuboptionFormat
    PROVE  TypeInv'
<1>1. PICK use \in Uses(format, h.length, Left - 4) :
        /\ pos' = pos + 4 + use.used
        /\ altered' = IF use = Use(h.length, h.length) THEN altered ELSE h.class
  BY DEF Take
<1>2. use.used \in Nat
  BY <1>1, Room, UsesAreNatural
<1>3. pos' \in Nat
  BY <1>1, <1>2 DEF TypeInv
<1>4. altered' \in DOMAIN OptionFormat \cup DOMAIN SuboptionFormat \cup {"none"}
  BY <1>1 DEF TypeInv
<1> QED
  BY <1>3, <1>4 DEF TypeInv, Take

LEMMA InnermostType ==
    ASSUME TypeInv, status = "parsing"
    PROVE  /\ Innermost \in Elements /\ Len(elements) \in Nat \ {0}
           /\ Innermost.end \in Nat
<1>1. Len(elements) \in Nat \ {0} /\ elements[Len(elements)] \in Elements
  BY EmptySeq, ElementOfSeq DEF TypeInv
<1> QED
  BY <1>1 DEF Innermost, Elements

LEMMA TypeStep ==
    ASSUME TypeInv, [Next]_vars
    PROVE  TypeInv'
<1>1. CASE ParseMessage
  <2>1. /\ datagram.message \in DOMAIN MessageFormat /\ size \in Nat
        /\ 0 \in Nat /\ FALSE \in BOOLEAN
    BY DatagramsHaveSizes DEF TypeInv, size
  <2>2. CASE EnterMessage(datagram.message, 0, size, FALSE)
    BY <2>1, <2>2, EnterMessageType
  <2>3. CASE Refuse
    BY <2>3, RefuseType
  <2> QED
    BY <1>1, <2>2, <2>3 DEF ParseMessage
<1>2. CASE ParseSimpleOption
  <2>1. PICK h \in OptionHeaders :
           /\ FitsBuffer(h.length)
           /\ OptionFormat[h.class].rest \notin Holding \cup {RelayedMessage}
           /\ Take(h, OptionFormat[h.class])
    BY <1>2 DEF ParseSimpleOption
  <2>2. OptionFormat[h.class].rest \in SimpleKinds
    BY <2>1, OptionHeadersAreSound DEF WellFormed
  <2> QED
    BY <2>1, <2>2, OptionHeadersAreSound, TakeType
<1>3. CASE EnterOption
  <2>1. PICK h \in OptionHeaders :
           LET f == OptionFormat[h.class]
               holds == IF f.rest = Suboptions THEN Suboptions ELSE Options
           IN  /\ \E prefix \in IF f.rest = PrefixOptions THEN PrefixOctets ELSE {0} :
                     pos' = pos + 4 + f.fixed + prefix
               /\ elements' = Append(elements, Element(holds, pos + 4 + h.length, TRUE))
    BY <1>3 DEF EnterOption
  <2>2. h.length \in Nat /\ OptionFormat[h.class].fixed \in Nat /\ pos \in Nat
    BY OptionHeadersAreSound DEF WellFormed, TypeInv
  <2>3. PrefixOctets \subseteq Nat
    BY ParsingAssumption
  <2>4. pos' \in Nat
    BY <2>1, <2>2, <2>3
  <2>5. \A k \in {Options, Suboptions} :
           Element(k, pos + 4 + h.length, TRUE) \in Elements
    BY <2>2 DEF Element, Elements
  <2>6. PICK k \in {Options, Suboptions} :
           elements' = Append(elements, Element(k, pos + 4 + h.length, TRUE))
    BY <2>1
  <2>7. elements' \in Seq(Elements) /\ elements' # <<>>
    <3>1. elements \in Seq(Elements)
      BY DEF TypeInv
    <3> QED
      BY <2>5, <2>6, <3>1, AddInnermost
  <2> QED
    BY <1>3, <2>4, <2>7 DEF EnterOption, Wants, TypeInv
<1>4. CASE EnterRelayMessage
  <2>1. PICK h \in OptionHeaders, m \in DOMAIN MessageFormat :
           LET f == OptionFormat[h.class]
               start == pos + 4 + f.fixed
           IN  /\ f.rest = RelayedMessage
               /\ EnterMessage(m, start, h.length - f.fixed, TRUE)
    BY <1>4 DEF EnterRelayMessage
  <2> DEFINE f == OptionFormat[h.class]
  <2>2. /\ pos \in Nat /\ h.length \in Nat /\ f.fixed \in Nat /\ f.least \in Nat
        /\ f.fixed <= f.least /\ f.least <= h.length
    BY <2>1, OptionHeadersAreSound DEF WellFormed, TypeInv
  <2>3. EnterMessage(m, pos + 4 + f.fixed, h.length - f.fixed, TRUE)
    BY <2>1
  <2> HIDE DEF f
  <2>4. pos + 4 + f.fixed \in Nat /\ h.length - f.fixed \in Nat
    BY <2>2
  <2> QED
    BY <2>3, <2>4, EnterMessageType
<1>5. CASE ParseSuboption
  <2>1. PICK h \in SuboptionHeaders :
           FitsBuffer(h.length) /\ Take(h, SuboptionFormat[h.class])
    BY <1>5 DEF ParseSuboption
  <2>2. SuboptionFormat[h.class].rest \in SimpleKinds
    BY SuboptionHeadersAreSound DEF DependableKinds
  <2> QED
    BY <2>1, <2>2, SuboptionHeadersAreSound, TakeType
<1>6. CASE LeaveElement
  <2>1. CASE Refuse
    BY <2>1, RefuseType
  <2>2. CASE /\ elements' = SubSeq(elements, 1, Len(elements) - 1)
             /\ status' = IF Len(elements) = 1 THEN "parsed" ELSE "parsing"
             /\ exceeded' = (exceeded \/ pos # Innermost.end)
             /\ UNCHANGED <<datagram, pos, altered>>
    <3>1. elements \in Seq(Elements) /\ elements # <<>>
      BY <1>6 DEF LeaveElement, TypeInv
    <3>2. /\ elements' \in Seq(Elements)
          /\ Len(elements) = 1 => elements' = <<>>
          /\ Len(elements) # 1 => elements' # <<>>
      BY <2>2, <3>1, DropInnermost
    <3>3. exceeded' \in BOOLEAN
      BY <2>2
    <3> QED
      BY <2>2, <3>2, <3>3 DEF TypeInv
  <2> QED
    BY <1>6, <2>1, <2>2 DEF LeaveElement
<1>7. CASE RefuseElement
  BY <1>7, RefuseType DEF RefuseElement
<1>8. CASE Validate
  <2>1. CASE Refuse
    BY <2>1, RefuseType
  <2> QED
    BY <1>8, <2>1 DEF Validate, TypeInv
<1>9. CASE Receive
  <2>1. elements' = <<>> /\ elements' \in Seq(Elements)
    BY <1>9, EmptySeq DEF Receive
  <2> QED
    BY <1>9, <2>1 DEF Receive, TypeInv
<1>10. CASE UNCHANGED vars
  BY <1>10 DEF vars, TypeInv
<1> QED
  BY <1>1, <1>2, <1>3, <1>4, <1>5, <1>6, <1>7, <1>8, <1>9, <1>10 DEF Next

LEMMA InitType == Init => TypeInv
<1>1. <<>> \in Seq(Elements) /\ FALSE \in BOOLEAN
  BY EmptySeq
<1>2. Init => elements \in Seq(Elements) /\ exceeded \in BOOLEAN
  BY <1>1 DEF Init
<1>3. Init => /\ datagram \in Datagrams /\ pos \in Nat /\ elements = <<>>
              /\ status = "received" /\ altered = "none"
  BY DEF Init
<1> QED
  BY <1>2, <1>3 DEF TypeInv

LEMMA TypeInvariant == Spec => []TypeInv
BY InitType, TypeStep, PTL DEF Spec

(* Parsing keeps to its types, and has elements to go on with exactly      *)
(* while it goes on: no error leaves some behind for the next datagram.    *)
THEOREM TypeCorrect == Spec => []TypeOK
<1>1. TypeInv => TypeOK
  BY DEF TypeInv, TypeOK, Elements
<1> QED
  BY <1>1, TypeInvariant, PTL

-----------------------------------------------------------------------------
(* Accepted datagrams                                                      *)

(* The outermost element is the datagram; all others are compared with     *)
(* their length when they end.  An element that ends elsewhere is so the   *)
(* last one, and leaves the end of the datagram behind.                    *)
WholeInv ==
    /\ status \in {"received", "parsing"} => ~exceeded
    /\ status = "parsing" =>
         /\ elements[1].end = size
         /\ \A i \in 2..Len(elements) : elements[i].checked
    /\ status = "parsed" => pos >= size /\ (exceeded => pos # size)
    /\ AcceptedWhole

LEMMA RefuseWhole ==
    ASSUME Refuse
    PROVE  WholeInv'
BY DEF Refuse, WholeInv, AcceptedWhole

(* An element that will be compared is put into those that are read.       *)
LEMMA EnterWhole ==
    ASSUME TypeInv, WholeInv, status = "parsing", status' = "parsing",
           UNCHANGED <<datagram, exceeded>>,
           NEW e \in Elements, e.checked, elements' = Append(elements, e)
    PROVE  WholeInv'
<1>1. /\ elements \in Seq(Elements) /\ Len(elements) \in Nat \ {0}
  BY InnermostType DEF TypeInv
<1>2. /\ Len(elements') = Len(elements) + 1
      /\ elements'[Len(elements) + 1] = e
      /\ \A i \in 1..Len(elements) : elements'[i] = elements[i]
  BY <1>1, AddInnermost
<1>3. elements'[1] = elements[1]
  BY <1>1, <1>2
<1>4. ASSUME NEW i \in 2..Len(elements') PROVE elements'[i].checked
  <2>1. CASE i = Len(elements) + 1
    BY <1>2, <2>1
  <2>2. CASE i # Len(elements) + 1
    <3>1. i \in 2..Len(elements) /\ i \in 1..Len(elements)
      BY <1>1, <1>2, <2>2
    <3> QED
      BY <1>2, <3>1 DEF WholeInv
  <2> QED
    BY <2>1, <2>2
<1> QED
  BY <1>3, <1>4 DEF WholeInv, AcceptedWhole, size

LEMMA WholeStep ==
    ASSUME TypeInv, WholeInv, [Next]_vars
    PROVE  WholeInv'
<1>1. CASE ParseMessage
  <2>1. CASE EnterMessage(datagram.message, 0, size, FALSE)
    <3>1. size \in Nat /\ elements = <<>>
      BY <1>1, DatagramsHaveSizes DEF ParseMessage, TypeInv, size
    <3>2. PICK k \in {Options, Nothing} : elements' = Append(elements, Element(k, 0 + size, FALSE))
      BY <2>1 DEF EnterMessage
    <3> DEFINE e == Element(k, 0 + size, FALSE)
    <3>3. e \in Elements /\ e.end = size
      BY <3>1 DEF Element, Elements
    <3>4. elements' = Append(<<>>, e)
      BY <3>1, <3>2
    <3> HIDE DEF e
    <3>5. Len(elements') = 1 /\ elements'[1] = e
      BY <3>3, <3>4
    <3>6. \A i \in 2..Len(elements') : FALSE
      BY <3>5
    <3> QED
      BY <1>1, <2>1, <3>3, <3>5, <3>6
      DEF ParseMessage, EnterMessage, WholeInv, AcceptedWhole, size
  <2>2. CASE Refuse
    BY <2>2, RefuseWhole
  <2> QED
    BY <1>1, <2>1, <2>2 DEF ParseMessage
<1>2. CASE ParseSimpleOption
  BY <1>2 DEF ParseSimpleOption, Wants, Take, WholeInv, AcceptedWhole, size
<1>3. CASE EnterOption
  <2>1. PICK h \in OptionHeaders, k \in {Options, Suboptions} :
           elements' = Append(elements, Element(k, pos + 4 + h.length, TRUE))
    BY <1>3 DEF EnterOption
  <2>2. pos + 4 + h.length \in Nat
    BY OptionHeadersAreSound DEF TypeInv
  <2>3. /\ Element(k, pos + 4 + h.length, TRUE) \in Elements
        /\ Element(k, pos + 4 + h.length, TRUE).checked
    BY <2>2 DEF Element, Elements
  <2>4. /\ status = "parsing" /\ status' = "parsing"
        /\ UNCHANGED <<datagram, exceeded>>
    BY <1>3 DEF EnterOption, Wants
  <2> QED
    BY <2>1, <2>3, <2>4, EnterWhole
<1>4. CASE EnterRelayMessage
  <2>1. PICK h \in OptionHeaders, m \in DOMAIN MessageFormat :
           LET f == OptionFormat[h.class]
               start == pos + 4 + f.fixed
           IN  /\ f.rest = RelayedMessage
               /\ EnterMessage(m, start, h.length - f.fixed, TRUE)
    BY <1>4 DEF EnterRelayMessage
  <2> DEFINE f == OptionFormat[h.class]
             end == (pos + 4 + f.fixed) + (h.length - f.fixed)
  <2>2. end \in Nat
    BY <2>1, OptionHeadersAreSound DEF WellFormed, TypeInv
  <2>3. PICK k \in {Options, Nothing} : elements' = Append(elements, Element(k, end, TRUE))
    BY <2>1 DEF EnterMessage
  <2>4. /\ status = "parsing" /\ status' = "parsing"
        /\ UNCHANGED <<datagram, exceeded>>
    BY <1>4, <2>1 DEF EnterRelayMessage, EnterMessage, Wants
  <2> HIDE DEF end, f
  <2>5. Element(k, end, TRUE) \in Elements /\ Element(k, end, TRUE).checked
    BY <2>2 DEF Element, Elements
  <2> QED
    BY <2>3, <2>4, <2>5, EnterWhole
<1>5. CASE ParseSuboption
  BY <1>5 DEF ParseSuboption, Wants, Take, WholeInv, AcceptedWhole, size
<1>6. CASE LeaveElement
  <2>1. CASE Refuse
    BY <2>1, RefuseWhole
  <2>2. CASE /\ ~(Innermost.checked /\ EndsElsewhere)
             /\ elements' = SubSeq(elements, 1, Len(elements) - 1)
             /\ status' = IF Len(elements) = 1 THEN "parsed" ELSE "parsing"
             /\ exceeded' = (exceeded \/ pos # Innermost.end)
             /\ UNCHANGED <<datagram, pos, altered>>
    <3>1. /\ elements \in Seq(Elements) /\ elements # <<>> /\ status = "parsing"
          /\ Len(elements) \in Nat \ {0} /\ pos >= Innermost.end /\ ~exceeded
          /\ elements[1].end = size
          /\ \A i \in 2..Len(elements) : elements[i].checked
      BY <1>6, InnermostType DEF LeaveElement, TypeInv, WholeInv
    <3>2. CASE Len(elements) = 1 \* the datagram ends
      <4>1. Innermost.end = size
        BY <3>1, <3>2 DEF Innermost
      <4> QED
        BY <2>2, <3>1, <3>2, <4>1 DEF WholeInv, AcceptedWhole, size
    <3>3. CASE Len(elements) # 1 \* an element in it ends
      <4>1. Innermost.checked
        <5>1. Len(elements) \in 2..Len(elements)
          <6>1. \A n \in Nat \ {0} : n # 1 => n \in 2..n
            OBVIOUS
          <6> QED
            BY <3>1, <3>3, <6>1
        <5> QED
          BY <3>1, <5>1 DEF Innermost
      <4>2. ~exceeded'
        BY <2>2, <3>1, <4>1 DEF EndsElsewhere
      <4>3. /\ Len(elements') = Len(elements) - 1
            /\ \A i \in 1..Len(elements') : elements'[i] = elements[i]
        BY <2>2, <3>1, DropInnermost
      <4>4. elements'[1] = elements[1]
        BY <3>1, <3>3, <4>3
      <4>5. ASSUME NEW i \in 2..Len(elements') PROVE elements'[i].checked
        <5>1. i \in 1..Len(elements') /\ i \in 2..Len(elements)
          BY <3>1, <3>3, <4>3
        <5> QED
          BY <3>1, <4>3, <5>1
      <4> QED
        BY <2>2, <3>1, <3>3, <4>2, <4>4, <4>5 DEF WholeInv, AcceptedWhole, size
    <3> QED
      BY <3>2, <3>3
  <2> QED
    BY <1>6, <2>1, <2>2 DEF LeaveElement
<1>7. CASE RefuseElement
  BY <1>7, RefuseWhole DEF RefuseElement
<1>8. CASE Validate
  <2>1. CASE Refuse
    BY <2>1, RefuseWhole
  <2>2. CASE /\ ~TransactionIdMissing /\ status' = "accepted"
             /\ UNCHANGED <<datagram, pos, elements, altered, exceeded>>
    <3>1. pos \in Nat /\ size \in Nat
      BY DatagramsHaveSizes DEF TypeInv, size
    <3>2. pos >= size /\ ~(pos > size) /\ (exceeded => pos # size)
      BY <1>8, <2>2 DEF Validate, WholeInv, TransactionIdMissing
    <3>3. pos = size
      BY <3>1, <3>2
    <3> QED
      BY <2>2, <3>2, <3>3 DEF WholeInv, AcceptedWhole, size
  <2> QED
    BY <1>8, <2>1, <2>2 DEF Validate
<1>9. CASE Receive
  BY <1>9 DEF Receive, WholeInv, AcceptedWhole
<1>10. CASE UNCHANGED vars
  BY <1>10 DEF vars, WholeInv, AcceptedWhole, size
<1> QED
  BY <1>1, <1>2, <1>3, <1>4, <1>5, <1>6, <1>7, <1>8, <1>9, <1>10 DEF Next

(* A datagram that is accepted was used to its last octet, and no element  *)
(* of it used octets of another, however deep and however long.            *)
THEOREM AcceptedIsWhole == Spec => []AcceptedWhole
<1>1. Init => WholeInv
  BY DEF Init, WholeInv, AcceptedWhole
<1>2. TypeInv /\ WholeInv /\ [Next]_vars => WholeInv'
  BY WholeStep
<1>3. WholeInv => AcceptedWhole
  BY DEF WholeInv
<1> QED
  BY <1>1, <1>2, <1>3, TypeInvariant, PTL DEF Spec

-----------------------------------------------------------------------------
(* Lengths                                                                 *)

(* An option of a class that is not excepted is as long as its header says.*)
LEMMA TakeKeepsBytes ==
    ASSUME NEW h, NEW format, Take(h, format), h.length \in Nat,
           Dependable(format), format.rest \in DependableKinds,
           format.least <= h.length
    PROVE  altered' = altered
<1>1. PICK use \in Uses(format, h.length, Left - 4) :
        altered' = IF use = Use(h.length, h.length) THEN altered ELSE h.class
  BY DEF Take
<1>2. format.least \in Nat
  BY DEF Dependable, WellFormed
<1>3. use = Use(h.length, h.length)
  BY <1>1, <1>2, DependableUses
<1> QED
  BY <1>1, <1>3

(* What is parsed is as long as its header says and as what save() makes   *)
(* of it, except for the classes that the property names, for all lengths. *)
THEOREM BytesAreKept == Spec => []ElementsAreTheirBytes
<1>1. Init => ElementsAreTheirBytes
  BY DEF Init, ElementsAreTheirBytes
<1>2. ASSUME TypeInv, ElementsAreTheirBytes, [Next]_vars
      PROVE  ElementsAreTheirBytes'
  <2>1. CASE ParseSimpleOption
    <3>1. PICK h \in OptionHeaders :
             /\ OptionFormat[h.class].rest \notin Holding \cup {RelayedMessage}
             /\ Take(h, OptionFormat[h.class])
      BY <2>1 DEF ParseSimpleOption
    <3>2. CASE h.class \in ExceptedClasses
      <4>1. altered' \in {altered, h.class}
        BY <3>1 DEF Take
      <4> QED
        BY <1>2, <3>2, <4>1 DEF ElementsAreTheirBytes, ExceptedClasses
    <3>3. CASE h.class \notin ExceptedClasses
      <4>1. /\ Dependable(OptionFormat[h.class])
            /\ h.length \in Nat /\ OptionFormat[h.class].least <= h.length
        BY <3>3, OptionHeadersAreSound, OptionClasses
      <4>2. OptionFormat[h.class].rest \in DependableKinds
        BY <3>1, <4>1 DEF Dependable
      <4>3. altered' = altered
        BY <3>1, <4>1, <4>2, TakeKeepsBytes
      <4> QED
        BY <1>2, <4>3 DEF ElementsAreTheirBytes
    <3> QED
      BY <3>2, <3>3
  <2>2. CASE ParseSuboption
    <3>1. PICK h \in SuboptionHeaders : Take(h, SuboptionFormat[h.class])
      BY <2>2 DEF ParseSuboption
    <3>2. altered' = altered
      BY <3>1, SuboptionHeadersAreSound, TakeKeepsBytes
    <3> QED
      BY <1>2, <3>2 DEF ElementsAreTheirBytes
  <2>3. CASE Receive
    BY <2>3 DEF Receive, ElementsAreTheirBytes
  <2>4. CASE ParseMessage \/ EnterOption \/ EnterRelayMessage \/ LeaveElement
                \/ RefuseElement \/ Validate \/ UNCHANGED vars
    <3>1. altered' = altered
      BY <2>4 DEF ParseMessage, EnterOption, EnterRelayMessage, EnterMessage,
                  LeaveElement, RefuseElement, Validate, Refuse, vars
    <3> QED
      BY <1>2, <3>1 DEF ElementsAreTheirBytes
  <2> QED
    BY <1>2, <2>1, <2>2, <2>3, <2>4 DEF Next
<1> QED
  BY <1>1, <1>2, TypeInvariant, PTL DEF Spec

-----------------------------------------------------------------------------
(* The tables of what may be in what                                       *)

LEMMA TogetherHas ==
    ASSUME NEW tables
    PROVE  /\ DOMAIN Together(tables) = UNION {DOMAIN t : t \in tables}
           /\ \A k \in DOMAIN Together(tables) :
                 \E t \in tables : k \in DOMAIN t /\ Together(tables)[k] = t[k]
BY DEF Together

LEMMA BetweenHas ==
    ASSUME NEW min, NEW max, NEW classes
    PROVE  /\ DOMAIN Between(min, max, classes) = classes
           /\ \A k \in classes :
                 /\ Between(min, max, classes)[k].min = min
                 /\ Between(min, max, classes)[k].max = max
BY DEF Between

LEMMA ForHas ==
    ASSUME NEW classes, NEW table
    PROVE  /\ DOMAIN For(classes, table) = classes
           /\ \A c \in classes : For(classes, table)[c] = table
BY DEF For

(* Entries that answers, and messages between relays and the server, have. *)
Bases ==
    {"Message", "Option", "RelayServerMessage", "ClientServerMessage", "NTPSubOption"}
    \cup S46Containers

ForAnswers(c, k, min, max) ==
    /\ k \notin Bases /\ max \in {1, Infinite}
    /\ min = 0 \/ (min = 1 /\ k \in {"ServerIdOption", "ClientIdOption"})
    /\ k = "S46ContainerOption" => max = Infinite
    /\ c \in {"AdvertiseMessage", "ClientServerMessage", "Message"} => k # "RapidCommitOption"

ForRelays(k, min, max) ==
    /\ k \notin Bases \cup {"S46ContainerOption"}
    /\ min = 0 \/ (min = 1 /\ k = "RelayMessageOption")
    /\ max = IF k \in {"RemoteIdOption", "SubscriberIdOption", "UnknownOption"}
             THEN Infinite ELSE 1

AnswerTypes == {"AdvertiseMessage", "ReplyMessage", "LeasequeryReplyMessage"}

(* What the entries of a class are like.                                   *)
Entry(c, k, min, max) ==
    /\ c \in AnswerTypes \cup {"ClientServerMessage", "Message"} => ForAnswers(c, k, min, max)
    /\ c \in RelayMessages \cup {"RelayServerMessage", "Message"} => ForRelays(k, min, max)
    /\ c \in FromClients \cup {"ClientServerMessage", "Message"} /\ k = "ClientIdOption"
          => min = 1

(* All that a table says of some classes is like this, and all it says.    *)
FineFor(classes, table) ==
    \A c \in classes : \A k \in DOMAIN table : Entry(c, k, table[k].min, table[k].max)
Sound(t) == \A c \in DOMAIN t : FineFor({c}, t[c])

LEMMA FineTogether ==
    ASSUME NEW classes, NEW tables, \A t \in tables : FineFor(classes, t)
    PROVE  FineFor(classes, Together(tables))
BY TogetherHas DEF FineFor

LEMMA FineBetween ==
    ASSUME NEW classes, NEW min, NEW max, NEW entries,
           \A c \in classes, k \in entries : Entry(c, k, min, max)
    PROVE  FineFor(classes, Between(min, max, entries))
BY BetweenHas DEF FineFor

LEMMA SoundFor ==
    ASSUME NEW classes, NEW table, FineFor(classes, table)
    PROVE  Sound(For(classes, table))
BY ForHas DEF Sound, FineFor


LEMMA FineAtMost ==
    ASSUME NEW classes, NEW entries
    PROVE  /\ (\A c \in classes, k \in entries : Entry(c, k, 0, Infinite))
                 => FineFor(classes, AnyNumber(entries))
           /\ (\A c \in classes, k \in entries : Entry(c, k, 0, 1))
                 => FineFor(classes, AtMostOne(entries))
           /\ (\A c \in classes, k \in entries : Entry(c, k, 1, 1))
                 => FineFor(classes, One(entries))
           /\ (\A c \in classes, k \in entries : Entry(c, k, 1, Infinite))
                 => FineFor(classes, AtLeastOne(entries))
BY FineBetween DEF AnyNumber, AtMostOne, One, AtLeastOne

(* A request must have the client-id; nothing else matters here.           *)
LEMMA EntriesOfClients ==
    ASSUME NEW c \in FromClients, NEW k, NEW min, NEW max,
           k = "ClientIdOption" => min = 1
    PROVE  Entry(c, k, min, max)
BY DEF Entry, AnswerTypes, FromClients, RelayMessages

LEMMA EntriesOfOthers ==
    ASSUME NEW classes,
           classes \cap (FromClients \cup AnswerTypes \cup RelayMessages
                         \cup {"Message", "ClientServerMessage", "RelayServerMessage"}) = {},
           NEW table
    PROVE  FineFor(classes, table)
BY DEF FineFor, Entry

LEMMA RequestEntries ==
    /\ FineFor(FromClients, FromClient) /\ FineFor(FromClients, ToServer)
    /\ FineFor(FromClients, Reconfigurable) /\ FineFor(FromClients, AnyNumber(AddressIAs))
    /\ FineFor(FromClients, AtMostOne({"RapidCommitOption"}))
    /\ FineFor(FromClients, AtMostOne({"ServerUnicastOption"}))
<1> DEFINE C == FromClients
           entries == AddressIAs \cup UserClasses
                      \cup {"ReconfigureAcceptOption", "RapidCommitOption",
                            "ServerUnicastOption", "ServerIdOption", "OptionRequestOption"}
<1>1. \A k \in entries : k # "ClientIdOption"
  BY DEF AddressIAs, UserClasses
<1>2. \A c \in C, k \in entries : \A min, max : Entry(c, k, min, max)
  BY <1>1, EntriesOfClients
<1>3. \A c \in C : \A k, max : Entry(c, k, 1, max)
  BY EntriesOfClients
<1> HIDE DEF C
<1>4. /\ FineFor(C, Reconfigurable) /\ FineFor(C, AnyNumber(AddressIAs))
      /\ FineFor(C, AtMostOne({"RapidCommitOption"}))
      /\ FineFor(C, AtMostOne({"ServerUnicastOption"}))
      /\ FineFor(C, AtMostOne({"OptionRequestOption"})) /\ FineFor(C, AnyNumber(UserClasses))
  BY <1>2, FineAtMost DEF Reconfigurable
<1>5. FineFor(C, ToServer) /\ FineFor(C, One({"ClientIdOption", "ElapsedTimeOption"}))
  BY <1>3, FineAtMost DEF ToServer
<1>6. FineFor(C, FromClient)
  BY <1>4, <1>5, FineTogether DEF FromClient
<1> QED
  BY <1>4, <1>5, <1>6 DEF C

LEMMA AnswerEntries ==
    LET C == {"AdvertiseMessage", "ReplyMessage"}
    IN  /\ FineFor(C, One({"ClientIdOption", "ServerIdOption"}))
        /\ FineFor(C, One({"ServerIdOption"}))
        /\ FineFor(C, AnyNumber(AddressIAs \cup UserClasses))
        /\ FineFor(C, AtMostOne({"PreferenceOption", "StatusCodeOption"}))
        /\ FineFor(C, Reconfigurable)
        /\ FineFor({"ReplyMessage"},
             AtMostOne({"ClientIdOption", "PreferenceOption", "ServerUnicastOption",
                        "StatusCodeOption", "RapidCommitOption"}))
<1> DEFINE C == {"AdvertiseMessage", "ReplyMessage"}
<1>1. \A c \in C : \A k, min, max : ForAnswers(c, k, min, max) => Entry(c, k, min, max)
  BY DEF Entry, RelayMessages, FromClients
<1>2. \A c \in C, k \in {"ClientIdOption", "ServerIdOption"} : ForAnswers(c, k, 1, 1)
  BY DEF ForAnswers, Bases, S46Containers
<1>3. \A c \in C, k \in AddressIAs \cup UserClasses : ForAnswers(c, k, 0, Infinite)
  BY DEF ForAnswers, Bases, S46Containers, AddressIAs, UserClasses
<1>4. \A c \in C, k \in {"PreferenceOption", "StatusCodeOption", "ReconfigureAcceptOption"} :
         ForAnswers(c, k, 0, 1)
  BY DEF ForAnswers, Bases, S46Containers
<1>5. \A k \in {"ClientIdOption", "PreferenceOption", "ServerUnicastOption",
                "StatusCodeOption", "RapidCommitOption"} :
         ForAnswers("ReplyMessage", k, 0, 1)
  BY DEF ForAnswers, Bases, S46Containers
<1> HIDE DEF C
<1>6. /\ FineFor(C, One({"ClientIdOption", "ServerIdOption"}))
      /\ FineFor(C, One({"ServerIdOption"}))
  BY <1>1, <1>2, FineAtMost
<1>7. FineFor(C, AnyNumber(AddressIAs \cup UserClasses))
  BY <1>1, <1>3, FineAtMost
<1>8. FineFor(C, AtMostOne({"PreferenceOption", "StatusCodeOption"}))
      /\ FineFor(C, Reconfigurable)
  BY <1>1, <1>4, FineAtMost DEF Reconfigurable
<1>9. FineFor({"ReplyMessage"},
             AtMostOne({"ClientIdOption", "PreferenceOption", "ServerUnicastOption",
                        "StatusCodeOption", "RapidCommitOption"}))
  BY <1>1, <1>5, FineAtMost DEF C
<1> QED
  BY <1>6, <1>7, <1>8, <1>9 DEF C

LEMMA CoreSound == \A t \in CoreTable : Sound(t)
<1> DEFINE message == Together({AnyNumber({"UnknownOption"}),
                                AtMostOne({"AuthenticationOption"})})
           option == AnyNumber({"UnknownOption"})
           solicit == Together({FromClient, AnyNumber(AddressIAs), Reconfigurable,
                                AtMostOne({"RapidCommitOption"})})
           renew == Together({FromClient, ToServer, AnyNumber(AddressIAs), Reconfigurable})
           rebind == Together({FromClient, AnyNumber(AddressIAs), Reconfigurable})
           confirm == Together({FromClient, AnyNumber(AddressIAs)})
           release == Together({FromClient, ToServer, AnyNumber(AddressIAs)})
           information == Together({FromClient, Reconfigurable,
                                    AtMostOne({"ServerUnicastOption"})})
           advertise == Together({One({"ClientIdOption", "ServerIdOption"}),
                  AnyNumber(AddressIAs \cup UserClasses),
                  AtMostOne({"PreferenceOption", "StatusCodeOption"}), Reconfigurable})
           reply == Together({One({"ServerIdOption"}), AnyNumber(AddressIAs \cup UserClasses),
                  AtMostOne({"ClientIdOption", "PreferenceOption", "ServerUnicastOption",
                             "StatusCodeOption", "RapidCommitOption"}), Reconfigurable})
           reconfigure == Together({
                  One({"ClientIdOption", "ServerIdOption", "ReconfigureMessageOption"}),
                  AtMostOne({"OptionRequestOption"})})
           forward == AtMostOne({"RelayMessageOption", "InterfaceIdOption"})
           relayReply == Together({One({"RelayMessageOption"}),
                                   AtMostOne({"InterfaceIdOption"})})
           ia == AnyNumber({"IAAddressOption", "StatusCodeOption"})
           address == AnyNumber({"StatusCodeOption"})
           relayed == AnyNumber({"Message"})
           rows == {For({"Message"}, message), For({"Option"}, option),
                    For({"SolicitMessage"}, solicit),
                    For({"RequestMessage", "RenewMessage"}, renew),
                    For({"RebindMessage"}, rebind), For({"ConfirmMessage"}, confirm),
                    For({"ReleaseMessage", "DeclineMessage"}, release),
                    For({"InformationRequestMessage"}, information),
                    For({"AdvertiseMessage"}, advertise), For({"ReplyMessage"}, reply),
                    For({"ReconfigureMessage"}, reconfigure),
                    For({"RelayForwardMessage"}, forward),
                    For({"RelayReplyMessage"}, relayReply),
                    For(AddressIAs, ia), For({"IAAddressOption"}, address),
                    For({"RelayMessageOption"}, relayed)}
<1>1. CoreTable = rows
  BY DEF CoreTable
<1>2. /\ FineFor(FromClients, solicit) /\ FineFor(FromClients, renew)
      /\ FineFor(FromClients, rebind) /\ FineFor(FromClients, confirm)
      /\ FineFor(FromClients, release) /\ FineFor(FromClients, information)
  BY RequestEntries, FineTogether
<1>3. FineFor({"AdvertiseMessage"}, advertise) /\ FineFor({"ReplyMessage"}, reply)
  <2>1. /\ FineFor({"AdvertiseMessage"}, One({"ClientIdOption", "ServerIdOption"}))
        /\ FineFor({"AdvertiseMessage"}, AnyNumber(AddressIAs \cup UserClasses))
        /\ FineFor({"AdvertiseMessage"}, AtMostOne({"PreferenceOption", "StatusCodeOption"}))
        /\ FineFor({"AdvertiseMessage"}, Reconfigurable)
    BY AnswerEntries DEF FineFor
  <2>2. /\ FineFor({"ReplyMessage"}, One({"ServerIdOption"}))
        /\ FineFor({"ReplyMessage"}, AnyNumber(AddressIAs \cup UserClasses))
        /\ FineFor({"ReplyMessage"},
             AtMostOne({"ClientIdOption", "PreferenceOption", "ServerUnicastOption",
                        "StatusCodeOption", "RapidCommitOption"}))
        /\ FineFor({"ReplyMessage"}, Reconfigurable)
    BY AnswerEntries DEF FineFor
  <2> QED
    BY <2>1, <2>2, FineTogether
<1>4. /\ FineFor({"RelayForwardMessage"}, forward)
      /\ FineFor({"RelayReplyMessage"}, relayReply)
  <2>1. \A c \in RelayMessages : \A k, min, max : ForRelays(k, min, max) => Entry(c, k, min, max)
    BY DEF Entry, AnswerTypes, FromClients, RelayMessages
  <2>2. /\ ForRelays("RelayMessageOption", 0, 1) /\ ForRelays("RelayMessageOption", 1, 1)
        /\ ForRelays("InterfaceIdOption", 0, 1)
    BY DEF ForRelays, Bases, S46Containers
  <2>3. FineFor(RelayMessages, forward) /\ FineFor(RelayMessages, One({"RelayMessageOption"}))
        /\ FineFor(RelayMessages, AtMostOne({"InterfaceIdOption"}))
    BY <2>1, <2>2, FineAtMost
  <2>4. FineFor(RelayMessages, relayReply)
    BY <2>3, FineTogether
  <2> QED
    BY <2>3, <2>4 DEF FineFor, RelayMessages
<1>5. FineFor({"Message"}, message)
  <2>1. \A c \in {"Message"} : Entry(c, "UnknownOption", 0, Infinite)
                            /\ Entry(c, "AuthenticationOption", 0, 1)
    BY DEF Entry, ForAnswers, ForRelays, FromClients, AnswerTypes, RelayMessages, Bases, S46Containers
  <2>2. /\ FineFor({"Message"}, AnyNumber({"UnknownOption"}))
        /\ FineFor({"Message"}, AtMostOne({"AuthenticationOption"}))
    BY <2>1, FineAtMost
  <2> QED
    BY <2>2, FineTogether
<1>6. /\ FineFor({"Option"}, option) /\ FineFor({"ReconfigureMessage"}, reconfigure)
      /\ FineFor(AddressIAs, ia) /\ FineFor({"IAAddressOption"}, address)
      /\ FineFor({"RelayMessageOption"}, relayed)
  <2> DEFINE others == {"Option", "ReconfigureMessage", "IAAddressOption",
                        "RelayMessageOption"} \cup AddressIAs
  <2>1. others \cap (FromClients \cup AnswerTypes \cup RelayMessages
                     \cup {"Message", "ClientServerMessage", "RelayServerMessage"}) = {}
    BY DEF AddressIAs, FromClients, AnswerTypes, RelayMessages
  <2>2. \A table : FineFor(others, table)
    BY <2>1, EntriesOfOthers
  <2> QED
    BY <2>2 DEF FineFor
<1>7. /\ FineFor({"SolicitMessage"}, solicit)
      /\ FineFor({"RequestMessage", "RenewMessage"}, renew)
      /\ FineFor({"RebindMessage"}, rebind) /\ FineFor({"ConfirmMessage"}, confirm)
      /\ FineFor({"ReleaseMessage", "DeclineMessage"}, release)
      /\ FineFor({"InformationRequestMessage"}, information)
  BY <1>2 DEF FineFor, FromClients
<1> HIDE DEF message, option, solicit, renew, rebind, confirm, release, information,
             advertise, reply, reconfigure, forward, relayReply, ia, address, relayed
<1>8. \A t \in rows : Sound(t)
  BY <1>3, <1>4, <1>5, <1>6, <1>7, SoundFor
<1> QED
  BY <1>1, <1>8

(* An option that an extension lets some messages between clients and      *)
(* servers hold.                                                           *)
LEMMA ExtensionEntries ==
    ASSUME NEW classes, classes \subseteq FromClients \cup {"AdvertiseMessage", "ReplyMessage"},
           NEW entries,
           \A k \in entries : k \notin Bases \cup {"ClientIdOption", "RapidCommitOption"}
    PROVE  /\ Sound(For(classes, AnyNumber(entries)))
           /\ "S46ContainerOption" \notin entries => Sound(For(classes, AtMostOne(entries)))
<1>1. ASSUME NEW c \in classes, NEW k \in entries,
             NEW max \in {1, Infinite}, k = "S46ContainerOption" => max = Infinite
      PROVE  Entry(c, k, 0, max)
  <2>1. CASE c \in FromClients
    BY <2>1, EntriesOfClients
  <2>2. CASE c \in {"AdvertiseMessage", "ReplyMessage"}
    BY <1>1, <2>2 DEF Entry, ForAnswers, FromClients, RelayMessages
  <2> QED
    BY <2>1, <2>2
<1>2. FineFor(classes, AnyNumber(entries))
  BY <1>1, FineAtMost
<1>3. "S46ContainerOption" \notin entries => FineFor(classes, AtMostOne(entries))
  BY <1>1, FineAtMost
<1> QED
  BY <1>2, <1>3, SoundFor

LEMMA ExtensionClasses ==
    /\ Configuring \subseteq FromClients \cup {"AdvertiseMessage", "ReplyMessage"}
    /\ Informing \subseteq FromClients \cup {"AdvertiseMessage", "ReplyMessage"}
    /\ Assigning \subseteq FromClients \cup {"AdvertiseMessage", "ReplyMessage"}
BY DEF Configuring, Informing, Assigning, FromClients

LEMMA OtherRows ==
    ASSUME NEW classes,
           classes \cap (FromClients \cup AnswerTypes \cup RelayMessages
                         \cup {"Message", "ClientServerMessage", "RelayServerMessage"}) = {},
           NEW table
    PROVE  Sound(For(classes, table))
BY EntriesOfOthers, SoundFor

LEMMA OtherClasses ==
    LET others == {"IAPDOption", "IAPrefixOption", "LQQueryOption", "ClientDataOption",
                   "LQRelayDataOption", "S46RuleOption", "S46V4V6BindingOption",
                   "S46MapEContainerOption", "S46MapTContainerOption",
                   "S46LWContainerOption", "NTPServersOption"}
    IN  others \cap (FromClients \cup AnswerTypes \cup RelayMessages
                     \cup {"Message", "ClientServerMessage", "RelayServerMessage"}) = {}
BY DEF FromClients, AnswerTypes, RelayMessages

LEMMA ExtensionsSound ==
    \A t \in PrefixDelegationTable \cup MapTable \cup NTPTable \cup DNSTable
             \cup SIPTable \cup SNTPTable \cup DSLiteTable \cup TimezoneTable
             \cup ClientFQDNTable \cup SolMaxRTTable \cup PDExcludeTable : Sound(t)
<1>1. /\ Sound(For(Assigning, AnyNumber({"IAPDOption"})))
      /\ Sound(For(Assigning, AnyNumber({"S46ContainerOption"})))
      /\ Sound(For(Informing, AnyNumber({"NTPServersOption"})))
  BY ExtensionClasses, ExtensionEntries DEF Bases, S46Containers
<1>2. \A table : /\ Sound(For({"IAPDOption"}, table)) /\ Sound(For({"IAPrefixOption"}, table))
                 /\ Sound(For({"S46RuleOption", "S46V4V6BindingOption"}, table))
                 /\ Sound(For({"S46MapEContainerOption"}, table))
                 /\ Sound(For({"S46MapTContainerOption"}, table))
                 /\ Sound(For({"S46LWContainerOption"}, table))
                 /\ Sound(For({"NTPServersOption"}, table))
  BY OtherClasses, OtherRows
<1>3. \A t \in PrefixDelegationTable \cup MapTable \cup NTPTable \cup PDExcludeTable : Sound(t)
  BY <1>1, <1>2 DEF PrefixDelegationTable, MapTable, NTPTable, PDExcludeTable
<1>4. \A t \in DNSTable \cup SIPTable \cup SNTPTable \cup DSLiteTable \cup TimezoneTable : Sound(t)
  BY ExtensionClasses, ExtensionEntries
     DEF Bases, S46Containers, DNSTable, SIPTable, SNTPTable, DSLiteTable, TimezoneTable
<1>5. \A t \in ClientFQDNTable \cup SolMaxRTTable : Sound(t)
  BY ExtensionClasses, ExtensionEntries DEF Bases, S46Containers, ClientFQDNTable, SolMaxRTTable
<1> QED
  BY <1>3, <1>4, <1>5

LEMMA RelayTablesSound ==
    \A t \in RemoteIdTable \cup SubscriberIdTable \cup LinkLayerIdTable : Sound(t)
<1> DEFINE C == RelayMessages \cup {"RelayServerMessage"}
<1>1. \A c \in C : \A k, min, max : ForRelays(k, min, max) => Entry(c, k, min, max)
  BY DEF Entry, AnswerTypes, FromClients, RelayMessages
<1>2. /\ ForRelays("RemoteIdOption", 0, Infinite) /\ ForRelays("SubscriberIdOption", 0, Infinite)
      /\ ForRelays("LinkLayerIdOption", 0, 1)
  BY DEF ForRelays, Bases, S46Containers
<1>3. /\ FineFor(C, AnyNumber({"RemoteIdOption"})) /\ FineFor(C, AnyNumber({"SubscriberIdOption"}))
      /\ FineFor(C, AtMostOne({"LinkLayerIdOption"}))
  BY <1>1, <1>2, FineAtMost
<1>4. /\ FineFor({"RelayForwardMessage", "RelayReplyMessage"}, AnyNumber({"RemoteIdOption"}))
      /\ FineFor({"RelayForwardMessage", "RelayReplyMessage"}, AnyNumber({"SubscriberIdOption"}))
      /\ FineFor({"RelayServerMessage"}, AtMostOne({"LinkLayerIdOption"}))
  BY <1>3 DEF FineFor, RelayMessages
<1> QED
  BY <1>4, SoundFor DEF RemoteIdTable, SubscriberIdTable, LinkLayerIdTable

LEMMA LeasequerySound == \A t \in LeasequeryTable : Sound(t)
<1> DEFINE query == Together({AtLeastOne({"ClientIdOption"}), One({"LQQueryOption"}),
                  AnyNumber({"ServerIdOption", "OptionRequestOption", "StatusCodeOption"})})
           reply == Together({One({"ClientIdOption", "ServerIdOption"}),
                  AtMostOne({"ClientDataOption"}),
                  AnyNumber({"LQRelayDataOption", "LQClientLink", "StatusCodeOption"})})
<1>1. Sound(For({"LeasequeryMessage"}, query))
  <2> DEFINE C == {"LeasequeryMessage"}
  <2>1. C \subseteq FromClients
    BY DEF FromClients
  <2>2. /\ \A c \in C : \A k, max : Entry(c, k, 1, max)
        /\ \A c \in C, k \in {"ServerIdOption", "OptionRequestOption", "StatusCodeOption"} :
              \A min, max : Entry(c, k, min, max)
    BY <2>1, EntriesOfClients
  <2> HIDE DEF C
  <2>3. /\ FineFor(C, AtLeastOne({"ClientIdOption"})) /\ FineFor(C, One({"LQQueryOption"}))
        /\ FineFor(C, AnyNumber({"ServerIdOption", "OptionRequestOption", "StatusCodeOption"}))
    BY <2>2, FineAtMost
  <2>4. FineFor(C, query)
    BY <2>3, FineTogether
  <2> QED
    BY <2>4, SoundFor DEF C
<1>2. Sound(For({"LeasequeryReplyMessage"}, reply))
  <2> DEFINE C == {"LeasequeryReplyMessage"}
  <2>1. \A c \in C : \A k, min, max : ForAnswers(c, k, min, max) => Entry(c, k, min, max)
    BY DEF Entry, RelayMessages, FromClients
  <2>2. /\ \A c \in C, k \in {"ClientIdOption", "ServerIdOption"} : ForAnswers(c, k, 1, 1)
        /\ \A c \in C : ForAnswers(c, "ClientDataOption", 0, 1)
        /\ \A c \in C, k \in {"LQRelayDataOption", "LQClientLink", "StatusCodeOption"} :
              ForAnswers(c, k, 0, Infinite)
    BY DEF ForAnswers, Bases, S46Containers
  <2> HIDE DEF C
  <2>3. /\ FineFor(C, One({"ClientIdOption", "ServerIdOption"}))
        /\ FineFor(C, AtMostOne({"ClientDataOption"}))
        /\ FineFor(C, AnyNumber({"LQRelayDataOption", "LQClientLink", "StatusCodeOption"}))
    BY <2>1, <2>2, FineAtMost
  <2>4. FineFor(C, reply)
    BY <2>3, FineTogether
  <2> QED
    BY <2>4, SoundFor DEF C
<1>3. \A table : /\ Sound(For({"LQQueryOption"}, table)) /\ Sound(For({"ClientDataOption"}, table))
                 /\ Sound(For({"LQRelayDataOption"}, table))
  BY OtherClasses, OtherRows
<1> HIDE DEF query, reply
<1>4. LeasequeryTable = {
        For({"LeasequeryMessage"}, query), For({"LeasequeryReplyMessage"}, reply),
        For({"LQQueryOption"},
            AnyNumber({"IAAddressOption", "ClientIdOption", "OptionRequestOption"})),
        For({"ClientDataOption"}, AnyNumber({"Option"})),
        For({"LQRelayDataOption"}, One({"RelayForwardMessage"}))}
  BY DEF LeasequeryTable, query, reply
<1> QED
  BY <1>1, <1>2, <1>3, <1>4

LEMMA TablesSound == \A t \in Tables : Sound(t)
BY CoreSound, ExtensionsSound, RelayTablesSound, LeasequerySound DEF Tables

-----------------------------------------------------------------------------
(* What the tables let a message hold                                      *)

LEMMA InTogether ==
    ASSUME NEW tables, NEW t \in tables, NEW k \in DOMAIN t
    PROVE  k \in DOMAIN Together(tables)
<1>1. k \in UNION {DOMAIN u : u \in tables}
  OBVIOUS
<1> QED
  BY <1>1, TogetherHas

LEMMA MayContainHas ==
    ASSUME NEW c \in Holders
    PROVE  /\ \A t \in Tables, b \in Lineage(c) :
                 b \in DOMAIN t => DOMAIN t[b] \subseteq DOMAIN MayContain[c]
           /\ \A k \in DOMAIN MayContain[c] : \E t \in Tables, b \in Lineage(c) :
                 b \in DOMAIN t /\ k \in DOMAIN t[b] /\ MayContain[c][k] = t[b][k]
<1> DEFINE rows == UNION {Rows(b) : b \in Lineage(c)}
<1>1. MayContain[c] = Together(rows)
  BY DEF MayContain, EntriesOf
<1>2. \A r \in rows : \E t \in Tables, b \in Lineage(c) : b \in DOMAIN t /\ r = t[b]
  BY DEF Rows
<1>3. \A t \in Tables, b \in Lineage(c) : b \in DOMAIN t => t[b] \in rows
  BY DEF Rows
<1> HIDE DEF rows
<1>4. DOMAIN MayContain[c] = UNION {DOMAIN r : r \in rows}
  BY <1>1, TogetherHas
<1>5. \A k \in DOMAIN MayContain[c] : \E r \in rows : k \in DOMAIN r /\ MayContain[c][k] = r[k]
  BY <1>1, TogetherHas
<1>6. \A t \in Tables, b \in Lineage(c) :
         b \in DOMAIN t => DOMAIN t[b] \subseteq DOMAIN MayContain[c]
  BY <1>3, <1>4
<1>7. ASSUME NEW k \in DOMAIN MayContain[c]
      PROVE  \E t \in Tables, b \in Lineage(c) :
                b \in DOMAIN t /\ k \in DOMAIN t[b] /\ MayContain[c][k] = t[b][k]
  <2>1. PICK r \in rows : k \in DOMAIN r /\ MayContain[c][k] = r[k]
    BY <1>5
  <2>2. PICK t \in Tables, b \in Lineage(c) : b \in DOMAIN t /\ r = t[b]
    BY <1>2
  <2> QED
    BY <2>1, <2>2
<1> QED
  BY <1>6, <1>7

LEMMA Lineages ==
    /\ \A c \in AnswerTypes \cup FromClients :
          Lineage(c) = {c, "ClientServerMessage", "Message"}
    /\ \A c \in RelayMessages : Lineage(c) = {c, "RelayServerMessage", "Message"}
    /\ AnswerTypes \cup FromClients \cup RelayMessages \subseteq Holders
<1>1. AnswerTypes \cup FromClients \subseteq ClientServerMessages
  BY DEF AnswerTypes, FromClients, ClientServerMessages, Assigning, Configuring
<1>3. \A c \in RelayMessages : BaseClasses(c) = {"RelayServerMessage", "Message"}
  BY DEF BaseClasses, RelayMessages, ClientServerMessages, Assigning, Configuring,
         S46Containers
<1>4. \A c \in ClientServerMessages : BaseClasses(c) = {"ClientServerMessage", "Message"}
  BY DEF BaseClasses, RelayMessages, ClientServerMessages, Assigning, Configuring,
         S46Containers
<1> QED
  BY <1>1, <1>3, <1>4 DEF Lineage, Holders

(* No class with others derived from it is named, except for the container *)
(* of S46 options, of which any number may be held; all that an answer     *)
(* must hold is the server-id and the client-id.                           *)
LEMMA AnswerTable ==
    ASSUME NEW c \in AnswerTypes, NEW k \in DOMAIN MayContain[c]
    PROVE  ForAnswers(c, k, MayContain[c][k].min, MayContain[c][k].max)
<1>1. c \in Holders /\ Lineage(c) = {c, "ClientServerMessage", "Message"}
  BY Lineages
<1>2. PICK t \in Tables, b \in Lineage(c) :
           b \in DOMAIN t /\ k \in DOMAIN t[b] /\ MayContain[c][k] = t[b][k]
  BY <1>1, MayContainHas
<1>3. Entry(b, k, MayContain[c][k].min, MayContain[c][k].max)
  BY <1>2, TablesSound DEF Sound, FineFor
<1>4. ForAnswers(b, k, MayContain[c][k].min, MayContain[c][k].max)
  BY <1>1, <1>2, <1>3 DEF Entry
<1> QED
  BY <1>1, <1>2, <1>4 DEF ForAnswers

LEMMA RelayTable ==
    ASSUME NEW c \in RelayMessages, NEW k \in DOMAIN MayContain[c]
    PROVE  ForRelays(k, MayContain[c][k].min, MayContain[c][k].max)
<1>1. c \in Holders /\ Lineage(c) = {c, "RelayServerMessage", "Message"}
  BY Lineages
<1>2. PICK t \in Tables, b \in Lineage(c) :
           b \in DOMAIN t /\ k \in DOMAIN t[b] /\ MayContain[c][k] = t[b][k]
  BY <1>1, MayContainHas
<1>3. Entry(b, k, MayContain[c][k].min, MayContain[c][k].max)
  BY <1>2, TablesSound DEF Sound, FineFor
<1> QED
  BY <1>1, <1>2, <1>3 DEF Entry

LEMMA RowsHas ==
    /\ \A c \in {"SolicitMessage", "RequestMessage", "ConfirmMessage", "RenewMessage",
                 "RebindMessage", "ReleaseMessage", "DeclineMessage",
                 "InformationRequestMessage"} :
          \E t \in Tables : c \in DOMAIN t /\ "ClientIdOption" \in DOMAIN t[c]
    /\ \E t \in Tables : "LeasequeryMessage" \in DOMAIN t
                         /\ "ClientIdOption" \in DOMAIN t["LeasequeryMessage"]
<1>0. "ClientIdOption" \in DOMAIN FromClient
  <2>1. "ClientIdOption" \in DOMAIN One({"ClientIdOption", "ElapsedTimeOption"})
    BY BetweenHas DEF One
  <2> QED
    BY <2>1, InTogether DEF FromClient
<1> DEFINE solicit == Together({FromClient, AnyNumber(AddressIAs), Reconfigurable,
                                AtMostOne({"RapidCommitOption"})})
           renew == Together({FromClient, ToServer, AnyNumber(AddressIAs), Reconfigurable})
           rebind == Together({FromClient, AnyNumber(AddressIAs), Reconfigurable})
           confirm == Together({FromClient, AnyNumber(AddressIAs)})
           release == Together({FromClient, ToServer, AnyNumber(AddressIAs)})
           information == Together({FromClient, Reconfigurable,
                                    AtMostOne({"ServerUnicastOption"})})
           query == Together({AtLeastOne({"ClientIdOption"}), One({"LQQueryOption"}),
                  AnyNumber({"ServerIdOption", "OptionRequestOption", "StatusCodeOption"})})
<1>1. /\ "ClientIdOption" \in DOMAIN solicit /\ "ClientIdOption" \in DOMAIN renew
      /\ "ClientIdOption" \in DOMAIN rebind /\ "ClientIdOption" \in DOMAIN confirm
      /\ "ClientIdOption" \in DOMAIN release /\ "ClientIdOption" \in DOMAIN information
  BY <1>0, InTogether
<1>2. "ClientIdOption" \in DOMAIN query
  <2>1. "ClientIdOption" \in DOMAIN AtLeastOne({"ClientIdOption"})
    BY BetweenHas DEF AtLeastOne
  <2> QED
    BY <2>1, InTogether
<1>3. {For({"SolicitMessage"}, solicit), For({"RequestMessage", "RenewMessage"}, renew),
       For({"RebindMessage"}, rebind), For({"ConfirmMessage"}, confirm),
       For({"ReleaseMessage", "DeclineMessage"}, release),
       For({"InformationRequestMessage"}, information),
       For({"LeasequeryMessage"}, query)} \subseteq Tables
  BY DEF Tables, CoreTable, LeasequeryTable
<1> HIDE DEF solicit, renew, rebind, confirm, release, information, query
<1> QED
  BY <1>1, <1>2, <1>3, ForHas

(* A message from a client holds a client-id.                              *)
LEMMA RequestTable ==
    ASSUME NEW c \in FromClients
    PROVE  "ClientIdOption" \in DOMAIN MayContain[c] /\ MayContain[c]["ClientIdOption"].min = 1
<1>1. c \in Holders /\ Lineage(c) = {c, "ClientServerMessage", "Message"}
  BY Lineages
<1>2. \E t \in Tables : c \in DOMAIN t /\ "ClientIdOption" \in DOMAIN t[c]
  BY RowsHas DEF FromClients
<1>3. "ClientIdOption" \in DOMAIN MayContain[c]
  BY <1>1, <1>2, MayContainHas
<1>4. PICK t \in Tables, b \in Lineage(c) :
           /\ b \in DOMAIN t /\ "ClientIdOption" \in DOMAIN t[b]
           /\ MayContain[c]["ClientIdOption"] = t[b]["ClientIdOption"]
  BY <1>1, <1>3, MayContainHas
<1>5. Entry(b, "ClientIdOption", MayContain[c]["ClientIdOption"].min,
            MayContain[c]["ClientIdOption"].max)
  BY <1>4, TablesSound DEF Sound, FineFor
<1> QED
  BY <1>1, <1>3, <1>4, <1>5 DEF Entry

(* Advertise and reply rows of the core table, and those of relays.        *)
LEMMA CoreRows ==
    LET advertise == Together({One({"ClientIdOption", "ServerIdOption"}),
                  AnyNumber(AddressIAs \cup UserClasses),
                  AtMostOne({"PreferenceOption", "StatusCodeOption"}), Reconfigurable})
        reply == Together({One({"ServerIdOption"}), AnyNumber(AddressIAs \cup UserClasses),
                  AtMostOne({"ClientIdOption", "PreferenceOption", "ServerUnicastOption",
                             "StatusCodeOption", "RapidCommitOption"}), Reconfigurable})
        forward == AtMostOne({"RelayMessageOption", "InterfaceIdOption"})
        relayReply == Together({One({"RelayMessageOption"}),
                                AtMostOne({"InterfaceIdOption"})})
        others == {"Message", "Option", "SolicitMessage", "RequestMessage", "RenewMessage",
                   "RebindMessage", "ConfirmMessage", "ReleaseMessage", "DeclineMessage",
                   "InformationRequestMessage", "ReconfigureMessage", "IAAddressOption",
                   "RelayMessageOption"} \cup AddressIAs
    IN  /\ \A t \in CoreTable : \/ DOMAIN t \subseteq others
                                \/ t = For({"AdvertiseMessage"}, advertise)
                                \/ t = For({"ReplyMessage"}, reply)
                                \/ t = For({"RelayForwardMessage"}, forward)
                                \/ t = For({"RelayReplyMessage"}, relayReply)
        /\ {For({"AdvertiseMessage"}, advertise), For({"ReplyMessage"}, reply),
            For({"RelayForwardMessage"}, forward), For({"RelayReplyMessage"}, relayReply)}
              \subseteq Tables
BY ForHas DEF CoreTable, Tables

(* What an advertise may hold, a reply may, and what a relay-reply may     *)
(* hold, a relay-forward may.                                              *)
LEMMA HandedOn ==
    ASSUME NEW t \in Tables
    PROVE  /\ "AdvertiseMessage" \in DOMAIN t => \E u \in Tables :
                 /\ "ReplyMessage" \in DOMAIN u
                 /\ DOMAIN t["AdvertiseMessage"] \subseteq DOMAIN u["ReplyMessage"]
           /\ "RelayReplyMessage" \in DOMAIN t => \E u \in Tables :
                 /\ "RelayForwardMessage" \in DOMAIN u
                 /\ DOMAIN t["RelayReplyMessage"] \subseteq DOMAIN u["RelayForwardMessage"]
<1> DEFINE advertise == Together({One({"ClientIdOption", "ServerIdOption"}),
                  AnyNumber(AddressIAs \cup UserClasses),
                  AtMostOne({"PreferenceOption", "StatusCodeOption"}), Reconfigurable})
           reply == Together({One({"ServerIdOption"}), AnyNumber(AddressIAs \cup UserClasses),
                  AtMostOne({"ClientIdOption", "PreferenceOption", "ServerUnicastOption",
                             "StatusCodeOption", "RapidCommitOption"}), Reconfigurable})
           forward == AtMostOne({"RelayMessageOption", "InterfaceIdOption"})
           relayReply == Together({One({"RelayMessageOption"}),
                                   AtMostOne({"InterfaceIdOption"})})
<1>1. DOMAIN advertise \subseteq DOMAIN reply
  <2> DEFINE K == {"PreferenceOption", "StatusCodeOption"}
             L == {"ClientIdOption", "PreferenceOption", "ServerUnicastOption",
                   "StatusCodeOption", "RapidCommitOption"}
             A == One({"ClientIdOption", "ServerIdOption"})
             B == AnyNumber(AddressIAs \cup UserClasses)
             C == AtMostOne(K)
             D == Reconfigurable
             E == One({"ServerIdOption"})
             F == AtMostOne(L)
  <2>1. /\ DOMAIN A = {"ClientIdOption", "ServerIdOption"} /\ DOMAIN C = K
        /\ DOMAIN E = {"ServerIdOption"} /\ DOMAIN F = L
    BY BetweenHas DEF One, AtMostOne
  <2>2. DOMAIN A \subseteq DOMAIN E \cup DOMAIN F /\ DOMAIN C \subseteq DOMAIN F
    BY <2>1
  <2>3. advertise = Together({A, B, C, D}) /\ reply = Together({E, B, F, D})
    OBVIOUS
  <2> HIDE DEF advertise, reply, A, B, C, D, E, F
  <2>4. DOMAIN advertise = UNION {DOMAIN u : u \in {A, B, C, D}}
        /\ DOMAIN reply = UNION {DOMAIN u : u \in {E, B, F, D}}
    BY <2>3, TogetherHas
  <2> QED
    BY <2>2, <2>4
<1>2. DOMAIN relayReply \subseteq DOMAIN forward
  <2> DEFINE A == One({"RelayMessageOption"})
             B == AtMostOne({"InterfaceIdOption"})
  <2>1. /\ DOMAIN A = {"RelayMessageOption"} /\ DOMAIN B = {"InterfaceIdOption"}
        /\ DOMAIN forward = {"RelayMessageOption", "InterfaceIdOption"}
    BY BetweenHas DEF One, AtMostOne
  <2>2. relayReply = Together({A, B})
    OBVIOUS
  <2> HIDE DEF relayReply, forward, A, B
  <2>3. DOMAIN relayReply = UNION {DOMAIN u : u \in {A, B}}
    BY <2>2, TogetherHas
  <2> QED
    BY <2>1, <2>3
<1>3. CASE t \in CoreTable
  <2>1. \/ /\ "AdvertiseMessage" \notin DOMAIN t /\ "RelayReplyMessage" \notin DOMAIN t
        \/ t = For({"AdvertiseMessage"}, advertise)
        \/ t = For({"RelayReplyMessage"}, relayReply)
    <3> DEFINE others == {"Message", "Option", "SolicitMessage", "RequestMessage",
                   "RenewMessage", "RebindMessage", "ConfirmMessage", "ReleaseMessage",
                   "DeclineMessage", "InformationRequestMessage", "ReconfigureMessage",
                   "IAAddressOption", "RelayMessageOption"} \cup AddressIAs
    <3>1. \/ DOMAIN t \subseteq others
          \/ t = For({"AdvertiseMessage"}, advertise)
          \/ t = For({"ReplyMessage"}, reply)
          \/ t = For({"RelayForwardMessage"}, forward)
          \/ t = For({"RelayReplyMessage"}, relayReply)
      BY <1>3, CoreRows
    <3> HIDE DEF advertise, reply, forward, relayReply
    <3>2. "AdvertiseMessage" \notin others /\ "RelayReplyMessage" \notin others
      BY DEF AddressIAs
    <3>3. /\ DOMAIN For({"ReplyMessage"}, reply) = {"ReplyMessage"}
          /\ DOMAIN For({"RelayForwardMessage"}, forward) = {"RelayForwardMessage"}
      BY ForHas
    <3> HIDE DEF others
    <3> QED
      BY <3>1, <3>2, <3>3
  <2>2. {For({"ReplyMessage"}, reply), For({"RelayForwardMessage"}, forward)} \subseteq Tables
    BY CoreRows
  <2> HIDE DEF advertise, reply, forward, relayReply
  <2>3. /\ DOMAIN For({"ReplyMessage"}, reply) = {"ReplyMessage"}
        /\ For({"ReplyMessage"}, reply)["ReplyMessage"] = reply
        /\ DOMAIN For({"RelayForwardMessage"}, forward) = {"RelayForwardMessage"}
        /\ For({"RelayForwardMessage"}, forward)["RelayForwardMessage"] = forward
        /\ DOMAIN For({"AdvertiseMessage"}, advertise) = {"AdvertiseMessage"}
        /\ For({"AdvertiseMessage"}, advertise)["AdvertiseMessage"] = advertise
        /\ DOMAIN For({"RelayReplyMessage"}, relayReply) = {"RelayReplyMessage"}
        /\ For({"RelayReplyMessage"}, relayReply)["RelayReplyMessage"] = relayReply
    BY ForHas
  <2> QED
    BY <1>1, <1>2, <2>1, <2>2, <2>3
<1>4. CASE t \notin CoreTable
  <2>1. PICK classes, entries : 
          /\ t = For(classes, entries)
          /\ "AdvertiseMessage" \in classes => "ReplyMessage" \in classes
          /\ "RelayReplyMessage" \in classes => "RelayForwardMessage" \in classes
    BY <1>4 DEF Tables, PrefixDelegationTable, LeasequeryTable, MapTable, NTPTable,
       DNSTable, SIPTable, SNTPTable, DSLiteTable, TimezoneTable, ClientFQDNTable, SolMaxRTTable,
       PDExcludeTable, RemoteIdTable, SubscriberIdTable, LinkLayerIdTable,
       Configuring, Informing, Assigning
  <2> QED
    BY <2>1, ForHas
<1> QED
  BY <1>3, <1>4

LEMMA AnswerKeys ==
    /\ \A c \in AnswerTypes :
          {"ServerIdOption", "ClientIdOption", "StatusCodeOption"} \subseteq DOMAIN MayContain[c]
    /\ "RapidCommitOption" \in DOMAIN MayContain["ReplyMessage"]
    /\ {"ClientDataOption", "LQClientLink"} \subseteq DOMAIN MayContain["LeasequeryReplyMessage"]
    /\ {"RelayMessageOption", "InterfaceIdOption"} \subseteq DOMAIN MayContain["RelayReplyMessage"]
    /\ "RelayMessageOption" \in DOMAIN MayContain["RelayForwardMessage"]
<1> DEFINE A == One({"ClientIdOption", "ServerIdOption"})
           B == AnyNumber(AddressIAs \cup UserClasses)
           C == AtMostOne({"PreferenceOption", "StatusCodeOption"})
           D == Reconfigurable
           E == One({"ServerIdOption"})
           F == AtMostOne({"ClientIdOption", "PreferenceOption", "ServerUnicastOption",
                           "StatusCodeOption", "RapidCommitOption"})
           G == AtMostOne({"ClientDataOption"})
           H == AnyNumber({"LQRelayDataOption", "LQClientLink", "StatusCodeOption"})
           I == One({"RelayMessageOption"})
           J == AtMostOne({"InterfaceIdOption"})
           K == AtMostOne({"RelayMessageOption", "InterfaceIdOption"})
           advertise == Together({A, B, C, D})
           reply == Together({E, B, F, D})
           answer == Together({A, G, H})
           relayReply == Together({I, J})
<1>1. /\ {"ClientIdOption", "ServerIdOption"} \subseteq DOMAIN A
      /\ "StatusCodeOption" \in DOMAIN C /\ "ServerIdOption" \in DOMAIN E
      /\ {"ClientIdOption", "StatusCodeOption", "RapidCommitOption"} \subseteq DOMAIN F
      /\ "ClientDataOption" \in DOMAIN G
      /\ {"LQClientLink", "StatusCodeOption"} \subseteq DOMAIN H
      /\ "RelayMessageOption" \in DOMAIN I /\ "InterfaceIdOption" \in DOMAIN J
      /\ "RelayMessageOption" \in DOMAIN K
  BY BetweenHas DEF One, AtMostOne, AnyNumber
<1>2. {For({"AdvertiseMessage"}, advertise), For({"ReplyMessage"}, reply),
       For({"LeasequeryReplyMessage"}, answer), For({"RelayForwardMessage"}, K),
       For({"RelayReplyMessage"}, relayReply)} \subseteq Tables
  BY DEF Tables, CoreTable, LeasequeryTable
<1> HIDE DEF A, B, C, D, E, F, G, H, I, J, K
<1>3. /\ {"ServerIdOption", "ClientIdOption", "StatusCodeOption"} \subseteq DOMAIN advertise
      /\ {"ServerIdOption", "ClientIdOption", "StatusCodeOption", "RapidCommitOption"}
            \subseteq DOMAIN reply
      /\ {"ServerIdOption", "ClientIdOption", "StatusCodeOption", "ClientDataOption",
          "LQClientLink"} \subseteq DOMAIN answer
      /\ {"RelayMessageOption", "InterfaceIdOption"} \subseteq DOMAIN relayReply
  BY <1>1, InTogether
<1> HIDE DEF advertise, reply, answer, relayReply
<1>4. \A c, entries : c \in AnswerTypes \cup RelayMessages /\ For({c}, entries) \in Tables
                      => DOMAIN entries \subseteq DOMAIN MayContain[c]
  <2> TAKE c, entries
  <2> HAVE c \in AnswerTypes \cup RelayMessages /\ For({c}, entries) \in Tables
  <2>1. c \in Holders /\ c \in Lineage(c)
    BY Lineages DEF Lineage
  <2>2. c \in DOMAIN For({c}, entries) /\ For({c}, entries)[c] = entries
    BY ForHas
  <2> QED
    BY <2>1, <2>2, MayContainHas
<1> QED
  BY <1>1, <1>2, <1>3, <1>4 DEF AnswerTypes, RelayMessages

LEMMA KeysHandedOn ==
    /\ DOMAIN MayContain["AdvertiseMessage"] \subseteq DOMAIN MayContain["ReplyMessage"]
    /\ DOMAIN MayContain["RelayReplyMessage"] \subseteq DOMAIN MayContain["RelayForwardMessage"]
<1>1. ASSUME NEW c, NEW d, {c, d} \subseteq Holders, NEW bases,
             Lineage(c) = {c} \cup bases, Lineage(d) = {d} \cup bases,
             \A t \in Tables : c \in DOMAIN t =>
                \E u \in Tables : d \in DOMAIN u /\ DOMAIN t[c] \subseteq DOMAIN u[d]
      PROVE  DOMAIN MayContain[c] \subseteq DOMAIN MayContain[d]
  <2> SUFFICES ASSUME NEW k \in DOMAIN MayContain[c] PROVE k \in DOMAIN MayContain[d]
    OBVIOUS
  <2>1. PICK t \in Tables, b \in Lineage(c) : b \in DOMAIN t /\ k \in DOMAIN t[b]
    BY <1>1, MayContainHas
  <2>2. CASE b \in bases
    BY <1>1, <2>1, <2>2, MayContainHas
  <2>3. CASE b = c
    <3>1. PICK u \in Tables : d \in DOMAIN u /\ DOMAIN t[c] \subseteq DOMAIN u[d]
      BY <1>1, <2>1, <2>3
    <3> QED
      BY <1>1, <2>1, <2>3, <3>1, MayContainHas
  <2> QED
    BY <1>1, <2>2, <2>3
<1>2. DOMAIN MayContain["AdvertiseMessage"] \subseteq DOMAIN MayContain["ReplyMessage"]
  <2>1. /\ Lineage("AdvertiseMessage")
              = {"AdvertiseMessage"} \cup {"ClientServerMessage", "Message"}
        /\ Lineage("ReplyMessage") = {"ReplyMessage"} \cup {"ClientServerMessage", "Message"}
        /\ {"AdvertiseMessage", "ReplyMessage"} \subseteq Holders
    BY Lineages DEF AnswerTypes
  <2> QED
    BY <1>1, <2>1, HandedOn
<1>3. DOMAIN MayContain["RelayReplyMessage"] \subseteq DOMAIN MayContain["RelayForwardMessage"]
  <2>1. /\ Lineage("RelayReplyMessage")
              = {"RelayReplyMessage"} \cup {"RelayServerMessage", "Message"}
        /\ Lineage("RelayForwardMessage")
              = {"RelayForwardMessage"} \cup {"RelayServerMessage", "Message"}
        /\ {"RelayReplyMessage", "RelayForwardMessage"} \subseteq Holders
    BY Lineages DEF RelayMessages
  <2> QED
    BY <1>1, <2>1, HandedOn
<1> QED
  BY <1>2, <1>3

-----------------------------------------------------------------------------
(* Which entry of a table is about an option                               *)

LEMMA InfiniteIsLarge == Infinite \in Nat /\ Infinite >= 4
BY SMT DEF Infinite

(* The class that the tables name for an option.                           *)
Named(element) == IF element \in S46Containers THEN "S46ContainerOption" ELSE element

LEMMA ElementOf ==
    ASSUME NEW c \in AnswerTypes \cup RelayMessages, NEW e
    PROVE  /\ ElementClasses(c, e) = {Named(e)} \cap DOMAIN MayContain[c]
           /\ MayHold(c, e) <=> Named(e) \in DOMAIN MayContain[c]
<1> DEFINE K == DOMAIN MayContain[c]
<1>1. K \cap Bases = {} /\ \A k \in K : MayContain[c][k].max \in {1, Infinite}
  BY AnswerTable, RelayTable DEF ForAnswers, ForRelays
<1>2. \A k \in K : MayContain[c][k].max >= 1
  BY <1>1, InfiniteIsLarge
<1>3. Lineage(e) \cap K = {Named(e)} \cap K
  <2>1. CASE e \in S46Containers
    <3>1. BaseClasses(e) = {"S46ContainerOption", "Option"}
      BY <2>1 DEF BaseClasses, S46Containers, RelayMessages, ClientServerMessages, Assigning,
                  Configuring
    <3>2. e \in Bases /\ "Option" \in Bases
      BY <2>1 DEF Bases
    <3> QED
      BY <1>1, <2>1, <3>1, <3>2 DEF Named, Lineage
  <2>2. CASE e \notin S46Containers
    <3>1. BaseClasses(e) \subseteq Bases
      BY <2>2 DEF BaseClasses, Bases
    <3> QED
      BY <1>1, <2>2, <3>1 DEF Named, Lineage
  <2> QED
    BY <2>1, <2>2
<1>4. \A k : k \in Lineage(k)
  BY DEF Lineage
<1> DEFINE named == Lineage(e) \cap K
<1>5. ElementClasses(c, e) = {k \in named : /\ \A other \in named : other \in Lineage(k)
                                            /\ MayContain[c][k].max >= 1}
  BY DEF ElementClasses
<1>6. ElementClasses(c, e) = {Named(e)} \cap K
  <2> HIDE DEF K
  <2> QED
    BY <1>2, <1>3, <1>4, <1>5
<1> QED
  BY <1>6 DEF MayHold

-----------------------------------------------------------------------------
(* Selections from lists                                                   *)

List(s) == s \in Seq(SetOf(s))
Joined(s, t) == s \o t

LEMMA FirstExists ==
    ASSUME NEW S \in SUBSET Nat, S # {}
    PROVE  \E n \in S : \A m \in S : n <= m
<1>1. PICK n \in S : \A m \in S : <<m, n>> \notin OpToRel(<, Nat)
  BY NatLessThanWellFounded, WFMin
<1>2. \A m, k \in Nat : <<m, k>> \in OpToRel(<, Nat) <=> m < k
  BY DEF OpToRel
<1>3. \A m \in S : ~(m < n) /\ m \in Nat /\ n \in Nat
  BY <1>1, <1>2
<1>4. \A m \in S : n <= m
  BY <1>3
<1> QED
  BY <1>4

(* Induction over the naturals for a set in place of a predicate.          *)
LEMMA SetInduction ==
    ASSUME NEW S, 0 \in S, \A n \in Nat : n \in S => n + 1 \in S
    PROVE  Nat \subseteq S
<1> DEFINE T == {n \in Nat : n \notin S}
<1>1. SUFFICES ASSUME T # {} PROVE FALSE
  OBVIOUS
<1>2. PICK n \in T : \A m \in T : n <= m
  BY <1>1, FirstExists
<1>3. n # 0 /\ n - 1 \in Nat /\ n - 1 \notin T
  BY <1>2
<1> QED
  BY <1>3

LEMMA ListType ==
    ASSUME NEW S, NEW s \in Seq(S)
    PROVE  List(s) /\ SetOf(s) \subseteq S /\ Len(s) \in Nat /\ DOMAIN s = 1..Len(s)
<1>1. Len(s) \in Nat /\ DOMAIN s = 1..Len(s) /\ \A i \in 1..Len(s) : s[i] \in S
  OBVIOUS
<1>2. SetOf(s) \subseteq S /\ \A i \in 1..Len(s) : s[i] \in SetOf(s)
  BY <1>1 DEF SetOf
<1>3. s = [i \in 1..Len(s) |-> s[i]]
  OBVIOUS
<1>4. s \in Seq(SetOf(s))
  BY <1>1, <1>2, <1>3
<1> QED
  BY <1>1, <1>2, <1>4 DEF List

LEMMA AmongUnfolds ==
    ASSUME NEW s, NEW S, Len(s) \in Nat
    PROVE  LET f == Among(s, S)
           IN  f = [n \in 0..Len(s) |->
                      IF n = 0 THEN <<>>
                      ELSE IF s[n] \in S THEN Append(f[n - 1], s[n]) ELSE f[n - 1]]
<1> DEFINE n == Len(s)
           step(k, rest) == IF s[k] \in S THEN Append(rest, s[k]) ELSE rest
           Upto(m, f) == f = [k \in 0..m |-> IF k = 0 THEN <<>> ELSE step(k, f[k - 1])]
           M == {m \in Nat : \E f : Upto(m, f)}
<1> HIDE DEF n, step
<1>1. 0 \in M
  <2>1. Upto(0, [k \in 0..0 |-> <<>>])
    OBVIOUS
  <2> QED
    BY <2>1
<1>2. ASSUME NEW m \in Nat, m \in M PROVE m + 1 \in M
  <2>1. PICK f : Upto(m, f)
    BY <1>2
  <2> DEFINE g == [k \in 0..m + 1 |-> IF k = 0 THEN <<>> ELSE step(k, f[k - 1])]
  <2>2. \A k \in 0..m : g[k] = f[k]
    BY <2>1
  <2>3. \A k \in 0..m + 1 : k # 0 => k - 1 \in 0..m
    OBVIOUS
  <2>4. g = [k \in 0..m + 1 |-> IF k = 0 THEN <<>> ELSE step(k, g[k - 1])]
    BY <2>2, <2>3
  <2>5. Upto(m + 1, g)
    BY <2>4
  <2> HIDE DEF g, Upto
  <2> QED
    BY <2>5
<1>3. n \in M
  <2> HIDE DEF M
  <2>1. Nat \subseteq M
    BY <1>1, <1>2, SetInduction
  <2> QED
    BY <2>1 DEF n
<1>4. PICK f : Upto(n, f)
  BY <1>3
<1> DEFINE Unfolds(e) == e = [k \in 0..Len(s) |-> IF k = 0 THEN <<>>
              ELSE IF s[k] \in S THEN Append(e[k - 1], s[k]) ELSE e[k - 1]]
<1>5. Unfolds(f)
  BY <1>4 DEF n, step
<1>6. Unfolds(Among(s, S))
  BY <1>5 DEF Among
<1> QED
  BY <1>6

LEMMA AmongType ==
    ASSUME NEW s, List(s), NEW S
    PROVE  \A n \in 0..Len(s) : Among(s, S)[n] \in Seq(SetOf(s) \cap S)
<1> DEFINE f == Among(s, S)
           M == {n \in Nat : n \in 0..Len(s) => f[n] \in Seq(SetOf(s) \cap S)}
<1>0. Len(s) \in Nat /\ \A n \in 1..Len(s) : s[n] \in SetOf(s)
  BY ListType DEF List
<1>1. f = [n \in 0..Len(s) |->
             IF n = 0 THEN <<>>
             ELSE IF s[n] \in S THEN Append(f[n - 1], s[n]) ELSE f[n - 1]]
  BY <1>0, AmongUnfolds
<1> HIDE DEF f
<1>2. 0 \in M
  BY <1>0, <1>1
<1>3. ASSUME NEW n \in Nat, n \in M PROVE n + 1 \in M
  <2>1. SUFFICES ASSUME n + 1 \in 0..Len(s)
                 PROVE  f[n + 1] \in Seq(SetOf(s) \cap S)
    OBVIOUS
  <2>2. n \in 0..Len(s) /\ n + 1 # 0 /\ (n + 1) - 1 = n /\ n + 1 \in 1..Len(s)
    BY <1>0, <2>1
  <2>3. f[n] \in Seq(SetOf(s) \cap S)
    BY <1>3, <2>2
  <2>4. f[n + 1] = IF s[n + 1] \in S THEN Append(f[n], s[n + 1]) ELSE f[n]
    BY <1>1, <2>1, <2>2
  <2>5. s[n + 1] \in SetOf(s)
    BY <1>0, <2>2
  <2> QED
    BY <2>3, <2>4, <2>5
<1> HIDE DEF M
<1>4. Nat \subseteq M
  BY <1>2, <1>3, SetInduction
<1> QED
  BY <1>4, <1>0 DEF M, f

LEMMA ThoseType ==
    ASSUME NEW s, List(s), NEW S
    PROVE  /\ Those(s, S) \in Seq(SetOf(s) \cap S)
           /\ List(Those(s, S))
           /\ SetOf(Those(s, S)) \subseteq SetOf(s) \cap S
<1>1. Len(s) \in Nat
  BY DEF List
<1>2. Those(s, S) \in Seq(SetOf(s) \cap S)
  BY <1>1, AmongType DEF Those
<1> QED
  BY <1>2, ListType

LEMMA NoneOfThose ==
    ASSUME NEW s, List(s), NEW S, SetOf(s) \cap S = {}
    PROVE  Those(s, S) = <<>>
<1>1. Those(s, S) \in Seq({})
  BY ThoseType
<1> HIDE DEF Those
<1> QED
  BY <1>1

LEMMA SameThose ==
    ASSUME NEW s, List(s), NEW S, NEW T, SetOf(s) \cap S = SetOf(s) \cap T
    PROVE  Those(s, S) = Those(s, T)
<1> DEFINE f == Among(s, S)
           g == Among(s, T)
           M == {n \in Nat : n \in 0..Len(s) => f[n] = g[n]}
<1>0. Len(s) \in Nat /\ \A n \in 1..Len(s) : s[n] \in SetOf(s)
  BY ListType DEF List
<1>1. /\ f = [n \in 0..Len(s) |->
             IF n = 0 THEN <<>>
             ELSE IF s[n] \in S THEN Append(f[n - 1], s[n]) ELSE f[n - 1]]
      /\ g = [n \in 0..Len(s) |->
             IF n = 0 THEN <<>>
             ELSE IF s[n] \in T THEN Append(g[n - 1], s[n]) ELSE g[n - 1]]
  BY <1>0, AmongUnfolds
<1>2. \A n \in 1..Len(s) : s[n] \in S <=> s[n] \in T
  BY <1>0
<1> HIDE DEF f, g
<1>3. 0 \in M
  BY <1>0, <1>1
<1>4. ASSUME NEW n \in Nat, n \in M PROVE n + 1 \in M
  <2>1. SUFFICES ASSUME n + 1 \in 0..Len(s) PROVE f[n + 1] = g[n + 1]
    OBVIOUS
  <2>2. n \in 0..Len(s) /\ n + 1 # 0 /\ (n + 1) - 1 = n /\ n + 1 \in 1..Len(s)
    BY <1>0, <2>1
  <2>3. f[n] = g[n]
    BY <1>4, <2>2
  <2>4. /\ f[n + 1] = IF s[n + 1] \in S THEN Append(f[n], s[n + 1]) ELSE f[n]
        /\ g[n + 1] = IF s[n + 1] \in T THEN Append(g[n], s[n + 1]) ELSE g[n]
    BY <1>1, <2>1, <2>2
  <2> QED
    BY <1>2, <2>2, <2>3, <2>4
<1> HIDE DEF M
<1>5. Nat \subseteq M
  BY <1>3, <1>4, SetInduction
<1>6. f[Len(s)] = g[Len(s)]
  BY <1>5, <1>0 DEF M
<1> QED
  BY <1>6 DEF f, g, Those

LEMMA JoinedLists ==
    ASSUME NEW s, List(s), NEW t, List(t)
    PROVE  /\ List(Joined(s, t))
           /\ SetOf(Joined(s, t)) = SetOf(s) \cup SetOf(t)
<1> DEFINE A == SetOf(s)
           B == SetOf(t)
           u == s \o t
<1>1. /\ Len(s) \in Nat /\ Len(t) \in Nat /\ s \in Seq(A) /\ t \in Seq(B)
      /\ DOMAIN s = 1..Len(s) /\ DOMAIN t = 1..Len(t)
  BY ListType DEF List
<1>2. /\ Len(u) = Len(s) + Len(t) /\ DOMAIN u = 1..Len(s) + Len(t)
      /\ \A i \in 1..Len(s) + Len(t) : u[i] = IF i <= Len(s) THEN s[i] ELSE t[i - Len(s)]
  BY <1>1
<1>3. u \in Seq(A \cup B)
  BY <1>1
<1>4. List(u) /\ SetOf(u) \subseteq A \cup B
  BY <1>3, ListType
<1>5. A = {s[i] : i \in 1..Len(s)} /\ B = {t[i] : i \in 1..Len(t)}
  BY <1>1 DEF SetOf
<1>6. SetOf(u) = {u[i] : i \in 1..Len(s) + Len(t)}
  BY <1>2 DEF SetOf
<1> HIDE DEF A, B, u
<1>7. A \subseteq SetOf(u)
  <2>1. \A i \in 1..Len(s) : i \in 1..Len(s) + Len(t) /\ u[i] = s[i]
    BY <1>1, <1>2
  <2> QED
    BY <1>5, <1>6, <2>1
<1>8. B \subseteq SetOf(u)
  <2>1. \A i \in 1..Len(t) : i + Len(s) \in 1..Len(s) + Len(t) /\ u[i + Len(s)] = t[i]
    BY <1>1, <1>2
  <2> QED
    BY <1>5, <1>6, <2>1
<1> QED
  BY <1>4, <1>7, <1>8 DEF u, A, B, Joined

(* What is selected from two lists is selected from each of them.          *)
LEMMA AmongStart ==
    ASSUME NEW s, List(s), NEW t, List(t), NEW S
    PROVE  \A n \in 0..Len(s) : Among(Joined(s, t), S)[n] = Among(s, S)[n]
<1> DEFINE u == s \o t
           f == Among(u, S)
           g == Among(s, S)
           M == {n \in Nat : n \in 0..Len(s) => f[n] = g[n]}
<1>0. Len(s) \in Nat /\ Len(t) \in Nat
  BY DEF List
<1>1. Len(u) = Len(s) + Len(t) /\ \A n \in 1..Len(s) : u[n] = s[n]
  BY <1>0 DEF List
<1>2. /\ f = [n \in 0..Len(u) |->
             IF n = 0 THEN <<>>
             ELSE IF u[n] \in S THEN Append(f[n - 1], u[n]) ELSE f[n - 1]]
      /\ g = [n \in 0..Len(s) |->
             IF n = 0 THEN <<>>
             ELSE IF s[n] \in S THEN Append(g[n - 1], s[n]) ELSE g[n - 1]]
  <2>1. Len(u) \in Nat
    BY <1>0, <1>1
  <2> HIDE DEF u
  <2> QED
    BY <1>0, <2>1, AmongUnfolds
<1> HIDE DEF f, g, u
<1>3. 0 \in M
  BY <1>0, <1>1, <1>2
<1>4. ASSUME NEW n \in Nat, n \in M PROVE n + 1 \in M
  <2>1. SUFFICES ASSUME n + 1 \in 0..Len(s) PROVE f[n + 1] = g[n + 1]
    OBVIOUS
  <2>2. /\ n \in 0..Len(s) /\ n + 1 # 0 /\ (n + 1) - 1 = n /\ n + 1 \in 1..Len(s)
        /\ n + 1 \in 0..Len(u)
    BY <1>0, <1>1, <2>1
  <2>3. f[n] = g[n]
    BY <1>4, <2>2
  <2>4. /\ f[n + 1] = IF u[n + 1] \in S THEN Append(f[n], u[n + 1]) ELSE f[n]
        /\ g[n + 1] = IF s[n + 1] \in S THEN Append(g[n], s[n + 1]) ELSE g[n]
    BY <1>2, <2>1, <2>2
  <2> QED
    BY <1>1, <2>2, <2>3, <2>4
<1> HIDE DEF M
<1>5. Nat \subseteq M
  BY <1>3, <1>4, SetInduction
<1> QED
  BY <1>5, <1>0 DEF M, f, g, u, Joined

LEMMA AppendJoined ==
    ASSUME NEW A, NEW a \in Seq(A), NEW b \in Seq(A), NEW x \in A
    PROVE  Append(Joined(a, b), x) = Joined(a, Append(b, x))
<1>1. Append(a \o b, x) \in Seq(A) /\ a \o Append(b, x) \in Seq(A)
  OBVIOUS
<1>2. Len(Append(a \o b, x)) = Len(a \o Append(b, x))
  OBVIOUS
<1>3. \A i \in 1..Len(Append(a \o b, x)) : Append(a \o b, x)[i] = (a \o Append(b, x))[i]
  OBVIOUS
<1>4. Append(a \o b, x) = a \o Append(b, x)
  BY <1>1, <1>2, <1>3, SeqEqual
<1> QED
  BY <1>4 DEF Joined

LEMMA ThoseJoined ==
    ASSUME NEW s, List(s), NEW t, List(t), NEW S
    PROVE  Those(Joined(s, t), S) = Joined(Those(s, S), Those(t, S))
<1> DEFINE u == Joined(s, t)
           f == Among(u, S)
           g == Among(t, S)
           before == Those(s, S)
           M == {n \in Nat : n \in 0..Len(t) => f[Len(s) + n] = Joined(before, g[n])}
<1>0. Len(s) \in Nat /\ Len(t) \in Nat
  BY DEF List
<1>1. /\ Len(u) = Len(s) + Len(t)
      /\ \A n \in 1..Len(t) : u[Len(s) + n] = t[n]
  BY <1>0 DEF List, Joined
<1>2. /\ f = [n \in 0..Len(u) |->
             IF n = 0 THEN <<>>
             ELSE IF u[n] \in S THEN Append(f[n - 1], u[n]) ELSE f[n - 1]]
      /\ g = [n \in 0..Len(t) |->
             IF n = 0 THEN <<>>
             ELSE IF t[n] \in S THEN Append(g[n - 1], t[n]) ELSE g[n - 1]]
  <2>1. Len(u) \in Nat
    BY <1>0, <1>1
  <2> HIDE DEF u
  <2> QED
    BY <1>0, <2>1, AmongUnfolds
<1>3. f[Len(s)] = before
  BY <1>0, AmongStart DEF Those
<1>4. /\ before \in Seq(SetOf(s))
      /\ \A n \in 0..Len(t) : g[n] \in Seq(SetOf(t))
      /\ \A n \in 1..Len(t) : t[n] \in SetOf(t)
  <2>1. before \in Seq(SetOf(s) \cap S)
    BY ThoseType
  <2>2. \A n \in 0..Len(t) : g[n] \in Seq(SetOf(t) \cap S)
    BY AmongType
  <2>3. \A n \in 1..Len(t) : t[n] \in SetOf(t)
    BY DEF List
  <2> HIDE DEF before, g
  <2> QED
    BY <2>1, <2>2, <2>3
<1> HIDE DEF f, g, u, before
<1>5. 0 \in M
  <2>1. g[0] = <<>>
    BY <1>0, <1>2
  <2> QED
    BY <1>0, <1>3, <1>4, <2>1 DEF Joined
<1>6. ASSUME NEW n \in Nat, n \in M PROVE n + 1 \in M
  <2>1. SUFFICES ASSUME n + 1 \in 0..Len(t)
                 PROVE  f[Len(s) + (n + 1)] = Joined(before, g[n + 1])
    OBVIOUS
  <2> DEFINE k == Len(s) + (n + 1)
  <2>2. /\ n \in 0..Len(t) /\ n + 1 # 0 /\ (n + 1) - 1 = n /\ n + 1 \in 1..Len(t)
        /\ k \in 0..Len(u) /\ k # 0 /\ k - 1 = Len(s) + n
    BY <1>0, <1>1, <2>1
  <2>3. f[k - 1] = Joined(before, g[n])
    BY <1>6, <2>2
  <2>4. u[k] = t[n + 1]
    BY <1>1, <2>2
  <2>5. f[k] = IF u[k] \in S THEN Append(f[k - 1], u[k]) ELSE f[k - 1]
    <3> HIDE DEF k
    <3> QED
      BY <1>2, <2>2
  <2>6. g[n + 1] = IF t[n + 1] \in S THEN Append(g[n], t[n + 1]) ELSE g[n]
    BY <1>2, <2>1, <2>2
  <2>7. Append(Joined(before, g[n]), t[n + 1]) = Joined(before, Append(g[n], t[n + 1]))
    <3> DEFINE A == SetOf(s) \cup SetOf(t)
               b == g[n]
               x == t[n + 1]
    <3>1. before \in Seq(A) /\ b \in Seq(A)
      BY <1>4, <2>2
    <3>2. x \in A
      BY <1>4, <2>2
    <3> HIDE DEF A, b, x
    <3>3. Append(Joined(before, b), x) = Joined(before, Append(b, x))
      BY <3>1, <3>2, AppendJoined
    <3> QED
      BY <3>3 DEF b, x
  <2> HIDE DEF k
  <2>8. f[k] = Joined(before, g[n + 1])
    BY <2>3, <2>4, <2>5, <2>6, <2>7
  <2> QED
    BY <2>8 DEF k
<1> HIDE DEF M
<1>7. Nat \subseteq M
  BY <1>5, <1>6, SetInduction
<1>8. \A n \in 0..Len(t) : f[Len(s) + n] = Joined(before, g[n])
  BY <1>7, <1>0 DEF M
<1>9. f[Len(u)] = Joined(before, g[Len(t)])
  BY <1>0, <1>1, <1>8
<1> QED
  BY <1>9 DEF f, g, before, u, Those

LEMMA ThoseOfOne ==
    ASSUME NEW x, NEW S
    PROVE  /\ List(<<x>>) /\ SetOf(<<x>>) = {x}
           /\ Those(<<x>>, S) = IF x \in S THEN <<x>> ELSE <<>>
<1> DEFINE s == <<x>>
           f == Among(s, S)
<1>1. Len(s) = 1 /\ s[1] = x /\ s \in Seq({x}) /\ DOMAIN s = 1..1
  OBVIOUS
<1> HIDE DEF s
<1>2. SetOf(s) = {x}
  BY <1>1 DEF SetOf
<1>3. Len(s) \in Nat
  BY <1>1
<1>4. f = [n \in 0..Len(s) |->
             IF n = 0 THEN <<>>
             ELSE IF s[n] \in S THEN Append(f[n - 1], s[n]) ELSE f[n - 1]]
  BY <1>3, AmongUnfolds
<1> HIDE DEF f
<1>5. f[0] = <<>>
  BY <1>1, <1>4
<1>6. f[1] = IF s[1] \in S THEN Append(f[0], s[1]) ELSE f[0]
  <2>1. 1 \in 0..Len(s) /\ 1 # 0 /\ 1 - 1 = 0
    BY <1>1
  <2> QED
    BY <1>4, <2>1
<1>7. Append(<<>>, x) = <<x>>
  OBVIOUS
<1>8. f[1] = IF x \in S THEN <<x>> ELSE <<>>
  BY <1>1, <1>5, <1>6, <1>7
<1>9. Those(s, S) = f[1]
  BY <1>1 DEF f, Those
<1>10. List(s)
  BY <1>1, <1>2 DEF List
<1>11. s = <<x>>
  BY DEF s
<1> HIDE DEF List, SetOf, Those
<1> QED
  BY <1>2, <1>8, <1>9, <1>10, <1>11

(* What is selected twice is what both tests allow.                        *)
LEMMA ThoseOfThose ==
    ASSUME NEW s, List(s), NEW S, NEW T
    PROVE  Those(Those(s, S), T) = Those(s, S \cap T)
<1> DEFINE f == Among(s, S)
           g == Among(s, S \cap T)
           M == {n \in Nat : n \in 0..Len(s) => Those(f[n], T) = g[n]}
<1>0. Len(s) \in Nat /\ \A n \in 1..Len(s) : s[n] \in SetOf(s)
  BY ListType DEF List
<1> DEFINE R == S \cap T
<1> HIDE DEF R
<1>a. g = Among(s, R)
  BY DEF R
<1>b. /\ f = [n \in 0..Len(s) |->
             IF n = 0 THEN <<>>
             ELSE IF s[n] \in S THEN Append(f[n - 1], s[n]) ELSE f[n - 1]]
      /\ g = [n \in 0..Len(s) |->
             IF n = 0 THEN <<>>
             ELSE IF s[n] \in R THEN Append(g[n - 1], s[n]) ELSE g[n - 1]]
  <2> HIDE DEF g
  <2> QED
    BY <1>0, <1>a, AmongUnfolds
<1>1. /\ f = [n \in 0..Len(s) |->
             IF n = 0 THEN <<>>
             ELSE IF s[n] \in S THEN Append(f[n - 1], s[n]) ELSE f[n - 1]]
      /\ g = [n \in 0..Len(s) |->
             IF n = 0 THEN <<>>
             ELSE IF s[n] \in S \cap T THEN Append(g[n - 1], s[n]) ELSE g[n - 1]]
  <2> HIDE DEF f, g
  <2> QED
    BY <1>b DEF R
<1>2. \A n \in 0..Len(s) : /\ f[n] \in Seq(SetOf(s) \cap S) /\ List(f[n])
                           /\ g[n] \in Seq(SetOf(s) \cap S \cap T)
  <2>1. \A n \in 0..Len(s) : f[n] \in Seq(SetOf(s) \cap S)
    BY AmongType
  <2>2. \A n \in 0..Len(s) : g[n] \in Seq(SetOf(s) \cap (S \cap T))
    BY AmongType
  <2>3. \A n \in 0..Len(s) : List(f[n])
    <3> TAKE n \in 0..Len(s)
    <3>1. f[n] \in Seq(SetOf(s) \cap S)
      BY <2>1
    <3> HIDE DEF f
    <3> QED
      BY <3>1, ListType
  <2>4. SetOf(s) \cap (S \cap T) = SetOf(s) \cap S \cap T
    OBVIOUS
  <2> HIDE DEF f, g, SetOf
  <2> QED
    BY <2>1, <2>2, <2>3, <2>4
<1> HIDE DEF f, g
<1>3. 0 \in M
  <2>1. f[0] = <<>> /\ g[0] = <<>>
    BY <1>0, <1>1
  <2>2. List(<<>>) /\ SetOf(<<>>) = {}
    BY DEF List, SetOf
  <2>3. Those(<<>>, T) = <<>>
    BY <2>2, NoneOfThose
  <2> QED
    BY <2>1, <2>3
<1>4. ASSUME NEW n \in Nat, n \in M PROVE n + 1 \in M
  <2>1. SUFFICES ASSUME n + 1 \in 0..Len(s) PROVE Those(f[n + 1], T) = g[n + 1]
    OBVIOUS
  <2>2. n \in 0..Len(s) /\ n + 1 # 0 /\ (n + 1) - 1 = n /\ n + 1 \in 1..Len(s)
    BY <1>0, <2>1
  <2>3. Those(f[n], T) = g[n]
    BY <1>4, <2>2
  <2>4. /\ f[n + 1] = IF s[n + 1] \in S THEN Append(f[n], s[n + 1]) ELSE f[n]
        /\ g[n + 1] = IF s[n + 1] \in S \cap T THEN Append(g[n], s[n + 1]) ELSE g[n]
    BY <1>1, <2>1, <2>2
  <2>5. CASE s[n + 1] \notin S
    BY <2>3, <2>4, <2>5
  <2>6. CASE s[n + 1] \in S
    <3> DEFINE x == s[n + 1]
    <3> HIDE DEF x
    <3>1. f[n + 1] = Joined(f[n], <<x>>)
      <4>1. f[n] \in Seq(SetOf(s)) /\ x \in SetOf(s)
        BY <1>0, <1>2, <2>2 DEF x
      <4>2. f[n + 1] = Append(f[n], x)
        BY <2>4, <2>6 DEF x
      <4> QED
        BY ONLY <4>1, <4>2 DEF Joined
    <3>2. List(f[n]) /\ List(<<x>>)
      BY <1>2, <2>2, ThoseOfOne
    <3> HIDE DEF Those, List
    <3>3. Those(f[n + 1], T) = Joined(g[n], Those(<<x>>, T))
      BY <3>1, <3>2, <2>3, ThoseJoined
    <3>4. Those(<<x>>, T) = IF x \in T THEN <<x>> ELSE <<>>
      BY ThoseOfOne
    <3>5. g[n] \in Seq(SetOf(s)) /\ x \in SetOf(s)
      BY <1>0, <1>2, <2>2 DEF x
    <3>6. Joined(g[n], <<>>) = g[n] /\ Joined(g[n], <<x>>) = Append(g[n], x)
      BY ONLY <3>5 DEF Joined
    <3>7. g[n + 1] = IF x \in T THEN Append(g[n], x) ELSE g[n]
      BY <2>4, <2>6 DEF x
    <3> QED
      BY <3>3, <3>4, <3>6, <3>7
  <2> QED
    BY <2>5, <2>6
<1> HIDE DEF M
<1>5. Nat \subseteq M
  BY <1>3, <1>4, SetInduction
<1>6. Those(f[Len(s)], T) = g[Len(s)]
  BY <1>5, <1>0 DEF M
<1>7. Those(s, S) = f[Len(s)] /\ Those(s, S \cap T) = g[Len(s)]
  BY DEF f, g, Those
<1> QED
  BY <1>6, <1>7

-----------------------------------------------------------------------------
(* Options of a class: get_options_of_type()                               *)

InterfaceId == "InterfaceIdOption"
InterfaceIds(options) == OfType(options, InterfaceId)
IsA(options, class) == {o \in SetOf(options) : class \in Lineage(o.class)}

LEMMA OfTypeThose ==
    ASSUME NEW options, NEW class
    PROVE  /\ OfType(options, class) = Those(options, IsA(options, class))
           /\ NotOfType(options, class)
                = Those(options, {o \in SetOf(options) : class \notin Lineage(o.class)})
BY DEF OfType, NotOfType, IsA

(* Nothing is derived from InterfaceIdOption.                              *)
LEMMA OnlyInterfaceIds ==
    ASSUME NEW class
    PROVE  InterfaceId \in Lineage(class) <=> class = InterfaceId
<1>1. InterfaceId \notin BaseClasses(class)
  BY DEF InterfaceId, BaseClasses
<1> QED
  BY <1>1 DEF Lineage

LEMMA InterfaceIdIsOption ==
    ASSUME NEW class
    PROVE  class \in Lineage(InterfaceId) <=> class \in {InterfaceId, "Option"}
<1>1. BaseClasses(InterfaceId) = {"Option"}
  BY DEF InterfaceId, BaseClasses, RelayMessages, ClientServerMessages,
         S46Containers, Assigning, Configuring
<1> QED
  BY <1>1 DEF Lineage

(* Copying a class of options to a relay-reply replaces its interface-ids  *)
(* by those of the relay-forward if it is that class, and keeps them if it *)
(* is another one.                                                         *)
Copied(from, to, class) ==
    Joined(OfType(from, class), NotOfType(to, class))

LEMMA CopiedType ==
    ASSUME NEW from, List(from), NEW to, List(to), NEW class
    PROVE  /\ List(OfType(from, class)) /\ List(NotOfType(to, class))
           /\ List(Copied(from, to, class))
<1>1. List(OfType(from, class)) /\ List(NotOfType(to, class))
  <2> DEFINE S == IsA(from, class)
             T == {o \in SetOf(to) : class \notin Lineage(o.class)}
  <2>1. OfType(from, class) = Those(from, S) /\ NotOfType(to, class) = Those(to, T)
    BY OfTypeThose
  <2> HIDE DEF S, T
  <2>2. List(Those(from, S)) /\ List(Those(to, T))
    BY ThoseType
  <2> QED
    BY <2>1, <2>2
<1> QED
  BY <1>1, JoinedLists DEF Copied

LEMMA InterfaceIdsOfJoined ==
    ASSUME NEW s, List(s), NEW t, List(t)
    PROVE  InterfaceIds(Joined(s, t)) = Joined(InterfaceIds(s), InterfaceIds(t))
<1> DEFINE S == IsA(Joined(s, t), InterfaceId)
<1>0. SetOf(Joined(s, t)) = SetOf(s) \cup SetOf(t)
  BY JoinedLists
<1>1. /\ SetOf(s) \cap S = SetOf(s) \cap IsA(s, InterfaceId)
      /\ SetOf(t) \cap S = SetOf(t) \cap IsA(t, InterfaceId)
  BY <1>0 DEF IsA
<1> HIDE DEF S
<1>2. Those(s, S) = InterfaceIds(s) /\ Those(t, S) = InterfaceIds(t)
  <2> DEFINE A == IsA(s, InterfaceId)
             B == IsA(t, InterfaceId)
  <2>1. InterfaceIds(s) = Those(s, A) /\ InterfaceIds(t) = Those(t, B)
    BY OfTypeThose DEF InterfaceIds
  <2>2. SetOf(s) \cap S = SetOf(s) \cap A /\ SetOf(t) \cap S = SetOf(t) \cap B
    BY <1>1
  <2> HIDE DEF A, B
  <2>3. Those(s, S) = Those(s, A) /\ Those(t, S) = Those(t, B)
    BY <2>2, SameThose
  <2> QED
    BY <2>1, <2>3
<1>3. InterfaceIds(Joined(s, t)) = Those(Joined(s, t), S)
  BY OfTypeThose DEF InterfaceIds, S
<1> QED
  BY <1>2, <1>3, ThoseJoined

(* What a selection leaves of the interface-ids: all or none.              *)
LEMMA InterfaceIdsOfThose ==
    ASSUME NEW s, List(s), NEW S
    PROVE  /\ IsA(s, InterfaceId) \subseteq S => InterfaceIds(Those(s, S)) = InterfaceIds(s)
           /\ IsA(s, InterfaceId) \cap S = {} => InterfaceIds(Those(s, S)) = <<>>
<1> DEFINE t == Those(s, S)
           I == IsA(s, InterfaceId)
<1>1. List(t) /\ SetOf(t) \subseteq SetOf(s) \cap S
  BY ThoseType
<1>2. IsA(t, InterfaceId) = SetOf(t) \cap I
  BY <1>1 DEF IsA
<1>3. SetOf(t) \cap IsA(t, InterfaceId) = SetOf(t) \cap I
  BY <1>2
<1>4. InterfaceIds(t) = Those(t, I)
  <2>1. InterfaceIds(t) = Those(t, IsA(t, InterfaceId))
    BY OfTypeThose DEF InterfaceIds
  <2> HIDE DEF t, I
  <2> QED
    BY <1>1, <1>3, <2>1, SameThose
<1>5. Those(t, I) = Those(s, S \cap I)
  BY ThoseOfThose
<1>6. ASSUME I \subseteq S PROVE InterfaceIds(t) = InterfaceIds(s)
  <2>1. S \cap I = I
    BY <1>6
  <2>2. InterfaceIds(s) = Those(s, I)
    BY OfTypeThose DEF InterfaceIds
  <2> HIDE DEF t, I
  <2> QED
    BY <1>4, <1>5, <2>1, <2>2
<1>7. ASSUME I \cap S = {} PROVE InterfaceIds(t) = <<>>
  <2>1. SetOf(s) \cap (S \cap I) = {}
    BY <1>7
  <2>2. Those(s, S \cap I) = <<>>
    BY <2>1, NoneOfThose
  <2> HIDE DEF t, I
  <2> QED
    BY <1>4, <1>5, <2>2
<1> QED
  BY <1>6, <1>7

LEMMA CopiedInterfaceIds ==
    ASSUME NEW from, List(from), NEW to, List(to), NEW class
    PROVE  /\ class = InterfaceId
                 => InterfaceIds(Copied(from, to, class)) = InterfaceIds(from)
           /\ class \notin {InterfaceId, "Option"}
                 => InterfaceIds(Copied(from, to, class)) = InterfaceIds(to)
<1> DEFINE copied == OfType(from, class)
           kept == NotOfType(to, class)
           K == {o \in SetOf(to) : class \notin Lineage(o.class)}
<1>1. List(copied) /\ List(kept)
  BY CopiedType
<1>2. InterfaceIds(Copied(from, to, class)) = Joined(InterfaceIds(copied), InterfaceIds(kept))
  BY <1>1, InterfaceIdsOfJoined DEF Copied
<1>3. /\ IsA(from, InterfaceId) = {o \in SetOf(from) : o.class = InterfaceId}
      /\ IsA(to, InterfaceId) = {o \in SetOf(to) : o.class = InterfaceId}
  BY OnlyInterfaceIds DEF IsA
<1>4. copied = Those(from, IsA(from, class)) /\ kept = Those(to, K)
  BY OfTypeThose
<1>5. /\ InterfaceIds(from) \in Seq(SetOf(from)) /\ InterfaceIds(to) \in Seq(SetOf(to))
  <2>1. \A s, S : List(s) => Those(s, S) \in Seq(SetOf(s) \cap S)
    BY ThoseType
  <2>2. \A s, S : List(s) => Those(s, S) \in Seq(SetOf(s))
    <3> TAKE s, S
    <3> HAVE List(s)
    <3>1. Those(s, S) \in Seq(SetOf(s) \cap S)
      BY <2>1
    <3> HIDE DEF Those, SetOf
    <3> QED
      BY <3>1
  <2> QED
    BY <2>2, OfTypeThose DEF InterfaceIds
<1>6. ASSUME class = InterfaceId
      PROVE  InterfaceIds(copied) = InterfaceIds(from) /\ InterfaceIds(kept) = <<>>
  <2>1. IsA(from, InterfaceId) \subseteq IsA(from, class)
    BY <1>6
  <2>2. IsA(to, InterfaceId) \cap K = {}
    BY <1>6 DEF IsA
  <2> HIDE DEF K, IsA
  <2> QED
    BY <2>1, <2>2, <1>4, InterfaceIdsOfThose
<1>7. ASSUME class \notin {InterfaceId, "Option"}
      PROVE  InterfaceIds(copied) = <<>> /\ InterfaceIds(kept) = InterfaceIds(to)
  <2>0. class \notin Lineage(InterfaceId)
    BY <1>7, InterfaceIdIsOption
  <2>1. IsA(from, InterfaceId) \cap IsA(from, class) = {}
    BY <1>3, <2>0 DEF IsA
  <2>2. IsA(to, InterfaceId) \subseteq K
    BY <1>3, <2>0
  <2> HIDE DEF K, IsA
  <2> QED
    BY <2>1, <2>2, <1>4, InterfaceIdsOfThose
<1>8. /\ Joined(InterfaceIds(from), <<>>) = InterfaceIds(from)
      /\ Joined(<<>>, InterfaceIds(to)) = InterfaceIds(to)
  BY ONLY <1>5 DEF Joined
<1> QED
  BY <1>2, <1>6, <1>7, <1>8

-----------------------------------------------------------------------------
(* The chain of handlers                                                   *)

(* The handlers of the server's own, and those that are configured.        *)
LEMMA ChainIs ==
    ASSUME handlers \in Handlers
    PROVE  /\ Len(handlers) \in Nat /\ Len(Chain) = Len(handlers) + 5
           /\ Chain[1] = [kind |-> "RapidCommit"]
           /\ Chain[2] = [kind |-> "Overwrite", option |-> Option("ServerIdOption", OurId),
                          always |-> TRUE]
           /\ Chain[3] = [kind |-> "Copy", class |-> "ClientIdOption", always |-> TRUE]
           /\ Chain[4] = [kind |-> "CopyRelay", class |-> InterfaceId]
           /\ \A n \in 5..Len(handlers) + 4 : Chain[n] \in SetOf(handlers)
           /\ Chain[Len(handlers) + 5] = [kind |-> "AddMissingStatus"]
<1> DEFINE H == SetOf(handlers)
           h1 == [kind |-> "RapidCommit"]
           h2 == [kind |-> "Overwrite", option |-> Option("ServerIdOption", OurId),
                  always |-> TRUE]
           h3 == [kind |-> "Copy", class |-> "ClientIdOption", always |-> TRUE]
           h4 == [kind |-> "CopyRelay", class |-> "InterfaceIdOption"]
           first == <<h1, h2, h3, h4>>
           last == [kind |-> "AddMissingStatus"]
           chain == Chain
           A == {h1, h2, h3, h4, last} \cup H
           start == first \o handlers
<1>1. chain = start \o <<last>>
  BY DEF Chain
<1>2. handlers \in Seq(H)
  BY AnswersAssumption DEF SetOf
<1>3. Len(handlers) \in Nat /\ \A i \in 1..Len(handlers) : handlers[i] \in H
  <2> HIDE DEF H
  <2> QED
    BY <1>2
<1> HIDE DEF H, h1, h2, h3, h4, last, chain
<1>4. first \in Seq(A) /\ handlers \in Seq(A) /\ <<last>> \in Seq(A)
  BY <1>2
<1>5. Len(first) = 4 /\ first[1] = h1 /\ first[2] = h2 /\ first[3] = h3 /\ first[4] = h4
  OBVIOUS
<1> HIDE DEF first, A, start
<1>6. /\ start \in Seq(A) /\ Len(start) = Len(handlers) + 4
      /\ \A n \in 1..4 : start[n] = first[n]
      /\ \A n \in 5..Len(handlers) + 4 : start[n] = handlers[n - 4]
  <2>1. /\ start \in Seq(A) /\ Len(start) = Len(first) + Len(handlers)
        /\ \A n \in 1..Len(first) + Len(handlers) :
              start[n] = IF n <= Len(first) THEN first[n] ELSE handlers[n - Len(first)]
    BY ONLY <1>4 DEF start
  <2>2. Len(first) = 4
    BY <1>5
  <2> QED
    BY ONLY <2>1, <2>2, <1>3
<1>7. /\ Len(chain) = Len(handlers) + 5
      /\ \A n \in 1..Len(handlers) + 4 : chain[n] = start[n]
      /\ chain[Len(handlers) + 5] = last
  BY <1>1, <1>3, <1>4, <1>6
<1>8. \A n \in 1..4 : n \in 1..Len(handlers) + 4
  BY <1>3
<1>9. chain[1] = h1 /\ chain[2] = h2 /\ chain[3] = h3 /\ chain[4] = h4
  BY <1>5, <1>6, <1>7, <1>8
<1>10. \A n \in 5..Len(handlers) + 4 : chain[n] \in H
  <2> TAKE n \in 5..Len(handlers) + 4
  <2>1. n \in 1..Len(handlers) + 4 /\ n - 4 \in 1..Len(handlers)
    BY <1>3
  <2> QED
    BY <1>3, <1>6, <1>7, <2>1
<1> QED
  BY <1>3, <1>7, <1>9, <1>10 DEF chain, h1, h2, h3, h4, last, H, InterfaceId

(* What kinds they are of: the interface-ids are copied by the fourth, and *)
(* only configured ones add options of their own or answer leasequeries.   *)
LEMMA ChainOfHandlers ==
    ASSUME handlers \in Handlers
    PROVE  /\ Len(Chain) \in Nat /\ Len(Chain) >= 5
           /\ Chain[4].kind = "CopyRelay" /\ Chain[4].class = InterfaceId
           /\ \A n \in 1..Len(Chain) :
                 /\ Chain[n].kind = "Leasequery" => n > 4
                 /\ n # 4 /\ Chain[n].kind = "CopyRelay"
                       => n > 4 /\ Chain[n].class # "RelayMessageOption"
                 /\ n \notin {2, 3} /\ Chain[n].kind \in {"Simple", "Overwrite", "Copy"}
                       => /\ n > 4 /\ Chain[n].kind # "Copy"
                          /\ Chain[n].option.class \notin {"ClientDataOption", "LQClientLink"}
<1> DEFINE chain == Chain
           m == Len(handlers)
<1>1. \A h \in SetOf(handlers) :
         \/ /\ h.kind \in {"Simple", "Overwrite"}
            /\ h.option.class \notin {"ClientDataOption", "LQClientLink"}
         \/ h.kind = "CopyRelay" /\ h.class # "RelayMessageOption"
         \/ h.kind = "Leasequery"
  BY AnswersAssumption
<1>2. /\ m \in Nat /\ Len(chain) = m + 5
      /\ chain[1].kind = "RapidCommit" /\ chain[4].kind = "CopyRelay"
      /\ chain[4].class = InterfaceId /\ chain[m + 5].kind = "AddMissingStatus"
      /\ chain[2].kind = "Overwrite" /\ chain[3].kind = "Copy"
      /\ \A n \in 5..m + 4 : chain[n] \in SetOf(handlers)
  BY ChainIs
<1> HIDE DEF chain, m, SetOf
<1>3. ASSUME NEW n \in 1..Len(chain)
      PROVE  /\ chain[n].kind = "Leasequery" => n > 4
             /\ n # 4 /\ chain[n].kind = "CopyRelay"
                   => n > 4 /\ chain[n].class # "RelayMessageOption"
             /\ n \notin {2, 3} /\ chain[n].kind \in {"Simple", "Overwrite", "Copy"}
                   => /\ n > 4 /\ chain[n].kind # "Copy"
                      /\ chain[n].option.class \notin {"ClientDataOption", "LQClientLink"}
  <2>1. \/ n = 1 \/ n = 2 \/ n = 3 \/ n = 4 \/ n = m + 5
        \/ n \in 5..m + 4
    BY <1>2
  <2>2. CASE n \in 5..m + 4
    <3>1. n > 4 /\ chain[n] \in SetOf(handlers)
      BY <1>2, <2>2
    <3> QED
      BY <1>1, <3>1
  <2>3. CASE n = 1 \/ n = 2 \/ n = 3 \/ n = 4 \/ n = m + 5
    BY <1>2, <2>3
  <2> QED
    BY <2>1, <2>2, <2>3
<1>4. Len(chain) \in Nat /\ Len(chain) >= 5
  BY <1>2
<1> QED
  BY <1>2, <1>3, <1>4 DEF chain

-----------------------------------------------------------------------------
(* The relays that a response goes back through                            *)

Mirrored ==
    /\ List(outgoing) /\ Len(outgoing) = Len(incoming)
    /\ \A i \in 1..Len(incoming) :
          /\ outgoing[i] = [hop |-> incoming[i].hop, link |-> incoming[i].link,
                            peer |-> incoming[i].peer, options |-> outgoing[i].options]
          /\ List(outgoing[i].options)

Echoed ==
    \A i \in 1..Len(incoming) :
       InterfaceIds(outgoing[i].options) = InterfaceIds(incoming[i].options)

UnderWay ==
    \/ stage \in {"pre", "init", "handle", "post"}
    \/ stage = "send" /\ response # NoMessage

MirrorInv ==
    /\ handlers \in Handlers
    /\ stage \in {"idle", "pre", "init", "handle", "post", "send", "sent"}
    /\ stage = "idle" => response = NoMessage
    /\ UnderWay => packet \in Packets /\ incoming = Chained(packet)
    /\ stage \in {"pre", "init"} => ~refused /\ outgoing = <<>>
    /\ stage \in {"handle", "post"} => ~refused /\ Mirrored
    /\ stage = "handle" => next \in 1..Len(Chain)
    /\ stage = "post" \/ (stage = "handle" /\ next > 4) => Echoed
    /\ stage = "send" /\ response # NoMessage =>
          \/ refused /\ outgoing = <<>>
          \/ ~refused /\ Mirrored /\ Echoed
    /\ RelayRepliesMirror
    /\ stage = "sent" =>
          sent = [relays |-> sent.relays, message |-> sent.message,
                  address |-> sent.address, port |-> sent.port,
                  interface |-> sent.interface]

LEMMA MappedList ==
    ASSUME NEW s, List(s), NEW t, DOMAIN t = DOMAIN s, t = [i \in DOMAIN t |-> t[i]]
    PROVE  List(t) /\ Len(t) = Len(s)
<1>1. Len(s) \in Nat /\ DOMAIN s = 1..Len(s)
  BY DEF List
<1>2. \A i \in 1..Len(s) : t[i] \in SetOf(t)
  BY <1>1 DEF SetOf
<1> HIDE DEF SetOf
<1>3. t \in Seq(SetOf(t)) /\ Len(t) = Len(s)
  BY <1>1, <1>2
<1> QED
  BY <1>3 DEF List

(* What relays put around a request, and the relay-forward around that.    *)
LEMMA ChainedType ==
    ASSUME NEW p \in Packets
    PROVE  /\ List(p.relays) /\ List(Chained(p))
           /\ Len(Chained(p)) = Len(p.relays) + 1
           /\ DOMAIN p.relays = 1..Len(p.relays) /\ Len(p.relays) \in Nat
           /\ \A i \in 1..Len(p.relays) : Chained(p)[i] = p.relays[i]
           /\ Chained(p)[Len(p.relays) + 1] = OwnRelay(p)
           /\ \A i \in 1..Len(p.relays) + 1 : List(Chained(p)[i].options)
<1> DEFINE r == p.relays
           own == OwnRelay(p)
           A == SetOf(r) \cup {own}
<1>1. r \in RelayChains
  BY DEF Packets
<1>2. r \in Seq(SetOf(r)) /\ \A relay \in SetOf(r) : relay.options \in Seq(SetOf(relay.options))
  BY <1>1, AnswersAssumption DEF SetOf
<1>3. own.options = <<Option("InterfaceIdOption", p.way.interface)>>
  BY DEF OwnRelay
<1>4. List(own.options)
  BY <1>3, ThoseOfOne
<1>5. Chained(p) = Append(r, own)
  BY DEF Chained
<1> HIDE DEF r, own, SetOf
<1>6. /\ Len(r) \in Nat /\ DOMAIN r = 1..Len(r)
      /\ \A i \in 1..Len(r) : r[i] \in SetOf(r)
  BY <1>2
<1>7. r \in Seq(A) /\ own \in A
  BY <1>2
<1> HIDE DEF A
<1>8. /\ Append(r, own) \in Seq(A) /\ Len(Append(r, own)) = Len(r) + 1
      /\ \A i \in 1..Len(r) : Append(r, own)[i] = r[i]
      /\ Append(r, own)[Len(r) + 1] = own
  BY <1>6, <1>7
<1>9. List(Append(r, own))
  BY <1>8, ListType
<1>10. ASSUME NEW i \in 1..Len(r) + 1 PROVE List(Append(r, own)[i].options)
  <2>1. i \in 1..Len(r) \/ i = Len(r) + 1
    BY <1>6
  <2>2. CASE i \in 1..Len(r)
    BY <1>2, <1>6, <1>8, <2>2 DEF List
  <2>3. CASE i = Len(r) + 1
    BY <1>4, <1>8, <2>3
  <2> QED
    BY <2>1, <2>2, <2>3
<1> QED
  BY <1>2, <1>5, <1>6, <1>8, <1>9, <1>10 DEF r, own, List

(* create_outgoing_relay_messages()                                        *)
LEMMA RelayRepliesType ==
    ASSUME NEW s, List(s)
    PROVE  LET t == RelayReplies(s)
           IN  /\ List(t) /\ Len(t) = Len(s)
               /\ \A i \in 1..Len(s) :
                     /\ t[i] = [hop |-> s[i].hop, link |-> s[i].link, peer |-> s[i].peer,
                                options |-> t[i].options]
                     /\ List(t[i].options)
<1> DEFINE t == RelayReplies(s)
           o == Option("RelayMessageOption", NoValue)
<1>1. Len(s) \in Nat /\ DOMAIN s = 1..Len(s)
  BY DEF List
<1>2. t = [i \in DOMAIN s |-> [hop |-> s[i].hop, link |-> s[i].link, peer |-> s[i].peer,
                               options |-> <<o>>]]
  BY DEF RelayReplies, RelayReply
<1> HIDE DEF t
<1>3. List(t) /\ Len(t) = Len(s)
  <2>1. DOMAIN t = DOMAIN s /\ t = [i \in DOMAIN t |-> t[i]]
    BY <1>2
  <2> QED
    BY <2>1, MappedList
<1>4. List(<<o>>)
  BY ThoseOfOne
<1>5. \A i \in 1..Len(s) :
         t[i] = [hop |-> s[i].hop, link |-> s[i].link, peer |-> s[i].peer,
                 options |-> <<o>>]
  BY <1>1, <1>2
<1> HIDE DEF o
<1>6. \A i \in 1..Len(s) : t[i].options = <<o>>
  <2> TAKE i \in 1..Len(s)
  <2> DEFINE hop == s[i].hop
             link == s[i].link
             peer == s[i].peer
  <2>1. t[i] = [hop |-> hop, link |-> link, peer |-> peer, options |-> <<o>>]
    BY <1>5
  <2> HIDE DEF hop, link, peer
  <2> QED
    BY ONLY <2>1
<1>7. /\ List(t) /\ Len(t) = Len(s)
      /\ \A i \in 1..Len(s) :
            /\ t[i] = [hop |-> s[i].hop, link |-> s[i].link, peer |-> s[i].peer,
                       options |-> t[i].options]
            /\ List(t[i].options)
  BY <1>3, <1>4, <1>5, <1>6
<1> QED
  BY <1>7 DEF t, o

-----------------------------------------------------------------------------
(* Each step keeps the relays                                              *)

LEMMA MirrorReceived ==
    ASSUME MirrorInv, ReceiveRequest \/ ReceiveOther
    PROVE  MirrorInv'
<1>1. stage' # "sent" => RelayRepliesMirror'
  BY DEF RelayRepliesMirror
<1>2. CASE ReceiveRequest
  BY <1>1, <1>2 DEF MirrorInv, UnderWay, ReceiveRequest, Chained
<1>3. CASE ReceiveOther
  BY <1>1, <1>3 DEF MirrorInv, UnderWay, ReceiveOther, bundle
<1> QED
  BY <1>2, <1>3

(* An exception in a handler, or the end of the answer.                    *)
LEMMA MirrorAbandoned ==
    ASSUME MirrorInv, Abandon
    PROVE  MirrorInv'
<1>1. stage' # "sent" => RelayRepliesMirror'
  BY DEF RelayRepliesMirror
<1> QED
  BY <1>1 DEF MirrorInv, UnderWay, Abandon

LEMMA MirrorRefused ==
    ASSUME MirrorInv,
           Pre \/ Ignore \/ RefuseUnicast \/ RefuseLeasequery
    PROVE  MirrorInv'
<1>1. stage' # "sent" => RelayRepliesMirror'
  BY DEF RelayRepliesMirror
<1>2. CASE Pre
  BY <1>1, <1>2 DEF MirrorInv, UnderWay, Pre, bundle, Chained,
                    OwnRelay
<1>3. CASE Ignore
  BY <1>1, <1>3 DEF MirrorInv, UnderWay, Ignore, StopWith
<1>4. CASE RefuseUnicast \/ RefuseLeasequery
  <2>1. PICK message : /\ stage = "pre" /\ StopWith(message) /\ refused' = TRUE
    BY <1>4 DEF RefuseUnicast, RefuseLeasequery
  <2> QED
    BY <1>1, <2>1 DEF MirrorInv, UnderWay, StopWith
<1> QED
  BY <1>2, <1>3, <1>4

LEMMA MirrorBegun ==
    ASSUME MirrorInv, InitResponse
    PROVE  MirrorInv'
<1>1. stage' # "sent" => RelayRepliesMirror'
  BY DEF RelayRepliesMirror
<1>2. CASE StopWith(NoMessage) /\ UNCHANGED refused
  BY <1>1, <1>2 DEF MirrorInv, UnderWay, StopWith
<1>3. CASE /\ stage = "init" /\ stage' = "handle" /\ next' = 1
           /\ outgoing' = RelayReplies(incoming)
           /\ UNCHANGED <<handlers, packet, request, incoming, refused>>
  <2>1. packet \in Packets /\ incoming = Chained(packet) /\ ~refused
    BY <1>3 DEF MirrorInv, UnderWay
  <2>2. List(incoming)
    BY <2>1, ChainedType
  <2>3. Mirrored'
    <3> DEFINE t == RelayReplies(incoming)
    <3>1. /\ List(t) /\ Len(t) = Len(incoming)
          /\ \A i \in 1..Len(incoming) :
                /\ t[i] = [hop |-> incoming[i].hop, link |-> incoming[i].link,
                           peer |-> incoming[i].peer, options |-> t[i].options]
                /\ List(t[i].options)
      BY <2>2, RelayRepliesType
    <3>2. outgoing' = t /\ incoming' = incoming
      BY <1>3
    <3> HIDE DEF t
    <3> QED
      BY <3>1, <3>2 DEF Mirrored
  <2>4. Chain' = Chain /\ 1 \in 1..Len(Chain)
    <3>1. handlers \in Handlers /\ handlers' = handlers
      BY <1>3 DEF MirrorInv
    <3>2. Len(Chain) \in Nat /\ Len(Chain) >= 5
      BY <3>1, ChainOfHandlers
    <3>3. Chain' = Chain
      BY <3>1 DEF Chain
    <3> QED
      BY <3>2, <3>3
  <2> QED
    BY <1>1, <1>3, <2>1, <2>3, <2>4 DEF MirrorInv, UnderWay, Chained
<1> QED
  BY <1>2, <1>3 DEF InitResponse

(* A handler other than the fourth keeps what it finds.                    *)
LEMMA MirrorKept ==
    ASSUME MirrorInv, stage = "handle", Proceed,
           Mirrored', next > 4 => Echoed', next = 4 => Echoed'
    PROVE  MirrorInv'
<1>1. stage' # "sent" => RelayRepliesMirror'
  BY DEF RelayRepliesMirror
<1>2. /\ handlers \in Handlers /\ next \in 1..Len(Chain) /\ ~refused
      /\ packet \in Packets /\ incoming = Chained(packet)
  BY DEF MirrorInv, UnderWay
<1>3. Len(Chain) \in Nat /\ Len(Chain) >= 5
  BY <1>2, ChainOfHandlers
<1>4. UNCHANGED <<handlers, packet, incoming, refused>>
  BY DEF Proceed
<1>5. Chain' = Chain /\ Chained(packet)' = Chained(packet)
  BY <1>4 DEF Chain, Chained, OwnRelay
<1>6. CASE next = Len(Chain) /\ stage' = "post"
  <2>1. Echoed'
    BY <1>3, <1>6
  <2> QED
    BY <1>1, <1>2, <1>4, <1>5, <1>6, <2>1 DEF MirrorInv, UnderWay, Chained
<1>7. CASE next # Len(Chain) /\ next' = next + 1 /\ stage' = stage
  <2>1. next' \in 1..Len(Chain) /\ (next' > 4 => Echoed')
    BY <1>2, <1>3, <1>7
  <2> QED
    BY <1>1, <1>2, <1>4, <1>5, <1>7, <2>1 DEF MirrorInv, UnderWay, Chained
<1> QED
  BY <1>6, <1>7 DEF Proceed

LEMMA MirrorPassed ==
    ASSUME MirrorInv, stage = "handle", Proceed,
           UNCHANGED outgoing, Chain[next].kind # "CopyRelay"
    PROVE  MirrorInv'
<1>1. UNCHANGED incoming
  BY DEF Proceed
<1>2. Mirrored /\ (next > 4 => Echoed) /\ handlers \in Handlers
  BY DEF MirrorInv
<1>3. next # 4
  BY <1>2, ChainOfHandlers
<1>4. Mirrored' /\ (next > 4 => Echoed')
  BY <1>1, <1>2 DEF Mirrored, Echoed
<1> QED
  BY <1>3, <1>4, MirrorKept

(* The tables let interface-ids go back, and not everything at once.       *)
LEMMA InterfaceIdsReturn ==
    MayHold("RelayReplyMessage", InterfaceId) /\ ~MayHold("RelayReplyMessage", "Option")
<1>1. "RelayReplyMessage" \in RelayMessages
  BY DEF RelayMessages
<1>2. MayHold("RelayReplyMessage", InterfaceId)
  BY <1>1, AnswerKeys, ElementOf DEF InterfaceId, Named, S46Containers
<1>3. "Option" \notin DOMAIN MayContain["RelayReplyMessage"]
  BY <1>1, RelayTable DEF ForRelays, Bases
<1> QED
  BY <1>1, <1>2, <1>3, ElementOf DEF Named, S46Containers

(* A handler that copies a class of relay options does so in every relay.  *)
LEMMA RelaysCopied ==
    ASSUME MirrorInv, CopyRelayOption, MayHold("RelayReplyMessage", Chain[next].class)
    PROVE  /\ List(outgoing') /\ Len(outgoing') = Len(incoming)
           /\ \A i \in 1..Len(incoming) :
                 /\ outgoing'[i] = [hop |-> incoming[i].hop, link |-> incoming[i].link,
                                    peer |-> incoming[i].peer, options |-> outgoing'[i].options]
                 /\ outgoing'[i].options
                      = Copied(incoming[i].options, outgoing[i].options, Chain[next].class)
<1> DEFINE class == Chain[next].class
<1>1. stage = "handle"
  BY DEF CopyRelayOption, At
<1>2. Mirrored
  BY <1>1 DEF MirrorInv
<1>3. DOMAIN outgoing = 1..Len(incoming)
  BY <1>2 DEF Mirrored, List
<1>4. outgoing' = [i \in DOMAIN outgoing |->
                     [outgoing[i] EXCEPT !.options =
                        Joined(OfType(incoming[i].options, class),
                               NotOfType(@, class))]]
  BY DEF CopyRelayOption, Handler, Joined
<1> HIDE DEF class
<1>5. \A i \in 1..Len(incoming) :
         outgoing'[i] = [hop |-> incoming[i].hop, link |-> incoming[i].link,
                         peer |-> incoming[i].peer,
                         options |-> Copied(incoming[i].options, outgoing[i].options, class)]
  <2> TAKE i \in 1..Len(incoming)
  <2> DEFINE hop == incoming[i].hop
             link == incoming[i].link
             peer == incoming[i].peer
             to == outgoing[i].options
             new(x) == Joined(OfType(incoming[i].options, class),
                              NotOfType(x, class))
  <2>1. outgoing[i] = [hop |-> hop, link |-> link, peer |-> peer, options |-> to]
    BY <1>2 DEF Mirrored
  <2>2. outgoing'[i] = [outgoing[i] EXCEPT !.options = new(outgoing[i].options)]
    BY <1>3, <1>4
  <2> HIDE DEF hop, link, peer, to, new
  <2>3. outgoing'[i] = [hop |-> hop, link |-> link, peer |-> peer, options |-> new(to)]
    BY ONLY <2>1, <2>2
  <2> QED
    BY <2>3 DEF hop, link, peer, to, new, Copied
<1>6. ASSUME NEW i \in 1..Len(incoming)
      PROVE  /\ outgoing'[i] = [hop |-> incoming[i].hop, link |-> incoming[i].link,
                                peer |-> incoming[i].peer, options |-> outgoing'[i].options]
             /\ outgoing'[i].options
                  = Copied(incoming[i].options, outgoing[i].options, class)
  <2> DEFINE hop == incoming[i].hop
             link == incoming[i].link
             peer == incoming[i].peer
             new == Copied(incoming[i].options, outgoing[i].options, class)
  <2>1. outgoing'[i] = [hop |-> hop, link |-> link, peer |-> peer, options |-> new]
    BY <1>5
  <2> HIDE DEF hop, link, peer, new
  <2>2. outgoing'[i].options = new
    BY ONLY <2>1
  <2> QED
    BY <2>1, <2>2 DEF hop, link, peer, new
<1>7. List(outgoing') /\ Len(outgoing') = Len(incoming)
  <2>1. List(outgoing) /\ Len(outgoing) = Len(incoming)
    BY <1>2 DEF Mirrored
  <2>2. DOMAIN outgoing' = DOMAIN outgoing
    BY <1>4
  <2>3. outgoing' = [i \in DOMAIN outgoing' |-> outgoing'[i]]
    BY <1>4
  <2> DEFINE new == outgoing'
  <2> HIDE DEF new
  <2>4. DOMAIN new = DOMAIN outgoing /\ new = [i \in DOMAIN new |-> new[i]]
    BY <2>2, <2>3 DEF new
  <2>5. List(new) /\ Len(new) = Len(outgoing)
    BY <2>1, <2>4, MappedList
  <2> QED
    BY <2>1, <2>5 DEF new
<1> QED
  BY <1>6, <1>7 DEF class

LEMMA MirrorCopied ==
    ASSUME MirrorInv, CopyRelayOption
    PROVE  MirrorInv'
<1> DEFINE class == Chain[next].class
<1>1. /\ stage = "handle" /\ Proceed
      /\ Chain[next].kind = "CopyRelay"
  BY DEF CopyRelayOption, At, Onward
<1>2. /\ Mirrored /\ (next > 4 => Echoed) /\ handlers \in Handlers
      /\ packet \in Packets /\ incoming = Chained(packet)
      /\ next \in 1..Len(Chain)
  BY <1>1 DEF MirrorInv, UnderWay
<1>3. UNCHANGED incoming
  BY <1>1 DEF Proceed
<1>4. /\ next = 4 => class = InterfaceId
      /\ next # 4 => next > 4
  BY <1>1, <1>2, ChainOfHandlers
<1>5. /\ DOMAIN outgoing = 1..Len(incoming) /\ Len(incoming) \in Nat
      /\ \A i \in 1..Len(incoming) : List(incoming[i].options)
  <2>1. Len(incoming) \in Nat /\ \A i \in 1..Len(incoming) : List(incoming[i].options)
    BY <1>2, ChainedType
  <2>2. DOMAIN outgoing = 1..Len(incoming)
    BY <1>2 DEF Mirrored, List
  <2> QED
    BY <2>1, <2>2
<1>6. CASE ~MayHold("RelayReplyMessage", class)
  <2>1. outgoing' = outgoing
    BY <1>6 DEF CopyRelayOption, Handler
  <2>2. next # 4
    BY <1>4, <1>6, InterfaceIdsReturn
  <2>3. Mirrored' /\ (next > 4 => Echoed')
    BY <1>2, <1>3, <2>1 DEF Mirrored, Echoed
  <2> QED
    BY <1>1, <2>2, <2>3, MirrorKept
<1>7. CASE MayHold("RelayReplyMessage", class)
  <2>1. /\ List(outgoing') /\ Len(outgoing') = Len(incoming)
        /\ \A i \in 1..Len(incoming) :
              /\ outgoing'[i] = [hop |-> incoming[i].hop, link |-> incoming[i].link,
                                 peer |-> incoming[i].peer, options |-> outgoing'[i].options]
              /\ outgoing'[i].options
                   = Copied(incoming[i].options, outgoing[i].options, class)
    BY <1>7, RelaysCopied
  <2>2. class # "Option"
    BY <1>7, InterfaceIdsReturn
  <2> HIDE DEF class
  <2>3. ASSUME NEW i \in 1..Len(incoming)
        PROVE  /\ List(outgoing'[i].options)
               /\ class = InterfaceId => InterfaceIds(outgoing'[i].options)
                                           = InterfaceIds(incoming[i].options)
               /\ next > 4
                     => InterfaceIds(outgoing'[i].options) = InterfaceIds(incoming[i].options)
    <3> DEFINE from == incoming[i].options
               to == outgoing[i].options
    <3>1. List(from) /\ List(to)
      BY <1>2, <1>5 DEF Mirrored
    <3>2. outgoing'[i].options = Copied(from, to, class)
      BY <2>1
    <3>3. next > 4 => InterfaceIds(to) = InterfaceIds(from)
      BY <1>2 DEF Echoed
    <3> HIDE DEF from, to
    <3>4. /\ List(Copied(from, to, class))
          /\ class = InterfaceId
                => InterfaceIds(Copied(from, to, class)) = InterfaceIds(from)
          /\ class \notin {InterfaceId, "Option"}
                => InterfaceIds(Copied(from, to, class)) = InterfaceIds(to)
      BY <3>1, CopiedType, CopiedInterfaceIds
    <3> QED
      BY <2>2, <3>2, <3>3, <3>4 DEF from
  <2>4. Mirrored'
    <3>1. List(outgoing)' <=> List(outgoing')
      BY DEF List, SetOf
    <3>2. \A i \in 1..Len(incoming) : List(outgoing[i].options)' <=> List(outgoing'[i].options)
      BY DEF List, SetOf
    <3> QED
      BY <1>3, <2>1, <2>3, <3>1, <3>2 DEF Mirrored
  <2>5. Echoed'
    <3>1. \A i \in 1..Len(incoming) :
             InterfaceIds(outgoing'[i].options) = InterfaceIds(incoming[i].options)
      BY <1>4, <2>3 DEF class
    <3> QED
      BY <1>3, <3>1 DEF Echoed
  <2> QED
    BY <1>1, <2>4, <2>5, MirrorKept
<1> QED
  BY <1>6, <1>7

LEMMA MirrorHandled ==
    ASSUME MirrorInv,
           \/ OverwriteOption \/ CopyOption \/ AddOption
           \/ FailToAddOption \/ CopyRelayOption
           \/ AddMissingStatus \/ NothingToHandle
    PROVE  MirrorInv'
<1>1. CASE FailToAddOption
  BY <1>1, MirrorAbandoned DEF FailToAddOption
<1>2. CASE CopyRelayOption
  BY <1>2, MirrorCopied
<1>3. CASE \/ OverwriteOption \/ CopyOption \/ AddOption
           \/ AddMissingStatus \/ NothingToHandle
  <2>1. \E kind \in {"Overwrite", "Copy", "Simple", "AddMissingStatus", "RapidCommit"} :
           At(kind)
    BY <1>3 DEF OverwriteOption, CopyOption, AddOption,
                AddMissingStatus, NothingToHandle
  <2>2. stage = "handle" /\ Chain[next].kind # "CopyRelay"
    BY <2>1 DEF At
  <2>3. Proceed /\ UNCHANGED outgoing
    BY <1>3 DEF OverwriteOption, CopyOption, AddOption,
                AddMissingStatus, NothingToHandle, Onward
  <2> QED
    BY <2>2, <2>3, MirrorPassed
<1> QED
  BY <1>1, <1>2, <1>3

LEMMA MirrorQueried ==
    ASSUME MirrorInv, AnswerLeasequery
    PROVE  MirrorInv'
<1>1. stage = "handle" /\ Chain[next].kind = "Leasequery"
  BY DEF AnswerLeasequery, At
<1>2. \/ Proceed /\ UNCHANGED outgoing
      \/ Abandon
      \/ /\ StopWith(StatusReply("LeasequeryReplyMessage"))
         /\ UNCHANGED refused
  BY DEF AnswerLeasequery, Onward
<1>3. CASE Proceed /\ UNCHANGED outgoing
  BY <1>1, <1>3, MirrorPassed
<1>4. CASE Abandon
  BY <1>4, MirrorAbandoned
<1>5. CASE /\ StopWith(StatusReply("LeasequeryReplyMessage"))
           /\ UNCHANGED refused
  <2>1. stage' # "sent" => RelayRepliesMirror'
    BY DEF RelayRepliesMirror
  <2>2. UNCHANGED <<next, handlers, packet, incoming, outgoing, refused>> /\ stage' = "send"
    BY <1>5 DEF StopWith
  <2>3. /\ handlers \in Handlers /\ ~refused /\ Mirrored
        /\ packet \in Packets /\ incoming = Chained(packet)
        /\ next \in 1..Len(Chain) /\ (next > 4 => Echoed)
    BY <1>1 DEF MirrorInv, UnderWay
  <2>4. Echoed
    BY <1>1, <2>3, ChainOfHandlers
  <2>5. Mirrored' /\ Echoed'
    BY <2>2, <2>3, <2>4 DEF Mirrored, Echoed
  <2>6. packet' \in Packets /\ incoming' = Chained(packet)'
    BY <2>2, <2>3 DEF Chained, OwnRelay
  <2> QED
    BY <2>1, <2>2, <2>3, <2>5, <2>6 DEF MirrorInv, UnderWay
<1> QED
  BY <1>2, <1>3, <1>4, <1>5

LEMMA MirrorPosted ==
    ASSUME MirrorInv, Post
    PROVE  MirrorInv'
<1>1. stage' # "sent" => RelayRepliesMirror'
  BY DEF RelayRepliesMirror
<1>2. UNCHANGED <<handlers, packet, incoming, outgoing, refused>> /\ stage' = "send"
  BY DEF Post
<1>3. /\ handlers \in Handlers /\ ~refused /\ Mirrored /\ Echoed
      /\ packet \in Packets /\ incoming = Chained(packet)
  BY DEF MirrorInv, UnderWay, Post
<1>4. Mirrored' /\ Echoed'
  BY <1>2, <1>3 DEF Mirrored, Echoed
<1>5. packet' \in Packets /\ incoming' = Chained(packet)'
  BY <1>2, <1>3 DEF Chained, OwnRelay
<1> QED
  BY <1>1, <1>2, <1>3, <1>4, <1>5 DEF MirrorInv, UnderWay

LEMMA MirrorSent ==
    ASSUME MirrorInv, Send
    PROVE  MirrorInv'
<1> DEFINE relays == IF outgoing = <<>> THEN RelayReplies(incoming) ELSE outgoing
           outer == relays[Len(relays)]
           interfaces == OfType(outer.options, "InterfaceIdOption")
           n == Len(packet.relays)
<1>1. /\ packet \in Packets /\ incoming = Chained(packet)
      /\ handlers \in Handlers
      /\ \/ refused /\ outgoing = <<>>
         \/ ~refused /\ Mirrored /\ Echoed
  BY DEF MirrorInv, UnderWay, Send
<1>2. /\ sent' = [relays |-> relays, message |-> response, address |-> outer.peer,
                  port |-> IF Len(relays) > 1 THEN ServerPort ELSE ClientPort,
                  interface |-> IF interfaces = <<>> THEN NoValue ELSE interfaces[1].value]
      /\ stage' = "sent" /\ UNCHANGED <<handlers, packet, incoming, refused>>
  BY DEF Send
<1> HIDE DEF relays
<1>3. /\ n \in Nat /\ Len(incoming) = n + 1 /\ List(incoming)
      /\ DOMAIN packet.relays = 1..n
      /\ \A i \in 1..n : incoming[i] = packet.relays[i]
      /\ incoming[n + 1] = OwnRelay(packet)
  BY <1>1, ChainedType
<1>4. /\ Len(relays) = n + 1
      /\ \A i \in 1..n + 1 :
            /\ relays[i] = [hop |-> incoming[i].hop, link |-> incoming[i].link,
                            peer |-> incoming[i].peer, options |-> relays[i].options]
            /\ refused \/ InterfaceIds(relays[i].options) = InterfaceIds(incoming[i].options)
  <2>1. CASE refused /\ outgoing = <<>>
    <3>1. relays = RelayReplies(incoming)
      BY <2>1 DEF relays
    <3> QED
      BY <1>3, <2>1, <3>1, RelayRepliesType
  <2>2. CASE ~refused /\ Mirrored /\ Echoed
    <3>1. Len(outgoing) = n + 1
      BY <1>3, <2>2 DEF Mirrored
    <3>2. outgoing # <<>>
      BY <1>3, <3>1
    <3>3. relays = outgoing
      BY <3>2 DEF relays
    <3> QED
      BY <1>3, <2>2, <3>1, <3>3 DEF Mirrored, Echoed
  <2> QED
    BY <1>1, <2>1, <2>2
<1>5. \A i \in 1..n + 1 : /\ relays[i].hop = incoming[i].hop
                          /\ relays[i].link = incoming[i].link
                          /\ relays[i].peer = incoming[i].peer
  <2> TAKE i \in 1..n + 1
  <2> DEFINE hop == incoming[i].hop
             link == incoming[i].link
             peer == incoming[i].peer
             options == relays[i].options
  <2>1. relays[i] = [hop |-> hop, link |-> link, peer |-> peer, options |-> options]
    BY <1>4
  <2> HIDE DEF hop, link, peer, options
  <2>2. relays[i].hop = hop /\ relays[i].link = link /\ relays[i].peer = peer
    BY ONLY <2>1
  <2> QED
    BY <2>2 DEF hop, link, peer
<1>6. n + 1 \in 1..n + 1 /\ \A i \in 1..n : i \in 1..n + 1
  BY <1>3
<1>7. outer = relays[n + 1]
  BY <1>4
<1>8. outer.peer = packet.way.source
  BY <1>3, <1>5, <1>6, <1>7 DEF OwnRelay
<1>9. refused \/ interfaces = <<Option("InterfaceIdOption", packet.way.interface)>>
  <2> DEFINE o == Option("InterfaceIdOption", packet.way.interface)
  <2>1. OwnRelay(packet).options = <<o>>
    BY DEF OwnRelay
  <2>2. refused \/ interfaces = InterfaceIds(<<o>>)
    BY <1>3, <1>4, <1>6, <1>7, <2>1 DEF InterfaceIds, InterfaceId
  <2>3. o.class = InterfaceId
    BY DEF Option, InterfaceId
  <2> HIDE DEF o
  <2>4. o \in IsA(<<o>>, InterfaceId)
    BY <2>3, ThoseOfOne, OnlyInterfaceIds DEF IsA
  <2>5. InterfaceIds(<<o>>) = <<o>>
    <3> DEFINE S == IsA(<<o>>, InterfaceId)
    <3>1. InterfaceIds(<<o>>) = Those(<<o>>, S)
      BY OfTypeThose DEF InterfaceIds
    <3> HIDE DEF S
    <3>2. Those(<<o>>, S) = IF o \in S THEN <<o>> ELSE <<>>
      BY ThoseOfOne
    <3> QED
      BY <2>4, <3>1, <3>2 DEF S
  <2> QED
    BY <2>2, <2>5 DEF o
<1> HIDE DEF outer, interfaces, n
<1>10. /\ sent'.relays = relays /\ sent'.address = outer.peer
       /\ sent'.port = IF n + 1 > 1 THEN ServerPort ELSE ClientPort
       /\ sent'.interface = IF interfaces = <<>> THEN NoValue ELSE interfaces[1].value
       /\ sent' = [relays |-> sent'.relays, message |-> sent'.message,
                   address |-> sent'.address, port |-> sent'.port,
                   interface |-> sent'.interface]
  BY <1>2, <1>4
<1>11. refused \/ sent'.interface = packet.way.interface
  <2> DEFINE o == Option("InterfaceIdOption", packet.way.interface)
  <2>1. <<o>> # <<>> /\ <<o>>[1] = o /\ o.value = packet.way.interface
    BY DEF Option
  <2> HIDE DEF o
  <2>2. refused \/ interfaces = <<o>>
    BY <1>9 DEF o
  <2> QED
    BY <1>10, <2>1, <2>2
<1>12. sent'.port = ServerPort <=> packet.relays # <<>>
  <2>1. packet.relays # <<>> <=> n > 0
    <3>1. List(packet.relays)
      BY <1>1, ChainedType
    <3> DEFINE r == packet.relays
    <3>2. r \in Seq(SetOf(r))
      BY <3>1 DEF List
    <3> HIDE DEF r
    <3>3. r # <<>> <=> Len(r) > 0
      BY ONLY <3>2
    <3> QED
      BY <3>3 DEF r, n
  <2> QED
    BY <1>3, <1>10, <2>1 DEF ServerPort, ClientPort
<1>13. \A i \in 1..n :
          /\ sent'.relays[i].hop = packet.relays[i].hop
          /\ sent'.relays[i].link = packet.relays[i].link
          /\ sent'.relays[i].peer = packet.relays[i].peer
          /\ refused \/ InterfaceIds(sent'.relays[i].options)
                          = InterfaceIds(packet.relays[i].options)
  BY <1>3, <1>4, <1>5, <1>6, <1>10
<1>14. RelayRepliesMirror'
  <2>1. Len(sent'.relays) = n + 1 /\ DOMAIN packet.relays = 1..n
    BY <1>3, <1>4, <1>10
  <2> QED
    BY <1>2, <1>8, <1>10, <1>11, <1>12, <1>13, <2>1
    DEF RelayRepliesMirror, n, InterfaceIds, InterfaceId
<1> QED
  BY <1>1, <1>2, <1>10, <1>14 DEF MirrorInv, UnderWay

LEMMA MirrorFollowed ==
    ASSUME MirrorInv, SendFollowing \/ UNCHANGED answersVars
    PROVE  MirrorInv'
<1>1. CASE UNCHANGED answersVars
  BY <1>1 DEF MirrorInv, UnderWay, Mirrored, Echoed, answersVars, bundle,
              RelayRepliesMirror, Chained, OwnRelay, Chain
<1>2. CASE SendFollowing
  <2> DEFINE relays == sent.relays
             address == sent.address
             port == sent.port
             interface == sent.interface
             old == sent.message
             new == Head(following)
  <2>1. stage = "sent" /\ stage' = "sent" /\ sent' = [sent EXCEPT !.message = new]
        /\ UNCHANGED <<handlers, packet, refused>>
    BY <1>2 DEF SendFollowing
  <2>2. sent = [relays |-> relays, message |-> old, address |-> address, port |-> port,
                interface |-> interface]
    BY <2>1 DEF MirrorInv
  <2> HIDE DEF relays, address, port, interface, old, new
  <2>3. sent' = [relays |-> relays, message |-> new, address |-> address, port |-> port,
                 interface |-> interface]
    BY <2>1, <2>2
  <2>4. /\ sent'.relays = relays /\ sent'.address = address /\ sent'.port = port
        /\ sent'.interface = interface /\ sent'.message = new
    BY <2>3
  <2>5. RelayRepliesMirror'
    <3>1. RelayRepliesMirror
      BY DEF MirrorInv
    <3> QED
      BY <2>1, <2>4, <3>1 DEF RelayRepliesMirror, relays, address, port, interface
  <2> QED
    BY <2>1, <2>3, <2>4, <2>5 DEF MirrorInv, UnderWay
<1> QED
  BY <1>1, <1>2

LEMMA MirrorStep ==
    ASSUME MirrorInv, [AnswersNext]_answersVars
    PROVE  MirrorInv'
<1>1. Finish => Abandon
  BY DEF Finish
<1> QED
  BY <1>1, MirrorReceived, MirrorAbandoned, MirrorRefused, MirrorBegun, MirrorHandled,
     MirrorQueried, MirrorPosted, MirrorSent, MirrorFollowed DEF AnswersNext

(* A response goes back through the relays that its request came through,  *)
(* in their order and with the interface-ids that they had put in, however *)
(* many relays and handlers there are (wrap_response() in messages.py,     *)
(* handlers/basic_relay.py, and send_reply() in listeners/udp.py).         *)
THEOREM RelaysAreMirrored == AnswersSpec => []RelayRepliesMirror
<1>1. AnswersInit => MirrorInv
  BY DEF AnswersInit, MirrorInv, UnderWay, RelayRepliesMirror
<1>2. MirrorInv /\ [AnswersNext]_answersVars => MirrorInv'
  BY MirrorStep
<1>3. MirrorInv => RelayRepliesMirror
  BY DEF MirrorInv
<1> QED
  BY <1>1, <1>2, <1>3, PTL DEF AnswersSpec

-----------------------------------------------------------------------------
(* The options of one class, and how many they are                        *)

LEMMA ThoseCounted ==
    ASSUME NEW s, List(s), NEW S
    PROVE  /\ IsFiniteSet({i \in DOMAIN s : s[i] \in S})
           /\ Cardinality({i \in DOMAIN s : s[i] \in S}) = Len(Those(s, S))
<1> DEFINE f == Among(s, S)
           first(n) == {i \in 1..n : s[i] \in S}
           M == {n \in Nat : n \in 0..Len(s) =>
                   IsFiniteSet(first(n)) /\ Cardinality(first(n)) = Len(f[n])}
<1>0. Len(s) \in Nat /\ DOMAIN s = 1..Len(s)
  BY DEF List
<1>1. f = [n \in 0..Len(s) |->
             IF n = 0 THEN <<>>
             ELSE IF s[n] \in S THEN Append(f[n - 1], s[n]) ELSE f[n - 1]]
  BY <1>0, AmongUnfolds
<1>2. \A n \in 0..Len(s) : f[n] \in Seq(SetOf(s) \cap S)
  BY AmongType
<1>3. \A n \in 1..Len(s) : s[n] \in SetOf(s)
  BY <1>0 DEF SetOf
<1>4. first(0) = {}
  OBVIOUS
<1>5. \A n \in Nat : first(n + 1) = first(n) \cup (IF s[n + 1] \in S THEN {n + 1} ELSE {})
  <2> TAKE n \in Nat
  <2>1. 1..(n + 1) = 1..n \cup {n + 1}
    OBVIOUS
  <2> QED
    BY <2>1
<1>6. \A n \in Nat : n + 1 \notin first(n)
  OBVIOUS
<1> HIDE DEF f, first
<1>7. 0 \in M
  <2>1. 0 \in 0..Len(s)
    BY <1>0
  <2>2. f[0] = <<>>
    BY <1>1, <2>1
  <2>3. IsFiniteSet(first(0)) /\ Cardinality(first(0)) = 0
    BY <1>4, FS_EmptySet
  <2>4. Len(<<>>) = 0
    OBVIOUS
  <2> QED
    BY <2>2, <2>3, <2>4
<1>8. ASSUME NEW n \in Nat, n \in M PROVE n + 1 \in M
  <2>1. SUFFICES ASSUME n + 1 \in 0..Len(s)
                 PROVE  IsFiniteSet(first(n + 1)) /\ Cardinality(first(n + 1)) = Len(f[n + 1])
    OBVIOUS
  <2>2. n \in 0..Len(s) /\ n + 1 # 0 /\ (n + 1) - 1 = n /\ n + 1 \in 1..Len(s)
    BY <1>0, <2>1
  <2>3. IsFiniteSet(first(n)) /\ Cardinality(first(n)) = Len(f[n])
    BY <1>8, <2>2
  <2>4. f[n + 1] = IF s[n + 1] \in S THEN Append(f[n], s[n + 1]) ELSE f[n]
    BY <1>1, <2>1, <2>2
  <2>5. CASE s[n + 1] \notin S
    <3>1. first(n + 1) = first(n)
      BY <1>5, <2>5
    <3> QED
      BY <2>3, <2>4, <2>5, <3>1
  <2>6. CASE s[n + 1] \in S
    <3>1. first(n + 1) = first(n) \cup {n + 1}
      BY <1>5, <2>6
    <3>2. IsFiniteSet(first(n + 1)) /\ Cardinality(first(n + 1)) = Cardinality(first(n)) + 1
      <4> DEFINE T == first(n)
                 x == n + 1
      <4>1. IsFiniteSet(T) /\ x \notin T
        BY <1>6, <2>3
      <4> HIDE DEF T, x
      <4>2. IsFiniteSet(T \cup {x}) /\ Cardinality(T \cup {x}) = Cardinality(T) + 1
        BY <4>1, FS_AddElement
      <4> QED
        BY <3>1, <4>2 DEF T, x
    <3>3. s[n + 1] \in SetOf(s) \cap S
      BY <1>3, <2>2, <2>6
    <3>4. f[n] \in Seq(SetOf(s) \cap S)
      BY <1>2, <2>2
    <3>5. Len(f[n + 1]) = Len(f[n]) + 1
      BY <2>4, <2>6, <3>3, <3>4
    <3> QED
      BY <2>3, <3>2, <3>5
  <2> QED
    BY <2>5, <2>6
<1> HIDE DEF M
<1>9. Nat \subseteq M
  BY <1>7, <1>8, SetInduction
<1>10. IsFiniteSet(first(Len(s))) /\ Cardinality(first(Len(s))) = Len(f[Len(s)])
  BY <1>0, <1>9 DEF M
<1>11. {i \in DOMAIN s : s[i] \in S} = first(Len(s))
  BY <1>0 DEF first
<1> QED
  BY <1>10, <1>11 DEF f, Those

(* The options of one class.                                               *)
OfClass(s, c) == Those(s, {o \in SetOf(s) : o.class = c})
Has(s, c) == OfClass(s, c) # <<>>

LEMMA OfClassType ==
    ASSUME NEW s, List(s), NEW c
    PROVE  /\ List(OfClass(s, c)) /\ Len(OfClass(s, c)) \in Nat
           /\ Has(s, c) <=> Len(OfClass(s, c)) > 0
           /\ (\E o \in SetOf(s) : o.class = c) <=> Has(s, c)
           /\ IsFiniteSet({i \in DOMAIN s : s[i].class = c})
           /\ Cardinality({i \in DOMAIN s : s[i].class = c}) = Len(OfClass(s, c))
<1> DEFINE S == {o \in SetOf(s) : o.class = c}
           t == OfClass(s, c)
           I == {i \in DOMAIN s : s[i] \in S}
<1>1. t = Those(s, S)
  BY DEF OfClass
<1>2. List(t) /\ t \in Seq(SetOf(s))
  <2>1. List(t) /\ t \in Seq(SetOf(s) \cap S)
    BY ThoseType, <1>1
  <2> HIDE DEF t, S
  <2> QED
    BY <2>1
<1>3. IsFiniteSet(I) /\ Cardinality(I) = Len(t)
  BY ThoseCounted, <1>1
<1>4. I = {i \in DOMAIN s : s[i].class = c}
  BY DEF SetOf
<1>5. Len(t) \in Nat /\ (t # <<>> <=> Len(t) > 0)
  <2> HIDE DEF t
  <2> QED
    BY <1>2
<1>6. (\E o \in SetOf(s) : o.class = c) <=> I # {}
  BY <1>4 DEF SetOf
<1>7. I # {} <=> Len(t) > 0
  <2> HIDE DEF I, t
  <2> QED
    BY <1>3, <1>5, FS_EmptySet
<1> HIDE DEF t, I
<1> QED
  BY <1>2, <1>3, <1>4, <1>5, <1>6, <1>7 DEF Has, t

LEMMA OfClassJoined ==
    ASSUME NEW s, List(s), NEW t, List(t), NEW c
    PROVE  OfClass(Joined(s, t), c) = Joined(OfClass(s, c), OfClass(t, c))
<1> DEFINE S == {o \in SetOf(Joined(s, t)) : o.class = c}
           A == {o \in SetOf(s) : o.class = c}
           B == {o \in SetOf(t) : o.class = c}
<1>0. SetOf(Joined(s, t)) = SetOf(s) \cup SetOf(t)
  BY JoinedLists
<1>1. SetOf(s) \cap S = SetOf(s) \cap A /\ SetOf(t) \cap S = SetOf(t) \cap B
  BY <1>0
<1>2. /\ OfClass(s, c) = Those(s, A) /\ OfClass(t, c) = Those(t, B)
      /\ OfClass(Joined(s, t), c) = Those(Joined(s, t), S)
  BY DEF OfClass
<1> HIDE DEF S, A, B
<1>3. Those(s, S) = Those(s, A) /\ Those(t, S) = Those(t, B)
  BY <1>1, SameThose
<1> QED
  BY <1>2, <1>3, ThoseJoined

(* A selection that takes all or none of the options of a class.           *)
LEMMA OfClassThose ==
    ASSUME NEW s, List(s), NEW S, NEW c
    PROVE  /\ (\A o \in SetOf(s) : o.class = c => o \in S)
                 => OfClass(Those(s, S), c) = OfClass(s, c)
           /\ (\A o \in SetOf(s) : o.class = c => o \notin S)
                 => OfClass(Those(s, S), c) = <<>>
<1> DEFINE t == Those(s, S)
           A == {o \in SetOf(s) : o.class = c}
           B == {o \in SetOf(t) : o.class = c}
<1>1. List(t) /\ SetOf(t) \subseteq SetOf(s) \cap S
  BY ThoseType
<1>2. SetOf(t) \cap B = SetOf(t) \cap A
  BY <1>1
<1>3. OfClass(t, c) = Those(t, B) /\ OfClass(s, c) = Those(s, A)
  BY DEF OfClass
<1>4. Those(t, A) = Those(s, S \cap A)
  BY ThoseOfThose
<1>5. OfClass(t, c) = Those(s, S \cap A)
  <2> HIDE DEF t, A, B
  <2> QED
    BY <1>1, <1>2, <1>3, <1>4, SameThose
<1>6. ASSUME \A o \in SetOf(s) : o.class = c => o \in S
      PROVE  OfClass(t, c) = OfClass(s, c)
  <2>1. S \cap A = A
    BY <1>6
  <2> QED
    BY <1>3, <1>5, <2>1
<1>7. ASSUME \A o \in SetOf(s) : o.class = c => o \notin S
      PROVE  OfClass(t, c) = <<>>
  <2>1. SetOf(s) \cap (S \cap A) = {}
    BY <1>7
  <2>2. Those(s, S \cap A) = <<>>
    BY <2>1, NoneOfThose
  <2> QED
    BY <1>5, <2>2
<1> HIDE DEF t
<1> QED
  BY <1>6, <1>7 DEF t

(* get_options_of_type() takes the options of a class, and of those derived *)
(* from it.                                                                *)
LEMMA OfClassOfType ==
    ASSUME NEW s, List(s), NEW k, NEW c
    PROVE  /\ OfClass(OfType(s, k), c) = IF k \in Lineage(c) THEN OfClass(s, c) ELSE <<>>
           /\ OfClass(NotOfType(s, k), c) = IF k \in Lineage(c) THEN <<>> ELSE OfClass(s, c)
<1> DEFINE A == IsA(s, k)
           B == {o \in SetOf(s) : k \notin Lineage(o.class)}
<1>1. OfType(s, k) = Those(s, A) /\ NotOfType(s, k) = Those(s, B)
  BY OfTypeThose
<1>2. \A o \in SetOf(s) : o.class = c => (o \in A <=> k \in Lineage(c))
                                      /\ (o \in B <=> k \notin Lineage(c))
  BY DEF IsA
<1> HIDE DEF A, B
<1>3. CASE k \in Lineage(c)
  BY <1>1, <1>2, <1>3, OfClassThose
<1>4. CASE k \notin Lineage(c)
  BY <1>1, <1>2, <1>4, OfClassThose
<1> QED
  BY <1>3, <1>4

LEMMA OfClassCopied ==
    ASSUME NEW from, List(from), NEW to, List(to), NEW k, NEW c
    PROVE  OfClass(Copied(from, to, k), c)
             = IF k \in Lineage(c) THEN OfClass(from, c) ELSE OfClass(to, c)
<1> DEFINE A == OfType(from, k)
           B == NotOfType(to, k)
           a == OfClass(from, c)
           b == OfClass(to, c)
<1>1. List(A) /\ List(B)
  BY CopiedType
<1>2. Copied(from, to, k) = Joined(A, B)
  BY DEF Copied
<1>3. /\ OfClass(A, c) = IF k \in Lineage(c) THEN a ELSE <<>>
      /\ OfClass(B, c) = IF k \in Lineage(c) THEN <<>> ELSE b
  BY OfClassOfType
<1>4. List(a) /\ List(b)
  BY OfClassType
<1> HIDE DEF A, B, a, b
<1>5. OfClass(Copied(from, to, k), c) = Joined(OfClass(A, c), OfClass(B, c))
  BY <1>1, <1>2, OfClassJoined
<1>6. Joined(a, <<>>) = a /\ Joined(<<>>, b) = b
  <2>1. a \in Seq(SetOf(a)) /\ b \in Seq(SetOf(b))
    BY <1>4 DEF List
  <2> QED
    BY ONLY <2>1 DEF Joined
<1> QED
  BY <1>3, <1>5, <1>6 DEF a, b

-----------------------------------------------------------------------------
(* What an answer may hold, and what it must                               *)

(* Options that a message may hold, at most one of each class.             *)
Allowed(type, s) ==
    /\ List(s)
    /\ \A c : Len(OfClass(s, c)) <= 1
    /\ \A o \in SetOf(s) : MayHold(type, o.class)

LEMMA OfClassOne ==
    ASSUME NEW o
    PROVE  /\ List(<<o>>) /\ SetOf(<<o>>) = {o} /\ Len(<<o>>) = 1 /\ <<o>> # <<>>
           /\ \A c : OfClass(<<o>>, c) = IF o.class = c THEN <<o>> ELSE <<>>
<1>1. List(<<o>>) /\ SetOf(<<o>>) = {o}
  BY ThoseOfOne
<1>2. ASSUME NEW c PROVE OfClass(<<o>>, c) = IF o.class = c THEN <<o>> ELSE <<>>
  <2> DEFINE S == {x \in SetOf(<<o>>) : x.class = c}
  <2>1. OfClass(<<o>>, c) = Those(<<o>>, S)
    BY DEF OfClass
  <2>2. o \in S <=> o.class = c
    BY <1>1
  <2> HIDE DEF S
  <2>3. Those(<<o>>, S) = IF o \in S THEN <<o>> ELSE <<>>
    BY ThoseOfOne
  <2> QED
    BY <2>1, <2>2, <2>3
<1> QED
  BY <1>1, <1>2

LEMMA OfClassNone ==
    /\ List(<<>>) /\ SetOf(<<>>) = {}
    /\ \A c : OfClass(<<>>, c) = <<>>
<1>1. List(<<>>) /\ SetOf(<<>>) = {}
  BY DEF List, SetOf
<1>2. ASSUME NEW c PROVE OfClass(<<>>, c) = <<>>
  <2> DEFINE S == {x \in SetOf(<<>>) : x.class = c}
  <2>1. SetOf(<<>>) \cap S = {}
    BY <1>1
  <2>2. OfClass(<<>>, c) = Those(<<>>, S)
    BY DEF OfClass
  <2> HIDE DEF S
  <2> QED
    BY <1>1, <2>1, <2>2, NoneOfThose
<1> QED
  BY <1>1, <1>2

(* Only the S46 containers are classes of options that a table lets one    *)
(* hold by way of a class that they are derived from.                      *)
LEMMA LeafClass ==
    ASSUME NEW type \in AnswerTypes \cup RelayMessages, NEW k, MayHold(type, k),
           NEW c, c \notin S46Containers
    PROVE  k \in Lineage(c) <=> k = c
<1> DEFINE K == DOMAIN MayContain[type]
<1>1. K \cap Bases = {}
  BY AnswerTable, RelayTable DEF ForAnswers, ForRelays
<1>2. Named(k) \in K
  BY ElementOf
<1>3. BaseClasses(c) \subseteq {"Message", "Option", "RelayServerMessage",
                                "ClientServerMessage", "NTPSubOption"}
  BY DEF BaseClasses
<1>4. k \notin BaseClasses(c)
  BY <1>1, <1>2, <1>3 DEF Named, Bases, S46Containers
<1> QED
  BY <1>4 DEF Lineage

LEMMA AllowedNone ==
    ASSUME NEW type
    PROVE  Allowed(type, <<>>) /\ \A c : ~Has(<<>>, c)
<1>1. Len(<<>>) <= 1
  OBVIOUS
<1> QED
  BY <1>1, OfClassNone DEF Allowed, Has

LEMMA AllowedOne ==
    ASSUME NEW type, NEW o, MayHold(type, o.class)
    PROVE  Allowed(type, <<o>>) /\ \A c : Has(<<o>>, c) <=> c = o.class
<1> DEFINE s == <<o>>
<1>1. Len(<<>>) <= 1 /\ Len(s) <= 1
  OBVIOUS
<1>2. /\ List(s) /\ SetOf(s) = {o} /\ s # <<>>
      /\ \A c : OfClass(s, c) = IF o.class = c THEN s ELSE <<>>
  BY OfClassOne
<1> HIDE DEF s
<1>3. Allowed(type, s) /\ \A c : Has(s, c) <=> c = o.class
  BY <1>1, <1>2 DEF Allowed, Has
<1> QED
  BY <1>3 DEF s

LEMMA AllowedJoined ==
    ASSUME NEW type, NEW s, Allowed(type, s), NEW t, Allowed(type, t),
           \A c : ~Has(s, c) \/ ~Has(t, c)
    PROVE  /\ Allowed(type, Joined(s, t))
           /\ \A c : Has(Joined(s, t), c) <=> Has(s, c) \/ Has(t, c)
<1>1. List(s) /\ List(t)
  BY DEF Allowed
<1>2. List(Joined(s, t)) /\ SetOf(Joined(s, t)) = SetOf(s) \cup SetOf(t)
  BY <1>1, JoinedLists
<1>3. ASSUME NEW c
      PROVE  /\ Len(OfClass(Joined(s, t), c)) <= 1
             /\ Has(Joined(s, t), c) <=> Has(s, c) \/ Has(t, c)
  <2> DEFINE a == OfClass(s, c)
             b == OfClass(t, c)
  <2>1. OfClass(Joined(s, t), c) = Joined(a, b)
    BY <1>1, OfClassJoined
  <2>2. List(a) /\ List(b)
    BY <1>1, OfClassType
  <2>3. a = <<>> \/ b = <<>>
    BY DEF Has
  <2>4. Len(a) <= 1 /\ Len(b) <= 1
    BY DEF Allowed
  <2> HIDE DEF a, b
  <2>5. Joined(<<>>, b) = b /\ Joined(a, <<>>) = a
    <3>1. a \in Seq(SetOf(a)) /\ b \in Seq(SetOf(b))
      BY <2>2 DEF List
    <3> QED
      BY ONLY <3>1 DEF Joined
  <2>6. Joined(a, b) = IF a = <<>> THEN b ELSE a
    BY <2>3, <2>5
  <2> QED
    BY <2>1, <2>3, <2>4, <2>6 DEF Has, a, b
<1> QED
  BY <1>2, <1>3 DEF Allowed

LEMMA AllowedRest ==
    ASSUME NEW type, NEW s, Allowed(type, s), NEW k
    PROVE  /\ Allowed(type, NotOfType(s, k))
           /\ \A c : Has(NotOfType(s, k), c) <=> Has(s, c) /\ k \notin Lineage(c)
<1>1. List(s)
  BY DEF Allowed
<1>2. \A c : OfClass(NotOfType(s, k), c) = IF k \in Lineage(c) THEN <<>> ELSE OfClass(s, c)
  BY <1>1, OfClassOfType
<1>3. List(NotOfType(s, k)) /\ SetOf(NotOfType(s, k)) \subseteq SetOf(s)
  <2> DEFINE S == {o \in SetOf(s) : k \notin Lineage(o.class)}
  <2>1. NotOfType(s, k) = Those(s, S)
    BY OfTypeThose
  <2> HIDE DEF S
  <2>2. List(Those(s, S)) /\ SetOf(Those(s, S)) \subseteq SetOf(s) \cap S
    BY <1>1, ThoseType
  <2> QED
    BY <2>1, <2>2
<1>4. Len(<<>>) <= 1
  OBVIOUS
<1> QED
  BY <1>2, <1>3, <1>4 DEF Allowed, Has

(* What an answer must hold besides.                                       *)
Complete(type, s) ==
    /\ Allowed(type, s)
    /\ Has(s, "ServerIdOption") /\ Has(s, "ClientIdOption")

LEMMA FewOfEach ==
    ASSUME NEW A, NEW B, IsFiniteSet(A), IsFiniteSet(B),
           NEW n \in Nat, Cardinality(A) <= n, Cardinality(B) <= 1
    PROVE  IsFiniteSet(A \cup B) /\ Cardinality(A \cup B) <= n + 1
<1>1. /\ IsFiniteSet(A \cup B)
      /\ Cardinality(A \cup B) = Cardinality(A) + Cardinality(B) - Cardinality(A \cap B)
  BY FS_Union
<1>2. IsFiniteSet(A \cap B)
  <2>1. A \cap B \in SUBSET A
    OBVIOUS
  <2> QED
    BY <2>1, FS_Subset
<1>3. Cardinality(A) \in Nat /\ Cardinality(B) \in Nat /\ Cardinality(A \cap B) \in Nat
  BY <1>2, FS_CardinalityType
<1> QED
  BY <1>1, <1>3

LEMMA CompleteIsValid ==
    ASSUME NEW type \in AnswerTypes, NEW s, Complete(type, s)
    PROVE  ValidContents(type, Classes(s))
<1> DEFINE K == DOMAIN MayContain[type]
           I(c) == {i \in DOMAIN s : s[i].class = c}
           min(k) == MayContain[type][k].min
           max(k) == MayContain[type][k].max
           e == Classes(s)
           N(k) == {i \in DOMAIN e : k \in ElementClasses(type, e[i])}
<1>1. DOMAIN e = DOMAIN s /\ \A i \in DOMAIN s : e[i] = s[i].class
  BY DEF Classes
<1>2. List(s) /\ Allowed(type, s)
  BY DEF Complete, Allowed
<1>3. \A i \in DOMAIN e : MayHold(type, e[i])
  <2>1. \A i \in DOMAIN s : s[i] \in SetOf(s)
    BY DEF SetOf
  <2> QED
    BY <1>1, <1>2, <2>1 DEF Allowed
<1>4. \A c : /\ IsFiniteSet(I(c)) /\ Cardinality(I(c)) \in Nat /\ Cardinality(I(c)) <= 1
             /\ Has(s, c) => Cardinality(I(c)) = 1
  <2> TAKE c
  <2> DEFINE n == Len(OfClass(s, c))
  <2>1. /\ n \in Nat /\ n <= 1 /\ (Has(s, c) <=> n > 0)
        /\ IsFiniteSet(I(c)) /\ Cardinality(I(c)) = n
    BY <1>2, OfClassType DEF Allowed
  <2> HIDE DEF n, I
  <2> QED
    BY <2>1
<1>5. \A k \in K : ForAnswers(type, k, min(k), max(k))
  BY AnswerTable
<1>6. ASSUME NEW k \in K
      PROVE  N(k) = {i \in DOMAIN s : Named(s[i].class) = k}
  <2>1. \A x : k \in ElementClasses(type, x) <=> Named(x) = k
    BY ElementOf
  <2> QED
    BY <1>1, <2>1
<1>7. Has(s, "ServerIdOption") /\ Has(s, "ClientIdOption")
  BY DEF Complete
<1> HIDE DEF I, min, max, e, N
<1>8. ASSUME NEW k \in K, k # "S46ContainerOption"
      PROVE  min(k) <= Cardinality(N(k)) /\ Cardinality(N(k)) <= max(k)
  <2>1. k \notin S46Containers
    BY <1>5 DEF ForAnswers, Bases
  <2>2. \A x : Named(x) = k <=> x = k
    BY <1>8, <2>1 DEF Named
  <2>3. N(k) = I(k)
    BY <1>6, <2>2 DEF I
  <2>4. (min(k) = 0 \/ (min(k) = 1 /\ Has(s, k))) /\ max(k) \in {1, Infinite}
    BY <1>5, <1>7 DEF ForAnswers
  <2>5. /\ Cardinality(I(k)) \in Nat /\ Cardinality(I(k)) <= 1
        /\ Has(s, k) => Cardinality(I(k)) = 1
    BY <1>4
  <2> QED
    BY <2>3, <2>4, <2>5, InfiniteIsLarge
<1>9. ASSUME "S46ContainerOption" \in K
      PROVE  LET k == "S46ContainerOption"
             IN  min(k) <= Cardinality(N(k)) /\ Cardinality(N(k)) <= max(k)
  <2> DEFINE k == "S46ContainerOption"
             A == I(k)
             B == I("S46MapEContainerOption")
             C == I("S46MapTContainerOption")
             D == I("S46LWContainerOption")
  <2>1. N(k) = A \cup B \cup C \cup D
    BY <1>6, <1>9 DEF I, Named, S46Containers
  <2>2. /\ IsFiniteSet(A) /\ IsFiniteSet(B) /\ IsFiniteSet(C) /\ IsFiniteSet(D)
        /\ Cardinality(A) <= 1 /\ Cardinality(B) <= 1 /\ Cardinality(C) <= 1
        /\ Cardinality(D) <= 1
    BY <1>4
  <2>3. min(k) = 0 /\ max(k) = Infinite
    BY <1>5, <1>9 DEF ForAnswers
  <2> HIDE DEF A, B, C, D, k
  <2> DEFINE AB == A \cup B
             ABC == AB \cup C
             ABCD == ABC \cup D
  <2>4. IsFiniteSet(AB) /\ Cardinality(AB) <= 2
    BY <2>2, FewOfEach
  <2> HIDE DEF AB
  <2>5. IsFiniteSet(ABC) /\ Cardinality(ABC) <= 3
    BY <2>2, <2>4, FewOfEach
  <2> HIDE DEF ABC
  <2>6. IsFiniteSet(ABCD) /\ Cardinality(ABCD) <= 4
    BY <2>2, <2>5, FewOfEach
  <2> HIDE DEF ABCD
  <2>7. Cardinality(N(k)) \in Nat /\ Cardinality(N(k)) <= 4
    BY <2>1, <2>6, FS_CardinalityType DEF AB, ABC, ABCD
  <2>8. min(k) <= Cardinality(N(k)) /\ Cardinality(N(k)) <= max(k)
    BY <2>3, <2>7, InfiniteIsLarge
  <2> QED
    BY <2>8 DEF k
<1>10. \A k \in K : min(k) <= Cardinality(N(k)) /\ Cardinality(N(k)) <= max(k)
  BY <1>8, <1>9
<1> QED
  BY <1>3, <1>10 DEF ValidContents, min, max, N, e

(* get_options_of_type() for a class from which no other is derived.       *)
LEMMA OfTypeOfLeaf ==
    ASSUME NEW s, List(s), NEW c, \A k : c \in Lineage(k) <=> k = c
    PROVE  OfType(s, c) = OfClass(s, c)
<1>1. IsA(s, c) = {o \in SetOf(s) : o.class = c}
  BY DEF IsA
<1> QED
  BY <1>1, OfTypeThose DEF OfClass

LEMMA ClientIdIsLeaf ==
    \A k : "ClientIdOption" \in Lineage(k) <=> k = "ClientIdOption"
BY DEF Lineage, BaseClasses

(* What a message from a client must hold.                                 *)
LEMMA RequestHolds ==
    ASSUME NEW type \in FromClients, NEW s, List(s), ValidContents(type, Classes(s))
    PROVE  Has(s, "ClientIdOption")
<1> DEFINE k == "ClientIdOption"
           e == Classes(s)
           N == {i \in DOMAIN e : k \in ElementClasses(type, e[i])}
<1>1. k \in DOMAIN MayContain[type] /\ MayContain[type][k].min = 1
  BY RequestTable
<1>2. 1 <= Cardinality(N)
  BY <1>1 DEF ValidContents
<1>3. N # {}
  <2> HIDE DEF N
  <2> QED
    BY <1>2, FS_EmptySet
<1>4. PICK i \in DOMAIN e : k \in ElementClasses(type, e[i])
  BY <1>3
<1>5. k \in Lineage(e[i])
  BY <1>4 DEF ElementClasses
<1>6. i \in DOMAIN s /\ e[i] = s[i].class
  BY <1>4 DEF Classes
<1>7. s[i] \in SetOf(s) /\ s[i].class = k
  BY <1>5, <1>6, ClientIdIsLeaf DEF SetOf
<1> QED
  BY <1>7, OfClassType

-----------------------------------------------------------------------------
(* What a relay-reply may hold                                             *)

Wrapping == "RelayMessageOption"

(* A relay-reply holds one message, and options that the relay-forward     *)
(* held: of each class all or none.                                        *)
Echoing(to, from) ==
    /\ List(to) /\ Len(OfClass(to, Wrapping)) = 1
    /\ \A o \in SetOf(to) : MayHold("RelayReplyMessage", o.class)
    /\ \A c : c # Wrapping => OfClass(to, c) = <<>> \/ OfClass(to, c) = OfClass(from, c)

(* There are no more options than the tables let a relay-reply hold.       *)
Bounded(from) ==
    /\ List(from)
    /\ \A k \in DOMAIN MayContain["RelayReplyMessage"] :
          k # Wrapping => Len(OfClass(from, k)) <= MayContain["RelayReplyMessage"][k].max

LEMMA OneBefore ==
    ASSUME NEW a, NEW A, NEW t \in Seq(A)
    PROVE  /\ DOMAIN Joined(<<a>>, t) = 1..1 + Len(t) /\ Joined(<<a>>, t)[1] = a
           /\ \A i \in 1..Len(t) : Joined(<<a>>, t)[i + 1] = t[i]
<1> DEFINE B == A \cup {a}
           s == <<a>>
           u == s \o t
<1>1. s \in Seq(B) /\ t \in Seq(B) /\ Len(s) = 1 /\ s[1] = a /\ Len(t) \in Nat
  OBVIOUS
<1> HIDE DEF s, B
<1>2. /\ Len(u) = 1 + Len(t) /\ DOMAIN u = 1..1 + Len(t)
      /\ \A i \in 1..1 + Len(t) : u[i] = IF i <= 1 THEN s[i] ELSE t[i - 1]
  <2>1. s \in Seq(B) /\ t \in Seq(B)
    BY <1>1
  <2>2. /\ Len(u) = Len(s) + Len(t) /\ DOMAIN u = 1..Len(s) + Len(t)
        /\ \A i \in 1..Len(s) + Len(t) :
              u[i] = IF i <= Len(s) THEN s[i] ELSE t[i - Len(s)]
    BY ONLY <2>1
  <2> QED
    BY <1>1, <2>2
<1>3. 1 \in 1..1 + Len(t) /\ \A i \in 1..Len(t) :
         i + 1 \in 1..1 + Len(t) /\ ~(i + 1 <= 1) /\ (i + 1) - 1 = i
  BY <1>1
<1> HIDE DEF u
<1>4. DOMAIN u = 1..1 + Len(t) /\ u[1] = a /\ \A i \in 1..Len(t) : u[i + 1] = t[i]
  BY <1>1, <1>2, <1>3
<1> QED
  BY <1>4 DEF u, s, Joined

(* The elements that count for an entry.                                   *)
LEMMA RelayCounts ==
    ASSUME NEW type \in RelayMessages, NEW s, List(s), NEW e,
           DOMAIN e = DOMAIN s, \A i \in DOMAIN s : e[i] = s[i].class,
           NEW k \in DOMAIN MayContain[type]
    PROVE  Cardinality({i \in DOMAIN e : k \in ElementClasses(type, e[i])})
             = Len(OfClass(s, k))
<1>1. k \notin Bases \cup {"S46ContainerOption"}
  BY RelayTable DEF ForRelays
<1>2. \A x : Named(x) = k <=> x = k
  BY <1>1 DEF Named, Bases
<1>3. \A x : k \in ElementClasses(type, x) <=> Named(x) = k
  BY ElementOf
<1>4. {i \in DOMAIN e : k \in ElementClasses(type, e[i])} = {i \in DOMAIN s : s[i].class = k}
  BY <1>2, <1>3
<1> QED
  BY <1>4, OfClassType

LEMMA EchoingIsValid ==
    ASSUME NEW from, Bounded(from), NEW to, Echoing(to, from)
    PROVE  ValidContents("RelayReplyMessage", Classes(to))
<1> DEFINE type == "RelayReplyMessage"
           K == DOMAIN MayContain[type]
           e == Classes(to)
           N(k) == {i \in DOMAIN e : k \in ElementClasses(type, e[i])}
           min(k) == MayContain[type][k].min
           max(k) == MayContain[type][k].max
<1>1. DOMAIN e = DOMAIN to /\ \A i \in DOMAIN to : e[i] = to[i].class
  BY DEF Classes
<1>2. \A i \in DOMAIN e : MayHold(type, e[i])
  <2>1. \A i \in DOMAIN to : to[i] \in SetOf(to)
    BY DEF SetOf
  <2> QED
    BY <1>1, <2>1 DEF Echoing
<1>3. List(to) /\ type \in RelayMessages
  BY DEF Echoing, RelayMessages
<1>4. \A k \in K : Cardinality(N(k)) = Len(OfClass(to, k))
  <2> TAKE k \in K
  <2> HIDE DEF e, type
  <2> QED
    BY <1>1, <1>3, RelayCounts
<1>5. \A k \in K : ForRelays(k, min(k), max(k))
  BY <1>3, RelayTable
<1>6. Len(<<>>) = 0
  OBVIOUS
<1>7. ASSUME NEW k \in K, k # Wrapping
      PROVE  min(k) <= Len(OfClass(to, k)) /\ Len(OfClass(to, k)) <= max(k)
  <2>1. min(k) = 0 /\ max(k) \in {1, Infinite}
    BY <1>5, <1>7 DEF ForRelays, Wrapping
  <2>2. OfClass(to, k) = <<>> \/ OfClass(to, k) = OfClass(from, k)
    BY <1>7 DEF Echoing
  <2>3. Len(OfClass(from, k)) <= max(k)
    BY <1>7 DEF Bounded
  <2>4. Len(OfClass(to, k)) \in Nat
    BY <1>3, OfClassType
  <2> HIDE DEF min, max
  <2> QED
    BY <1>6, <2>1, <2>2, <2>3, <2>4, InfiniteIsLarge
<1>8. Wrapping \in K => /\ min(Wrapping) <= Len(OfClass(to, Wrapping))
                        /\ Len(OfClass(to, Wrapping)) <= max(Wrapping)
  <2>1. Len(OfClass(to, Wrapping)) = 1
    BY DEF Echoing
  <2>2. Wrapping \in K => min(Wrapping) \in {0, 1} /\ max(Wrapping) = 1
    BY <1>5 DEF ForRelays, Wrapping
  <2> QED
    BY <2>1, <2>2
<1> HIDE DEF min, max, e, N
<1>9. \A k \in K : min(k) <= Cardinality(N(k)) /\ Cardinality(N(k)) <= max(k)
  BY <1>4, <1>7, <1>8
<1> QED
  BY <1>2, <1>9 DEF ValidContents, min, max, N, e

(* What a valid relay-forward holds, the relayed message among it.         *)
LEMMA ForwardIsBounded ==
    ASSUME NEW s, List(s),
           ValidContents("RelayForwardMessage", <<"RelayMessageOption">> \o Classes(s))
    PROVE  Bounded(s)
<1> DEFINE type == "RelayForwardMessage"
           o == Option("RelayMessageOption", NoValue)
           one == <<o>>
           j == Joined(one, s)
           e == <<"RelayMessageOption">> \o Classes(s)
           N(k) == {i \in DOMAIN e : k \in ElementClasses(type, e[i])}
<1>1. List(one) /\ o.class = Wrapping /\ Len(one) = 1 /\ one[1] = o
  BY OfClassOne DEF Option, Wrapping
<1>2. List(j)
  <2> HIDE DEF one
  <2> QED
    BY <1>1, JoinedLists
<1>3. DOMAIN e = DOMAIN j /\ \A i \in DOMAIN j : e[i] = j[i].class
  <2> DEFINE c == Classes(s)
             A == SetOf(one)
             B == SetOf(s)
             C == SetOf(c)
  <2>1. Len(s) \in Nat /\ DOMAIN s = 1..Len(s) /\ s \in Seq(B) /\ one \in Seq(A)
    BY <1>1, ListType DEF List
  <2>2. c = [i \in 1..Len(s) |-> s[i].class]
    BY <2>1 DEF Classes
  <2>3. \A i \in 1..Len(s) : c[i] \in C /\ c[i] = s[i].class
    BY <2>1, <2>2 DEF SetOf
  <2> HIDE DEF c, A, B, C
  <2>4. c \in Seq(C) /\ Len(c) = Len(s)
    BY <2>1, <2>2, <2>3
  <2> DEFINE x == Joined(<<"RelayMessageOption">>, c)
             y == Joined(<<o>>, s)
  <2>6. /\ DOMAIN x = 1..1 + Len(s) /\ x[1] = o.class
        /\ \A i \in 1..Len(s) : x[i + 1] = c[i]
    BY <1>1, <2>4, OneBefore DEF Wrapping
  <2>7. /\ DOMAIN y = 1..1 + Len(s) /\ y[1] = o
        /\ \A i \in 1..Len(s) : y[i + 1] = s[i]
    BY <2>1, OneBefore
  <2> HIDE DEF x, y, o
  <2>8. ASSUME NEW i \in 1..1 + Len(s) PROVE x[i] = y[i].class
    <3>1. i = 1 \/ \E m \in 1..Len(s) : i = m + 1
      <4>1. CASE i = 1
        BY <4>1
      <4>2. CASE i # 1
        <5>1. i - 1 \in 1..Len(s) /\ i = (i - 1) + 1
          BY <2>1, <4>2
        <5> QED
          BY <5>1
      <4> QED
        BY <4>1, <4>2
    <3> QED
      BY <2>3, <2>6, <2>7, <3>1
  <2>9. e = x /\ j = y
    BY DEF x, y, c, j, one, o, Joined
  <2> QED
    BY <2>6, <2>7, <2>8, <2>9
<1>4. type \in RelayMessages
  BY DEF RelayMessages
<1>5. ASSUME NEW k \in DOMAIN MayContain["RelayReplyMessage"], k # Wrapping
      PROVE  Len(OfClass(s, k)) <= MayContain["RelayReplyMessage"][k].max
  <2>1. k \in DOMAIN MayContain[type]
    BY <1>5, KeysHandedOn
  <2>2. MayContain[type][k].max = MayContain["RelayReplyMessage"][k].max
    <3>1. /\ ForRelays(k, MayContain[type][k].min, MayContain[type][k].max)
          /\ ForRelays(k, MayContain["RelayReplyMessage"][k].min,
                       MayContain["RelayReplyMessage"][k].max)
      BY <1>5, <2>1, RelayTable DEF RelayMessages
    <3> QED
      BY <3>1 DEF ForRelays
  <2>3. Cardinality(N(k)) <= MayContain[type][k].max
    BY <2>1 DEF ValidContents
  <2> HIDE DEF e, j, one, type
  <2>4. Cardinality(N(k)) = Len(OfClass(j, k))
    BY <1>2, <1>3, <1>4, <2>1, RelayCounts
  <2>5. OfClass(j, k) = Joined(OfClass(one, k), OfClass(s, k))
    BY <1>1, OfClassJoined DEF j
  <2>6. OfClass(one, k) = <<>>
    BY <1>1, <1>5, OfClassOne DEF one
  <2>7. Joined(<<>>, OfClass(s, k)) = OfClass(s, k)
    <3> DEFINE a == OfClass(s, k)
    <3>1. a \in Seq(SetOf(a))
      BY OfClassType DEF List
    <3> HIDE DEF a
    <3>2. Joined(<<>>, a) = a
      BY ONLY <3>1 DEF Joined
    <3> QED
      BY <3>2 DEF a
  <2> QED
    BY <2>2, <2>3, <2>4, <2>5, <2>6, <2>7
<1> QED
  BY <1>5 DEF Bounded

(* A relay-forward of the server's own holds only an interface-id.         *)
LEMMA OwnIsBounded ==
    ASSUME NEW o
    PROVE  Bounded(<<o>>)
<1> DEFINE s == <<o>>
<1>1. List(s) /\ Len(s) = 1 /\ \A k : OfClass(s, k) = IF o.class = k THEN s ELSE <<>>
  BY OfClassOne
<1>2. Len(<<>>) = 0
  OBVIOUS
<1> HIDE DEF s
<1>3. ASSUME NEW k \in DOMAIN MayContain["RelayReplyMessage"]
      PROVE  Len(OfClass(s, k)) <= MayContain["RelayReplyMessage"][k].max
  <2>1. MayContain["RelayReplyMessage"][k].max \in {1, Infinite}
    BY RelayTable DEF ForRelays, RelayMessages
  <2>2. Len(OfClass(s, k)) \in {0, 1}
    BY <1>1, <1>2
  <2> DEFINE n == Len(OfClass(s, k))
             max == MayContain["RelayReplyMessage"][k].max
  <2> HIDE DEF n, max
  <2>3. n \in {0, 1} /\ max \in {1, Infinite}
    BY <2>1, <2>2 DEF n, max
  <2>4. n <= max
    BY ONLY <2>3, InfiniteIsLarge
  <2> QED
    BY <2>4 DEF n, max
<1>4. Bounded(s)
  BY <1>1, <1>3 DEF Bounded
<1> QED
  BY <1>4 DEF s

LEMMA EchoingNothing ==
    ASSUME NEW value, NEW from
    PROVE  Echoing(<<Option(Wrapping, value)>>, from)
<1> DEFINE o == Option(Wrapping, value)
           s == <<o>>
<1>1. o.class = Wrapping
  BY DEF Option
<1> HIDE DEF o
<1>2. /\ List(s) /\ SetOf(s) = {o} /\ Len(s) = 1
      /\ \A k : OfClass(s, k) = IF o.class = k THEN s ELSE <<>>
  BY OfClassOne
<1>3. MayHold("RelayReplyMessage", Wrapping)
  BY AnswerKeys, ElementOf DEF Wrapping, Named, S46Containers, RelayMessages
<1> HIDE DEF s
<1>4. Echoing(s, from)
  BY <1>1, <1>2, <1>3 DEF Echoing
<1> QED
  BY <1>4 DEF s, o

LEMMA EchoingMore ==
    ASSUME NEW from, List(from), NEW to, Echoing(to, from),
           NEW class, class # Wrapping, MayHold("RelayReplyMessage", class)
    PROVE  Echoing(Copied(from, to, class), from)
<1> DEFINE A == OfType(from, class)
           B == NotOfType(to, class)
           C == Copied(from, to, class)
<1>1. List(from) /\ List(to) /\ List(A) /\ List(B) /\ List(C)
  BY CopiedType DEF Echoing
<1>2. \A c : OfClass(C, c) = IF class \in Lineage(c) THEN OfClass(from, c)
                             ELSE OfClass(to, c)
  BY <1>1, OfClassCopied
<1>3. "RelayReplyMessage" \in RelayMessages
  BY DEF RelayMessages
<1>4. OfClass(C, Wrapping) = OfClass(to, Wrapping)
  <2>1. Wrapping \notin S46Containers
    BY DEF S46Containers, Wrapping
  <2>2. class \notin Lineage(Wrapping)
    BY <1>3, <2>1, LeafClass
  <2> QED
    BY <1>2, <2>2
<1>5. SetOf(A) \subseteq IsA(from, class) /\ SetOf(B) \subseteq SetOf(to)
  <2> DEFINE S == IsA(from, class)
             T == {o \in SetOf(to) : class \notin Lineage(o.class)}
  <2>1. A = Those(from, S) /\ B = Those(to, T)
    BY OfTypeThose
  <2> HIDE DEF S, T, A, B
  <2>2. SetOf(Those(from, S)) \subseteq SetOf(from) \cap S
    BY <1>1, ThoseType
  <2>3. SetOf(Those(to, T)) \subseteq SetOf(to) \cap T
    BY <1>1, ThoseType
  <2> QED
    BY <2>1, <2>2, <2>3 DEF S
<1>6. SetOf(C) = SetOf(A) \cup SetOf(B)
  <2> HIDE DEF A, B
  <2>1. SetOf(Joined(A, B)) = SetOf(A) \cup SetOf(B)
    BY <1>1, JoinedLists
  <2> QED
    BY <2>1 DEF Copied, A, B
<1>7. \A o \in IsA(from, class) : MayHold("RelayReplyMessage", o.class)
  <2> TAKE o \in IsA(from, class)
  <2>1. class \in Lineage(o.class)
    BY DEF IsA
  <2>2. CASE o.class \notin S46Containers
    BY <1>3, <2>1, <2>2, LeafClass
  <2>3. CASE o.class \in S46Containers
    <3>1. BaseClasses(o.class) = {"S46ContainerOption", "Option"}
      BY <2>3 DEF BaseClasses, S46Containers, RelayMessages, ClientServerMessages, Assigning,
                  Configuring
    <3>2. Named(class) \in {"S46ContainerOption", "Option"}
      BY <2>1, <2>3, <3>1 DEF Lineage, Named
    <3>3. Named(class) \in DOMAIN MayContain["RelayReplyMessage"]
      BY <1>3, ElementOf
    <3>4. Named(class) \notin Bases \cup {"S46ContainerOption"}
      BY <1>3, <3>3, RelayTable DEF ForRelays
    <3> QED
      BY <3>2, <3>4 DEF Bases
  <2> QED
    BY <2>2, <2>3
<1> HIDE DEF A, B, C
<1>8. \A o \in SetOf(C) : MayHold("RelayReplyMessage", o.class)
  BY <1>5, <1>6, <1>7 DEF Echoing
<1>9. \A c : c # Wrapping => OfClass(C, c) = <<>> \/ OfClass(C, c) = OfClass(from, c)
  BY <1>2 DEF Echoing
<1>10. Len(OfClass(C, Wrapping)) = 1
  BY <1>4 DEF Echoing
<1>11. Echoing(C, from)
  BY <1>1, <1>8, <1>9, <1>10 DEF Echoing
<1> QED
  BY <1>11 DEF C

-----------------------------------------------------------------------------
(* The options of an answer                                                *)

(* What a response that n - 1 handlers have seen holds.                    *)
Held(type, s, n, asked) ==
    /\ Allowed(type, s)
    /\ n > 2 => Has(s, "ServerIdOption")
    /\ n > 3 => Has(s, "ClientIdOption")
    /\ ~asked => ~Has(s, "ClientDataOption") /\ ~Has(s, "LQClientLink")

BulkOnly(messages) == List(messages) /\ \A m \in SetOf(messages) : m.type \in InBulk

AnswerInv ==
    /\ UnderWay => /\ Valid(packet) /\ request = packet.request
                   /\ request.type \in FromClients
    /\ BulkOnly(following)
    /\ stage \in {"pre", "init"} => response = NoMessage /\ ~queried
    /\ stage \in {"handle", "post"} =>
          /\ response = Message(ResponseType, response.options)
          /\ SeveralClientIds
             \/ Held(ResponseType, response.options, IF stage = "handle" THEN next ELSE 5,
                     queried)
    /\ stage = "send" /\ response # NoMessage =>
          SeveralClientIds \/ (response.type \in AnswerTypes
                               /\ Complete(response.type, response.options))
    /\ stage = "sent" =>
          \/ SeveralClientIds \/ sent.message.type \in InBulk
          \/ ValidContents(sent.message.type, Classes(sent.message.options))

LEMMA ResponseTypes == ResponseType \in AnswerTypes
BY DEF ResponseType, AnswerTypes

(* The options that answers hold that are not options of other classes.    *)
LEMMA AnswersHold ==
    ASSUME NEW type \in AnswerTypes
    PROVE  /\ MayHold(type, "ServerIdOption") /\ MayHold(type, "ClientIdOption")
           /\ MayHold(type, "StatusCodeOption")
           /\ type = "LeasequeryReplyMessage" => /\ MayHold(type, "ClientDataOption")
                                                 /\ MayHold(type, "LQClientLink")
           /\ type = "ReplyMessage" => MayHold(type, "RapidCommitOption")
BY AnswerKeys, ElementOf DEF Named, S46Containers

LEMMA HeldGrows ==
    ASSUME NEW type, NEW s, NEW t, NEW n \in Nat, NEW asked, NEW again,
           Held(type, s, n, asked), Allowed(type, t),
           n = 2 => Has(t, "ServerIdOption"), n = 3 => Has(t, "ClientIdOption"),
           \A c \in {"ServerIdOption", "ClientIdOption"} : Has(s, c) => Has(t, c),
           ~again => /\ ~asked
                     /\ \A c \in {"ClientDataOption", "LQClientLink"} : Has(t, c) => Has(s, c)
    PROVE  Held(type, t, n + 1, again)
<1>1. n + 1 > 2 => n > 2 \/ n = 2
  OBVIOUS
<1>2. n + 1 > 3 => n > 3 \/ n = 3
  OBVIOUS
<1>3. n + 1 > 2 => Has(t, "ServerIdOption")
  BY <1>1 DEF Held
<1>4. n + 1 > 3 => Has(t, "ClientIdOption")
  BY <1>2 DEF Held
<1>5. ~again => ~Has(t, "ClientDataOption") /\ ~Has(t, "LQClientLink")
  BY DEF Held
<1> QED
  BY <1>3, <1>4, <1>5 DEF Held

LEMMA AppendIsJoined ==
    ASSUME NEW A, NEW s \in Seq(A), NEW x
    PROVE  Append(s, x) = Joined(s, <<x>>)
<1> DEFINE B == A \cup {x}
           t == <<x>>
<1>1. s \in Seq(B) /\ t \in Seq(B) /\ Len(t) = 1 /\ t[1] = x /\ x \in B /\ Len(s) \in Nat
  OBVIOUS
<1> DEFINE u == Append(s, x)
           v == s \o t
<1> HIDE DEF t, B
<1>2. /\ u \in Seq(B) /\ Len(u) = Len(s) + 1 /\ u[Len(s) + 1] = x
      /\ \A i \in 1..Len(s) : u[i] = s[i]
  BY <1>1
<1>3. v \in Seq(B) /\ Len(v) = Len(s) + Len(t) /\ \A i \in 1..Len(s) + Len(t) :
              v[i] = IF i <= Len(s) THEN s[i] ELSE t[i - Len(s)]
  <2>1. s \in Seq(B) /\ t \in Seq(B)
    BY <1>1
  <2> QED
    BY ONLY <2>1
<1> HIDE DEF u, v
<1>4. \A i \in 1..Len(s) + 1 : u[i] = v[i]
  <2> TAKE i \in 1..Len(s) + 1
  <2>1. i \in 1..Len(s) \/ i = Len(s) + 1
    BY <1>1
  <2>2. CASE i \in 1..Len(s)
    BY <1>1, <1>2, <1>3, <2>2
  <2>3. CASE i = Len(s) + 1
    <3>1. ~(i <= Len(s)) /\ i - Len(s) = 1
      BY <1>1, <2>3
    <3> QED
      BY <1>1, <1>2, <1>3, <2>3, <3>1
  <2> QED
    BY <2>1, <2>2, <2>3
<1>5. u = v
  BY <1>1, <1>2, <1>3, <1>4
<1> QED
  BY <1>5 DEF u, v, t, Joined

(* An option takes the place of those of its class.                        *)
LEMMA OptionReplaced ==
    ASSUME NEW type \in AnswerTypes, NEW s, Allowed(type, s),
           NEW new, MayHold(type, new.class), NEW rest, rest = NotOfType(s, new.class),
           NEW t, t = Joined(<<new>>, rest) \/ t = Append(rest, new)
    PROVE  /\ Allowed(type, t)
           /\ \A c : c \notin S46Containers => (Has(t, c) <=> Has(s, c) \/ c = new.class)
<1> DEFINE one == <<new>>
<1>1. Allowed(type, one) /\ \A c : Has(one, c) <=> c = new.class
  BY AllowedOne
<1>2. Allowed(type, rest) /\ \A c : Has(rest, c) <=> Has(s, c) /\ new.class \notin Lineage(c)
  BY AllowedRest
<1> HIDE DEF one
<1>3. \A c : ~Has(one, c) \/ ~Has(rest, c)
  BY <1>1, <1>2 DEF Lineage
<1>4. /\ Allowed(type, Joined(one, rest))
      /\ \A c : Has(Joined(one, rest), c) <=> Has(one, c) \/ Has(rest, c)
  BY <1>1, <1>2, <1>3, AllowedJoined
<1>5. /\ Allowed(type, Joined(rest, one))
      /\ \A c : Has(Joined(rest, one), c) <=> Has(one, c) \/ Has(rest, c)
  BY <1>1, <1>2, <1>3, AllowedJoined
<1>6. Allowed(type, t) /\ \A c : Has(t, c) <=> Has(one, c) \/ Has(rest, c)
  <2>1. Append(rest, new) = Joined(rest, one)
    <3>1. rest \in Seq(SetOf(rest))
      BY <1>2 DEF Allowed, List
    <3> QED
      BY <3>1, AppendIsJoined DEF one
  <2> QED
    BY <1>4, <1>5, <2>1 DEF one
<1>7. \A c : c \notin S46Containers => (new.class \in Lineage(c) <=> new.class = c)
  BY LeafClass
<1> QED
  BY <1>1, <1>2, <1>6, <1>7

(* An option is added when there is none of its class.                     *)
LEMMA OptionAdded ==
    ASSUME NEW type, NEW s, Allowed(type, s), NEW new, MayHold(type, new.class),
           ~Has(s, new.class), NEW t, t = Append(s, new) \/ t = Joined(<<new>>, s)
    PROVE  Allowed(type, t) /\ \A c : Has(t, c) <=> Has(s, c) \/ c = new.class
<1> DEFINE one == <<new>>
<1>1. Allowed(type, one) /\ \A c : Has(one, c) <=> c = new.class
  BY AllowedOne
<1> HIDE DEF one
<1>2. \A c : ~Has(one, c) \/ ~Has(s, c)
  BY <1>1
<1>3. /\ Allowed(type, Joined(one, s))
      /\ \A c : Has(Joined(one, s), c) <=> Has(one, c) \/ Has(s, c)
  BY <1>1, <1>2, AllowedJoined
<1>4. /\ Allowed(type, Joined(s, one))
      /\ \A c : Has(Joined(s, one), c) <=> Has(one, c) \/ Has(s, c)
  BY <1>1, <1>2, AllowedJoined
<1>5. Append(s, new) = Joined(s, one)
  BY AppendIsJoined DEF Allowed, List, one
<1> QED
  BY <1>1, <1>3, <1>4, <1>5 DEF one

(* The client-ids of a request that has one.                               *)
LEMMA OwnClientId ==
    ASSUME NEW type \in AnswerTypes, NEW s, List(s), Has(s, "ClientIdOption"),
           ~(Len(OfType(s, "ClientIdOption")) > 1)
    PROVE  LET ids == OfType(s, "ClientIdOption")
           IN  /\ Allowed(type, ids) /\ \A c : Has(ids, c) <=> c = "ClientIdOption"
               /\ ids # <<>> /\ ids[1].class = "ClientIdOption"
<1> DEFINE k == "ClientIdOption"
           ids == OfType(s, k)
<1>1. ids = OfClass(s, k)
  BY OfTypeOfLeaf, ClientIdIsLeaf
<1>2. List(ids) /\ Len(ids) \in Nat /\ Len(ids) > 0
  BY <1>1, OfClassType
<1>3. \A o \in SetOf(ids) : o.class = k
  <2> DEFINE S == {o \in SetOf(s) : o.class = k}
  <2>1. ids = Those(s, S)
    BY <1>1 DEF OfClass
  <2> HIDE DEF S, ids
  <2>2. SetOf(Those(s, S)) \subseteq SetOf(s) \cap S
    BY ThoseType
  <2> QED
    BY <2>1, <2>2 DEF S
<1>4. \A c : OfClass(ids, c) = IF k \in Lineage(c) THEN OfClass(s, c) ELSE <<>>
  BY OfClassOfType
<1>5. \A c : k \in Lineage(c) <=> c = k
  BY ClientIdIsLeaf
<1>6. OfClass(s, k) # <<>> /\ Len(OfClass(s, k)) <= 1 /\ Len(<<>>) <= 1
  <2>1. Len(ids) <= 1
    BY <1>2
  <2> QED
    BY <1>1, <2>1 DEF Has
<1>7. MayHold(type, k)
  BY AnswersHold
<1> HIDE DEF ids
<1>8. Allowed(type, ids) /\ \A c : Has(ids, c) <=> c = k
  BY <1>2, <1>3, <1>4, <1>5, <1>6, <1>7 DEF Allowed, Has
<1>9. ids # <<>> /\ ids[1] \in SetOf(ids)
  <2>1. 1 \in DOMAIN ids /\ ids # <<>>
    BY <1>2 DEF List
  <2> QED
    BY <2>1 DEF SetOf
<1> QED
  BY <1>3, <1>8, <1>9 DEF ids

(* The options of a status reply, one after the other.                     *)
LEMMA ThreeAppended ==
    ASSUME NEW a, NEW b, NEW c
    PROVE  Append(Append(<<a>>, b), c) = <<a, b, c>>
<1> DEFINE A == {a, b, c}
           s == <<a>>
           t == Append(s, b)
           u == Append(t, c)
           v == <<a, b, c>>
<1>1. a \in A /\ b \in A /\ c \in A
  OBVIOUS
<1> HIDE DEF A
<1>2. v \in Seq(A) /\ Len(v) = 3 /\ v[1] = a /\ v[2] = b /\ v[3] = c
  BY <1>1
<1>3. s \in Seq(A) /\ Len(s) = 1 /\ s[1] = a
  BY <1>1
<1> HIDE DEF s, v
<1>4. t \in Seq(A) /\ Len(t) = 2 /\ t[1] = a /\ t[2] = b
  <2>1. /\ t \in Seq(A) /\ Len(t) = Len(s) + 1 /\ t[Len(s) + 1] = b
        /\ \A i \in 1..Len(s) : t[i] = s[i]
    <3>1. s \in Seq(A) /\ b \in A /\ Len(s) \in Nat
      BY <1>1, <1>3
    <3> QED
      BY ONLY <3>1
  <2> HIDE DEF t
  <2> QED
    BY <1>3, <2>1
<1> HIDE DEF t
<1>5. u \in Seq(A) /\ Len(u) = 3 /\ u[1] = a /\ u[2] = b /\ u[3] = c
  <2>1. /\ u \in Seq(A) /\ Len(u) = Len(t) + 1 /\ u[Len(t) + 1] = c
        /\ \A i \in 1..Len(t) : u[i] = t[i]
    <3>1. t \in Seq(A) /\ c \in A /\ Len(t) \in Nat
      BY <1>1, <1>4
    <3> QED
      BY ONLY <3>1
  <2> HIDE DEF u
  <2> QED
    BY <1>4, <2>1
<1> HIDE DEF u
<1>6. u = v
  BY <1>2, <1>5
<1> QED
  BY <1>6 DEF u, t, s, v

LEMMA NoneIsBulk == BulkOnly(<<>>)
BY OfClassNone DEF BulkOnly

LEMMA RequestIs ==
    ASSUME MirrorInv, AnswerInv, UnderWay
    PROVE  /\ List(request.options) /\ Has(request.options, "ClientIdOption")
           /\ request.type \in FromClients
<1>1. packet \in Packets /\ Valid(packet) /\ request = packet.request
      /\ request.type \in FromClients
  BY DEF MirrorInv, AnswerInv
<1>2. request \in Requests
  BY <1>1 DEF Packets
<1>3. List(request.options)
  BY <1>2, AnswersAssumption DEF List, SetOf
<1>4. ValidContents(request.type, Classes(request.options))
  BY <1>1 DEF Valid
<1> QED
  BY <1>1, <1>3, <1>4, RequestHolds

(* A response that only tells of an error.                                 *)
LEMMA StatusReplyIsComplete ==
    ASSUME MirrorInv, AnswerInv, UnderWay, ~SeveralClientIds,
           NEW type \in {"ReplyMessage", "LeasequeryReplyMessage"}
    PROVE  /\ StatusReply(type).type \in AnswerTypes
           /\ Complete(StatusReply(type).type, StatusReply(type).options)
<1> DEFINE ids == OfType(request.options, "ClientIdOption")
           a == ids[1]
           b == Option("ServerIdOption", OurId)
           c == Option("StatusCodeOption", NoValue)
           options == <<a, b, c>>
<1>1. StatusReply(type).type = type /\ StatusReply(type).options = options
  BY DEF StatusReply, Message
<1>2. type \in AnswerTypes
  BY DEF AnswerTypes
<1>3. a.class = "ClientIdOption"
  BY <1>2, RequestIs, OwnClientId DEF SeveralClientIds
<1>4. b.class = "ServerIdOption" /\ c.class = "StatusCodeOption"
  BY DEF Option
<1>5. /\ MayHold(type, a.class) /\ MayHold(type, b.class) /\ MayHold(type, c.class)
  BY <1>2, <1>3, <1>4, AnswersHold
<1> HIDE DEF ids, a, b, c, options
<1> DEFINE one == <<a>>
           two == Append(one, b)
           three == Append(two, c)
<1>6. three = options
  BY ThreeAppended DEF options
<1>7. Allowed(type, one) /\ \A k : Has(one, k) <=> k = a.class
  BY <1>5, AllowedOne
<1> HIDE DEF one
<1>8. Allowed(type, two) /\ \A k : Has(two, k) <=> Has(one, k) \/ k = b.class
  BY <1>3, <1>4, <1>5, <1>7, OptionAdded
<1> HIDE DEF two
<1>9. Allowed(type, three) /\ \A k : Has(three, k) <=> Has(two, k) \/ k = c.class
  BY <1>3, <1>4, <1>5, <1>7, <1>8, OptionAdded
<1> HIDE DEF three
<1>10. Complete(type, three)
  BY <1>3, <1>4, <1>7, <1>8, <1>9 DEF Complete
<1> QED
  BY <1>1, <1>2, <1>6, <1>10

-----------------------------------------------------------------------------
(* Each step keeps what the answer holds                                   *)

LEMMA AnswerReceived ==
    ASSUME MirrorInv, AnswerInv, ReceiveRequest \/ ReceiveOther \/ Abandon
    PROVE  AnswerInv'
<1>1. CASE ReceiveRequest
  BY <1>1, NoneIsBulk DEF AnswerInv, UnderWay, ReceiveRequest, Accepted
<1>2. CASE ReceiveOther
  <2>1. response' = NoMessage /\ stage' = "send" /\ following' = following
    BY <1>2 DEF ReceiveOther, MirrorInv, bundle
  <2> QED
    BY <2>1 DEF AnswerInv, UnderWay
<1>3. CASE Abandon
  BY <1>3, NoneIsBulk DEF AnswerInv, UnderWay, Abandon
<1> QED
  BY <1>1, <1>2, <1>3

(* Something else than the answer is sent, or nothing.                     *)
LEMMA AnswerStopped ==
    ASSUME AnswerInv, NEW message, StopWith(message), UnderWay,
           \/ message = NoMessage \/ SeveralClientIds
           \/ message.type \in AnswerTypes /\ Complete(message.type, message.options)
    PROVE  AnswerInv'
<1>1. SeveralClientIds' = SeveralClientIds
  BY DEF StopWith, SeveralClientIds
<1> QED
  BY <1>1 DEF AnswerInv, UnderWay, StopWith

LEMMA AnswerRefused ==
    ASSUME MirrorInv, AnswerInv,
           Pre \/ Ignore \/ RefuseUnicast \/ RefuseLeasequery \/ InitResponse
    PROVE  AnswerInv'
<1>1. UnderWay
  BY DEF UnderWay, Pre, Ignore, RefuseUnicast, RefuseLeasequery, InitResponse
<1>2. CASE Pre
  BY <1>1, <1>2 DEF AnswerInv, UnderWay, Pre, bundle
<1>3. CASE Ignore
  BY <1>1, <1>3, AnswerStopped DEF Ignore
<1>4. CASE RefuseUnicast
  BY <1>1, <1>4, AnswerStopped, StatusReplyIsComplete DEF RefuseUnicast
<1>5. CASE RefuseLeasequery
  BY <1>1, <1>5, AnswerStopped, StatusReplyIsComplete DEF RefuseLeasequery
<1>6. CASE StopWith(NoMessage)
  BY <1>1, <1>6, AnswerStopped
<1>7. CASE /\ stage = "init" /\ stage' = "handle" /\ next' = 1
           /\ response' = Message(ResponseType, <<>>)
           /\ UNCHANGED <<packet, request, following, queried>>
  <2>1. ResponseType' = ResponseType
    BY <1>7 DEF ResponseType
  <2>2. response'.options = <<>> /\ response' = Message(ResponseType, response'.options)
    BY <1>7 DEF Message
  <2>3. Held(ResponseType, <<>>, 1, queried)
    BY AllowedNone DEF Held
  <2> QED
    BY <1>1, <1>7, <2>1, <2>2, <2>3 DEF AnswerInv, UnderWay
<1> QED
  BY <1>2, <1>3, <1>4, <1>5, <1>6, <1>7 DEF InitResponse

(* A handler leaves a response that is as it should be after it.           *)
LEMMA AnswerHandled ==
    ASSUME MirrorInv, AnswerInv, stage = "handle", Proceed, BulkOnly(following'),
           NEW options, response' = Message(ResponseType, options),
           SeveralClientIds \/ Held(ResponseType, options, next + 1, queried')
    PROVE  AnswerInv'
<1>1. UNCHANGED <<packet, request>> /\ UnderWay
  BY DEF Proceed, UnderWay
<1>2. ResponseType' = ResponseType /\ SeveralClientIds' = SeveralClientIds
  BY <1>1 DEF ResponseType, SeveralClientIds
<1>3. response'.options = options
  BY DEF Message
<1>4. next \in Nat /\ Len(Chain) >= 5
  <2>1. next \in 1..Len(Chain) /\ handlers \in Handlers
    BY DEF MirrorInv
  <2> QED
    BY <2>1, ChainOfHandlers
<1>5. CASE next = Len(Chain) /\ stage' = "post"
  <2>1. next + 1 > 2 /\ next + 1 > 3 /\ 5 > 2 /\ 5 > 3
    BY <1>4, <1>5
  <2>2. Held(ResponseType, options, next + 1, queried')
           => Held(ResponseType, options, 5, queried')
    BY <2>1 DEF Held
  <2> QED
    BY <1>1, <1>2, <1>3, <1>5, <2>2 DEF AnswerInv, UnderWay
<1>6. CASE next' = next + 1 /\ stage' = stage
  BY <1>1, <1>2, <1>3, <1>6 DEF AnswerInv, UnderWay
<1> QED
  BY <1>5, <1>6 DEF Proceed

LEMMA AnswerInHandle ==
    ASSUME MirrorInv, AnswerInv, stage = "handle"
    PROVE  /\ response = Message(ResponseType, response.options)
           /\ response.type = ResponseType /\ UnderWay
           /\ SeveralClientIds \/ Held(ResponseType, response.options, next, queried)
           /\ next \in 1..Len(Chain) /\ next \in Nat /\ handlers \in Handlers
           /\ BulkOnly(following)
<1>1. response = Message(ResponseType, response.options) /\ UnderWay
  BY DEF AnswerInv, UnderWay
<1>2. response.type = ResponseType
  <2> DEFINE type == ResponseType
             options == response.options
  <2>1. response = Message(type, options)
    BY <1>1
  <2> HIDE DEF type, options
  <2>2. response.type = type
    BY <2>1 DEF Message
  <2> QED
    BY <2>2 DEF type
<1>3. next \in 1..Len(Chain) /\ handlers \in Handlers
  BY DEF MirrorInv
<1>4. next \in Nat
  BY <1>3, ChainOfHandlers
<1> QED
  BY <1>1, <1>2, <1>3, <1>4 DEF AnswerInv

LEMMA SetOptionsIs ==
    ASSUME response = Message(ResponseType, response.options), NEW t, SetOptions(t)
    PROVE  response' = Message(ResponseType, t)
<1> DEFINE type == ResponseType
           options == response.options
<1>1. response = [type |-> type, options |-> options]
  BY DEF Message
<1>2. response' = [response EXCEPT !.options = t]
  BY DEF SetOptions
<1> HIDE DEF type, options
<1>3. response' = [type |-> type, options |-> t]
  BY ONLY <1>1, <1>2
<1> QED
  BY <1>3 DEF Message, type

(* A handler that leaves the response as it is.                            *)
LEMMA AnswerPassed ==
    ASSUME MirrorInv, AnswerInv, stage = "handle", next \notin {2, 3}, Proceed,
           UNCHANGED response, BulkOnly(following'), ~queried' => ~queried
    PROVE  AnswerInv'
<1> DEFINE s == response.options
<1>1. /\ response = Message(ResponseType, s) /\ next \in Nat
      /\ SeveralClientIds \/ Held(ResponseType, s, next, queried)
  BY AnswerInHandle
<1> HIDE DEF s
<1>2. SeveralClientIds \/ Held(ResponseType, s, next + 1, queried')
  <2>1. CASE Held(ResponseType, s, next, queried)
    <3>1. Allowed(ResponseType, s)
      BY <2>1 DEF Held
    <3> QED
      BY <1>1, <2>1, <3>1, HeldGrows
  <2> QED
    BY <1>1, <2>1
<1>3. response' = Message(ResponseType, s)
  BY <1>1
<1> QED
  BY <1>2, <1>3, AnswerHandled

LEMMA AnswerOverwritten ==
    ASSUME MirrorInv, AnswerInv, OverwriteOption
    PROVE  AnswerInv'
<1> DEFINE h == Chain[next]
           new == h.option
           class == new.class
           s == response.options
           type == ResponseType
           rest == NotOfType(s, class)
           t == Overwritten(s, new)
<1>1. stage = "handle" /\ h.kind = "Overwrite" /\ Proceed /\ UNCHANGED <<following, queried>>
  BY DEF OverwriteOption, At, Onward
<1>2. /\ response = Message(type, s) /\ response.type = type
      /\ SeveralClientIds \/ Held(type, s, next, queried)
      /\ next \in 1..Len(Chain) /\ next \in Nat /\ handlers \in Handlers
      /\ BulkOnly(following)
  BY <1>1, AnswerInHandle
<1>3. BulkOnly(following')
  BY <1>1, <1>2
<1>4. /\ next # 3
      /\ next = 2 => class = "ServerIdOption" /\ h.always
      /\ next # 2 => class \notin {"ClientDataOption", "LQClientLink"}
  <2>1. Chain[3].kind = "Copy"
    BY <1>2, ChainIs
  <2>2. next = 2 => h = [kind |-> "Overwrite", option |-> Option("ServerIdOption", OurId),
                         always |-> TRUE]
    BY <1>2, ChainIs
  <2>3. next = 2 => class = "ServerIdOption" /\ h.always
    BY <2>2 DEF Option
  <2>4. next \notin {2, 3} => class \notin {"ClientDataOption", "LQClientLink"}
    BY <1>1, <1>2, ChainOfHandlers
  <2>5. next # 3
    BY <1>1, <2>1
  <2> QED
    BY <2>3, <2>4, <2>5
<1>5. type \in AnswerTypes
  BY ResponseTypes
<1>6. CASE ~Welcome(class, h.always)
  <2>1. UNCHANGED response
    BY <1>6 DEF OverwriteOption, Handler
  <2>2. next # 2
    BY <1>2, <1>4, <1>5, <1>6, AnswersHold DEF Welcome, Requested
  <2> QED
    BY <1>1, <1>3, <1>4, <2>1, <2>2, AnswerPassed
<1>7. CASE Welcome(class, h.always)
  <2>1. MayHold(type, class)
    BY <1>2, <1>7 DEF Welcome
  <2>2. SetOptions(t)
    BY <1>7 DEF OverwriteOption, Handler
  <2>3. t = Joined(<<new>>, rest)
    BY DEF Overwritten, Joined
  <2> HIDE DEF h, new, class, s, type, rest, t
  <2>4. response' = Message(type, t)
    BY <1>2, <2>2, SetOptionsIs DEF type, s
  <2>5. SeveralClientIds \/ Held(type, t, next + 1, queried')
    <3>1. CASE Held(type, s, next, queried)
      <4>1. Allowed(type, s)
        BY <3>1 DEF Held
      <4>2. /\ Allowed(type, t)
            /\ \A c : c \notin S46Containers => (Has(t, c) <=> Has(s, c) \/ c = class)
        BY <1>5, <2>1, <2>3, <4>1, OptionReplaced DEF class, rest
      <4>3. {"ServerIdOption", "ClientIdOption", "ClientDataOption", "LQClientLink"}
               \cap S46Containers = {}
        BY DEF S46Containers
      <4>4. /\ next = 2 => Has(t, "ServerIdOption")
            /\ \A c \in {"ServerIdOption", "ClientIdOption"} : Has(s, c) => Has(t, c)
            /\ \A c \in {"ClientDataOption", "LQClientLink"} : Has(t, c) => Has(s, c)
        BY <1>4, <4>2, <4>3
      <4> QED
        BY <1>1, <1>2, <1>4, <3>1, <4>2, <4>4, HeldGrows
    <3> QED
      BY <1>2, <3>1
  <2> QED
    BY <1>1, <1>3, <2>4, <2>5, AnswerHandled DEF type
<1> QED
  BY <1>6, <1>7

LEMMA AnswerCopied ==
    ASSUME MirrorInv, AnswerInv, CopyOption
    PROVE  AnswerInv'
<1> DEFINE k == "ClientIdOption"
           s == response.options
           type == ResponseType
           ids == OfType(request.options, k)
           rest == NotOfType(s, k)
           t == ids \o rest
<1>1. stage = "handle" /\ Chain[next].kind = "Copy" /\ Proceed /\ UNCHANGED <<following, queried>>
  BY DEF CopyOption, At, Onward
<1>2. /\ response = Message(type, s) /\ response.type = type /\ UnderWay
      /\ SeveralClientIds \/ Held(type, s, next, queried)
      /\ next \in 1..Len(Chain) /\ next \in Nat /\ handlers \in Handlers
      /\ BulkOnly(following)
  BY <1>1, AnswerInHandle
<1>3. BulkOnly(following')
  BY <1>1, <1>2
<1>4. next = 3 /\ Chain[next].class = k /\ Chain[next].always
  <2>1. /\ Chain[2].kind = "Overwrite"
        /\ Chain[3] = [kind |-> "Copy", class |-> k, always |-> TRUE]
    BY <1>2, ChainIs
  <2>2. next = 3
    BY <1>1, <1>2, <2>1, ChainOfHandlers
  <2> QED
    BY <2>1, <2>2
<1>5. type \in AnswerTypes
  BY ResponseTypes
<1>6. SetOptions(t)
  <2>1. Welcome(k, TRUE)
    BY <1>2, <1>5, AnswersHold DEF Welcome, Requested
  <2> QED
    BY <1>4, <2>1 DEF CopyOption, Handler
<1>7. List(request.options) /\ Has(request.options, k)
  BY <1>2, RequestIs
<1>8. t = Joined(ids, rest)
  BY DEF Joined
<1>9. ~SeveralClientIds => Allowed(type, ids) /\ \A c : Has(ids, c) <=> c = k
  BY <1>5, <1>7, OwnClientId DEF SeveralClientIds
<1> HIDE DEF s, type, ids, rest, t
<1>10. response' = Message(type, t)
  BY <1>2, <1>6, SetOptionsIs DEF type, s
<1>11. SeveralClientIds \/ Held(type, t, next + 1, queried')
  <2>1. CASE ~SeveralClientIds /\ Held(type, s, next, queried)
    <3>1. Allowed(type, s)
      BY <2>1 DEF Held
    <3>2. Allowed(type, rest) /\ \A c : Has(rest, c) <=> Has(s, c) /\ k \notin Lineage(c)
      BY <3>1, AllowedRest DEF rest
    <3>3. \A c : k \in Lineage(c) <=> c = k
      BY ClientIdIsLeaf
    <3>4. \A c : ~Has(ids, c) \/ ~Has(rest, c)
      BY <1>9, <2>1, <3>2, <3>3
    <3>5. Allowed(type, t) /\ \A c : Has(t, c) <=> Has(ids, c) \/ Has(rest, c)
      BY <1>8, <1>9, <2>1, <3>2, <3>4, AllowedJoined
    <3>6. \A c : Has(t, c) <=> c = k \/ Has(s, c)
      BY <1>9, <2>1, <3>2, <3>3, <3>5
    <3>7. /\ next = 2 => Has(t, "ServerIdOption")
          /\ next = 3 => Has(t, "ClientIdOption")
          /\ \A c \in {"ServerIdOption", "ClientIdOption"} : Has(s, c) => Has(t, c)
          /\ \A c \in {"ClientDataOption", "LQClientLink"} : Has(t, c) => Has(s, c)
      BY <1>4, <3>6
    <3> QED
      BY <1>1, <1>2, <2>1, <3>5, <3>7, HeldGrows
  <2> QED
    BY <1>2, <2>1
<1> QED
  BY <1>1, <1>3, <1>10, <1>11, AnswerHandled DEF type

LEMMA AnswerAdded ==
    ASSUME MirrorInv, AnswerInv, AddOption
    PROVE  AnswerInv'
<1> DEFINE h == Chain[next]
           new == h.option
           class == new.class
           s == response.options
           type == ResponseType
           found == OfType(s, class)
           rest == NotOfType(s, class)
           both == Combined(found, new)
<1>1. stage = "handle" /\ h.kind = "Simple" /\ Proceed /\ UNCHANGED <<following, queried>>
  BY DEF AddOption, At, Onward
<1>2. /\ response = Message(type, s) /\ response.type = type
      /\ SeveralClientIds \/ Held(type, s, next, queried)
      /\ next \in 1..Len(Chain) /\ next \in Nat /\ handlers \in Handlers
      /\ BulkOnly(following)
  BY <1>1, AnswerInHandle
<1>3. BulkOnly(following')
  BY <1>1, <1>2
<1>4. next \notin {2, 3} /\ class \notin {"ClientDataOption", "LQClientLink"}
  <2>1. Chain[3].kind = "Copy" /\ Chain[2].kind = "Overwrite"
    BY <1>2, ChainIs
  <2>2. next \notin {2, 3}
    BY <1>1, <2>1
  <2> QED
    BY <1>1, <1>2, <2>2, ChainOfHandlers
<1>5. type \in AnswerTypes
  BY ResponseTypes
<1>6. both.class = class
  BY DEF Combined, Option
<1>7. \/ UNCHANGED response
      \/ MayHold(type, class) /\ found = <<>> /\ SetOptions(Append(s, new))
      \/ MayHold(type, class) /\ SetOptions(Append(rest, both))
  BY <1>2 DEF AddOption, Welcome, Handler
<1> HIDE DEF h, new, class, s, type, found, rest, both
<1>8. CASE UNCHANGED response
  BY <1>1, <1>3, <1>4, <1>8, AnswerPassed
<1>9. ASSUME NEW t, SetOptions(t),
             Allowed(type, s) => /\ Allowed(type, t)
                                 /\ \A c : c \notin S46Containers =>
                                              (Has(t, c) <=> Has(s, c) \/ c = class)
      PROVE  AnswerInv'
  <2>1. response' = Message(type, t)
    BY <1>2, <1>9, SetOptionsIs DEF type, s
  <2>2. SeveralClientIds \/ Held(type, t, next + 1, queried')
    <3>1. CASE Held(type, s, next, queried)
      <4>1. Allowed(type, s)
        BY <3>1 DEF Held
      <4>2. {"ServerIdOption", "ClientIdOption", "ClientDataOption", "LQClientLink"}
               \cap S46Containers = {}
        BY DEF S46Containers
      <4>3. /\ \A c \in {"ServerIdOption", "ClientIdOption"} : Has(s, c) => Has(t, c)
            /\ \A c \in {"ClientDataOption", "LQClientLink"} : Has(t, c) => Has(s, c)
        BY <1>4, <1>9, <4>1, <4>2
      <4> QED
        BY <1>1, <1>2, <1>4, <1>9, <3>1, <4>1, <4>3, HeldGrows
    <3> QED
      BY <1>2, <3>1
  <2> QED
    BY <1>1, <1>3, <2>1, <2>2, AnswerHandled DEF type
<1>10. CASE MayHold(type, class) /\ found = <<>> /\ SetOptions(Append(s, new))
  <2>1. ASSUME Allowed(type, s)
        PROVE  /\ Allowed(type, Append(s, new))
               /\ \A c : Has(Append(s, new), c) <=> Has(s, c) \/ c = class
    <3>1. List(s) /\ class \in Lineage(class)
      BY <2>1 DEF Allowed, Lineage
    <3>2. OfClass(found, class) = OfClass(s, class)
      BY <3>1, OfClassOfType DEF found
    <3>3. ~Has(s, class)
      BY <1>10, <3>2, OfClassNone DEF Has
    <3> QED
      BY <1>10, <2>1, <3>3, OptionAdded DEF class
  <2> QED
    BY <1>9, <1>10, <2>1
<1>11. CASE MayHold(type, class) /\ SetOptions(Append(rest, both))
  <2>1. ASSUME Allowed(type, s)
        PROVE  /\ Allowed(type, Append(rest, both))
               /\ \A c : c \notin S46Containers =>
                            (Has(Append(rest, both), c) <=> Has(s, c) \/ c = class)
    <3>1. MayHold(type, both.class) /\ rest = NotOfType(s, both.class)
      BY <1>6, <1>11 DEF rest
    <3> DEFINE t == Append(rest, both)
    <3>2. t = Append(rest, both)
      OBVIOUS
    <3> HIDE DEF t
    <3>3. /\ Allowed(type, t)
          /\ \A c : c \notin S46Containers => (Has(t, c) <=> Has(s, c) \/ c = both.class)
      BY <1>5, <2>1, <3>1, <3>2, OptionReplaced
    <3> QED
      BY <1>6, <3>3 DEF t
  <2> QED
    BY <1>9, <1>11, <2>1
<1> QED
  BY <1>7, <1>8, <1>10, <1>11

(* What a bulk answer consists of after its first message.                 *)
LEMMA BulkIs ==
    ASSUME NEW leases \in 0..MaxLeases
    PROVE  BulkOnly(Bulk(leases))
<1> DEFINE t == Bulk(leases)
           m(i) == Message(
               IF i < leases THEN "LeasequeryDataMessage" ELSE "LeasequeryDoneMessage",
               <<Option(IF i < leases THEN "ClientDataOption" ELSE "StatusCodeOption",
                        NoValue)>>)
<1>1. MaxLeases \in Nat
  BY AnswersAssumption
<1>2. leases \in Nat
  BY <1>1
<1>3. t = [i \in 1..leases |-> m(i)]
  BY DEF Bulk
<1>4. \A i \in 1..leases : m(i).type \in InBulk
  <2> TAKE i \in 1..leases
  <2> DEFINE k == IF i < leases THEN "LeasequeryDataMessage" ELSE "LeasequeryDoneMessage"
  <2>1. m(i).type = k
    BY DEF Message
  <2> HIDE DEF m
  <2> QED
    BY <2>1 DEF InBulk
<1> HIDE DEF t, m
<1>5. DOMAIN t = 1..leases /\ \A i \in 1..leases : t[i] = m(i)
  BY <1>3
<1>6. \A i \in 1..leases : t[i] \in SetOf(t)
  BY <1>5 DEF SetOf
<1>7. t \in Seq(SetOf(t))
  BY <1>2, <1>3, <1>6
<1>8. \A x \in SetOf(t) : x.type \in InBulk
  BY <1>4, <1>5 DEF SetOf
<1> QED
  BY <1>7, <1>8 DEF BulkOnly, List, t

LEMMA AnswerQueried ==
    ASSUME MirrorInv, AnswerInv, AnswerLeasequery
    PROVE  AnswerInv'
<1> DEFINE s == response.options
           type == ResponseType
           Put(class) == SetOptions(Append(s, Option(class, NoValue)))
<1>1. stage = "handle" /\ Chain[next].kind = "Leasequery"
  BY DEF AnswerLeasequery, At
<1>2. /\ response = Message(type, s) /\ response.type = type /\ UnderWay
      /\ SeveralClientIds \/ Held(type, s, next, queried)
      /\ next \in 1..Len(Chain) /\ next \in Nat /\ handlers \in Handlers
      /\ BulkOnly(following)
  BY <1>1, AnswerInHandle
<1>3. next > 4
  BY <1>1, <1>2, ChainOfHandlers
<1>4. next \notin {2, 3}
  BY <1>3
<1>5. \/ Onward /\ UNCHANGED response
      \/ /\ request.type = "LeasequeryMessage" /\ ~queried /\ Proceed /\ queried'
         /\ following' = <<>> \/ \E leases \in 0..MaxLeases : following' = Bulk(leases)
         /\ UNCHANGED response \/ Put("ClientDataOption") \/ Put("LQClientLink")
      \/ Abandon
      \/ StopWith(StatusReply("LeasequeryReplyMessage"))
  BY DEF AnswerLeasequery
<1>6. CASE Onward /\ UNCHANGED response
  BY <1>1, <1>2, <1>4, <1>6, AnswerPassed DEF Onward
<1>7. CASE Abandon
  BY <1>7, AnswerReceived
<1>8. CASE StopWith(StatusReply("LeasequeryReplyMessage"))
  BY <1>2, <1>8, AnswerStopped, StatusReplyIsComplete
<1>9. CASE /\ request.type = "LeasequeryMessage" /\ ~queried /\ Proceed /\ queried'
           /\ following' = <<>> \/ \E leases \in 0..MaxLeases : following' = Bulk(leases)
           /\ UNCHANGED response \/ Put("ClientDataOption") \/ Put("LQClientLink")
  <2>1. BulkOnly(following')
    BY <1>9, NoneIsBulk, BulkIs
  <2>2. CASE UNCHANGED response
    BY <1>1, <1>4, <1>9, <2>1, <2>2, AnswerPassed
  <2>3. ASSUME NEW class \in {"ClientDataOption", "LQClientLink"}, Put(class)
        PROVE  AnswerInv'
    <3> DEFINE o == Option(class, NoValue)
               t == Append(s, o)
    <3>1. o.class = class
      BY DEF Option
    <3>2. type = "LeasequeryReplyMessage" /\ type \in AnswerTypes
      BY <1>9, ResponseTypes DEF ResponseType
    <3>3. MayHold(type, o.class)
      BY <3>1, <3>2, AnswersHold
    <3>4. SetOptions(t)
      BY <2>3
    <3> HIDE DEF o, t, s, type
    <3>5. response' = Message(type, t)
      BY <1>2, <3>4, SetOptionsIs DEF s, type
    <3>6. SeveralClientIds \/ Held(type, t, next + 1, queried')
      <4>1. CASE Held(type, s, next, queried)
        <5>1. Allowed(type, s) /\ ~Has(s, o.class)
          BY <1>9, <3>1, <4>1 DEF Held
        <5>2. Allowed(type, t) /\ \A c : Has(t, c) <=> Has(s, c) \/ c = o.class
          BY <3>3, <5>1, OptionAdded DEF t
        <5>3. \A c \in {"ServerIdOption", "ClientIdOption"} : Has(s, c) => Has(t, c)
          BY <5>2
        <5> QED
          BY <1>2, <1>4, <1>9, <4>1, <5>2, <5>3, HeldGrows
      <4> QED
        BY <1>2, <4>1
    <3> QED
      BY <1>1, <1>9, <2>1, <3>5, <3>6, AnswerHandled DEF type
  <2> QED
    BY <1>9, <2>2, <2>3
<1> QED
  BY <1>5, <1>6, <1>7, <1>8, <1>9

LEMMA AnswerCompleted ==
    ASSUME MirrorInv, AnswerInv, AddMissingStatus
    PROVE  AnswerInv'
<1> DEFINE s == response.options
           type == ResponseType
           o == Option("StatusCodeOption", NoValue)
           t == Append(s, o)
<1>1. /\ stage = "handle" /\ Chain[next].kind = "AddMissingStatus" /\ Proceed
      /\ UNCHANGED <<following, queried>>
  BY DEF AddMissingStatus, At, Onward
<1>2. /\ response = Message(type, s) /\ UnderWay
      /\ SeveralClientIds \/ Held(type, s, next, queried)
      /\ next \in 1..Len(Chain) /\ next \in Nat /\ handlers \in Handlers
      /\ BulkOnly(following)
  BY <1>1, AnswerInHandle
<1>3. next \notin {2, 3} /\ BulkOnly(following')
  <2>1. Chain[2].kind = "Overwrite" /\ Chain[3].kind = "Copy"
    BY <1>2, ChainIs
  <2> QED
    BY <1>1, <1>2, <2>1
<1>4. \/ UNCHANGED response
      \/ OfType(s, "StatusCodeOption") = <<>> /\ SetOptions(t)
  BY DEF AddMissingStatus
<1>5. type \in AnswerTypes /\ o.class = "StatusCodeOption"
  BY ResponseTypes DEF Option
<1>6. MayHold(type, o.class)
  BY <1>5, AnswersHold
<1> HIDE DEF s, type, o, t
<1>7. CASE UNCHANGED response
  BY <1>1, <1>3, <1>7, AnswerPassed
<1>8. CASE OfType(s, "StatusCodeOption") = <<>> /\ SetOptions(t)
  <2>1. response' = Message(type, t)
    BY <1>2, <1>8, SetOptionsIs DEF s, type
  <2>2. SeveralClientIds \/ Held(type, t, next + 1, queried')
    <3>1. CASE Held(type, s, next, queried)
      <4>1. Allowed(type, s) /\ List(s)
        BY <3>1 DEF Held, Allowed
      <4>2. "StatusCodeOption" \in Lineage("StatusCodeOption")
        BY DEF Lineage
      <4>3. OfClass(<<>>, "StatusCodeOption") = OfClass(s, "StatusCodeOption")
        BY <1>8, <4>1, <4>2, OfClassOfType
      <4>4. ~Has(s, o.class)
        BY <1>5, <4>3, OfClassNone DEF Has
      <4>5. Allowed(type, t) /\ \A c : Has(t, c) <=> Has(s, c) \/ c = o.class
        BY <1>6, <4>1, <4>4, OptionAdded DEF t
      <4>6. /\ \A c \in {"ServerIdOption", "ClientIdOption"} : Has(s, c) => Has(t, c)
            /\ \A c \in {"ClientDataOption", "LQClientLink"} : Has(t, c) => Has(s, c)
        BY <1>5, <4>5
      <4> QED
        BY <1>1, <1>2, <1>3, <3>1, <4>5, <4>6, HeldGrows
    <3> QED
      BY <1>2, <3>1
  <2> QED
    BY <1>1, <1>3, <2>1, <2>2, AnswerHandled DEF type
<1> QED
  BY <1>4, <1>7, <1>8

LEMMA AnswerLeft ==
    ASSUME MirrorInv, AnswerInv, CopyRelayOption \/ NothingToHandle \/ FailToAddOption
    PROVE  AnswerInv'
<1>1. CASE FailToAddOption
  BY <1>1, AnswerReceived DEF FailToAddOption
<1>2. CASE CopyRelayOption \/ NothingToHandle
  <2>1. /\ stage = "handle" /\ Chain[next].kind \in {"CopyRelay", "RapidCommit"} /\ Proceed
        /\ UNCHANGED <<following, queried, response>>
    BY <1>2 DEF CopyRelayOption, NothingToHandle, At, Onward
  <2>2. handlers \in Handlers /\ BulkOnly(following)
    BY <2>1, AnswerInHandle
  <2>3. Chain[2].kind = "Overwrite" /\ Chain[3].kind = "Copy"
    BY <2>2, ChainIs
  <2>4. next \notin {2, 3}
    BY <2>1, <2>3
  <2> QED
    BY <2>1, <2>2, <2>4, AnswerPassed
<1> QED
  BY <1>1, <1>2

(* An advertise is not a reply yet: the tables let both hold the same      *)
(* options, but for the one that makes it a reply.                         *)
LEMMA AnswerPosted ==
    ASSUME MirrorInv, AnswerInv, Post
    PROVE  AnswerInv'
<1> DEFINE s == response.options
           type == ResponseType
           o == Option("RapidCommitOption", NoValue)
           t == <<o>> \o s
<1>1. /\ stage = "post" /\ stage' = "send" /\ UnderWay
      /\ UNCHANGED <<packet, request, following, queried>>
      /\ \/ UNCHANGED response
         \/ response.type = "AdvertiseMessage" /\ response' = Message("ReplyMessage", t)
  BY DEF Post, UnderWay
<1>2. /\ response = Message(type, s) /\ response.type = type
      /\ SeveralClientIds \/ Held(type, s, 5, queried)
  <2>1. response = Message(type, s) /\ (SeveralClientIds \/ Held(type, s, 5, queried))
    BY <1>1 DEF AnswerInv
  <2> HIDE DEF type, s
  <2>2. response.type = type
    BY <2>1 DEF Message
  <2> QED
    BY <2>1, <2>2
<1>3. SeveralClientIds' = SeveralClientIds
  BY <1>1 DEF SeveralClientIds
<1>4. t = Joined(<<o>>, s) /\ o.class = "RapidCommitOption"
  BY DEF Joined, Option
<1>5. type \in AnswerTypes
  BY ResponseTypes
<1> HIDE DEF s, type, o, t
<1>6. Held(type, s, 5, queried) => Complete(type, s)
  BY DEF Held, Complete
<1>7. /\ response'.type \in AnswerTypes
      /\ SeveralClientIds \/ Complete(response'.type, response'.options)
  <2>1. CASE UNCHANGED response
    <3>1. response'.options = s
      BY <2>1 DEF s
    <3> QED
      BY <1>2, <1>5, <1>6, <2>1, <3>1
  <2>2. CASE response.type = "AdvertiseMessage" /\ response' = Message("ReplyMessage", t)
    <3>1. type = "AdvertiseMessage"
      BY <1>2, <2>2
    <3>2. response'.type = "ReplyMessage" /\ response'.options = t
      BY <2>2 DEF Message
    <3>3. "ReplyMessage" \in AnswerTypes /\ "AdvertiseMessage" \in AnswerTypes
      BY DEF AnswerTypes
    <3>4. ASSUME Complete(type, s)
          PROVE  Complete("ReplyMessage", t)
      <4>1. \A k : MayHold("AdvertiseMessage", k) => MayHold("ReplyMessage", k)
        BY <3>3, ElementOf, KeysHandedOn
      <4>2. Allowed("AdvertiseMessage", s)
        BY <3>1, <3>4 DEF Complete
      <4>3. Allowed("ReplyMessage", s)
        BY <4>1, <4>2 DEF Allowed
      <4>4. ~MayHold("AdvertiseMessage", "RapidCommitOption")
        <5> DEFINE K == DOMAIN MayContain["AdvertiseMessage"]
        <5>1. \A k \in K : ForAnswers("AdvertiseMessage", k,
                                      MayContain["AdvertiseMessage"][k].min,
                                      MayContain["AdvertiseMessage"][k].max)
          BY <3>3, AnswerTable
        <5>2. "RapidCommitOption" \notin K
          BY <5>1 DEF ForAnswers
        <5>3. Named("RapidCommitOption") = "RapidCommitOption"
          BY DEF Named, S46Containers
        <5> QED
          BY <3>3, <5>2, <5>3, ElementOf
      <4>5. ~Has(s, o.class)
        <5>1. List(s) /\ \A x \in SetOf(s) : MayHold("AdvertiseMessage", x.class)
          BY <4>2 DEF Allowed
        <5> QED
          BY <1>4, <4>4, <5>1, OfClassType
      <4>6. MayHold("ReplyMessage", o.class)
        BY <1>4, <3>3, AnswersHold
      <4>7. Allowed("ReplyMessage", t) /\ \A c : Has(t, c) <=> Has(s, c) \/ c = o.class
        BY <1>4, <4>3, <4>5, <4>6, OptionAdded
      <4> QED
        BY <3>4, <4>7 DEF Complete
    <3> QED
      BY <1>2, <1>6, <3>2, <3>3, <3>4
  <2> QED
    BY <1>1, <2>1, <2>2
<1> QED
  BY <1>1, <1>3, <1>7 DEF AnswerInv, UnderWay

(* What is complete is valid, and it is sent as it is.                     *)
LEMMA AnswerSent ==
    ASSUME MirrorInv, AnswerInv, Send \/ SendFollowing
    PROVE  AnswerInv'
<1>1. CASE Send
  <2>1. /\ stage = "send" /\ response # NoMessage /\ sent'.message = response
        /\ stage' = "sent" /\ UNCHANGED <<request, following>>
    BY <1>1 DEF Send
  <2>2. SeveralClientIds' = SeveralClientIds
    BY <2>1 DEF SeveralClientIds
  <2>3. SeveralClientIds \/ ValidContents(response.type, Classes(response.options))
    BY <2>1, CompleteIsValid DEF AnswerInv
  <2> QED
    BY <2>1, <2>2, <2>3 DEF AnswerInv, UnderWay
<1>2. CASE SendFollowing
  <2> DEFINE m == Head(following)
             rest == Tail(following)
  <2>1. /\ stage = "sent" /\ stage' = "sent" /\ following # <<>> /\ following' = rest
        /\ sent' = [sent EXCEPT !.message = m]
    BY <1>2 DEF SendFollowing
  <2>2. BulkOnly(following)
    BY DEF AnswerInv
  <2>3. m \in SetOf(following) /\ List(rest) /\ SetOf(rest) \subseteq SetOf(following)
    <3> DEFINE A == SetOf(following)
    <3>1. following \in Seq(A)
      BY <2>2 DEF BulkOnly, List
    <3> HIDE DEF A
    <3>2. m \in A /\ rest \in Seq(A)
      BY <2>1, <3>1
    <3> HIDE DEF rest
    <3>3. List(rest) /\ SetOf(rest) \subseteq A
      BY <3>2, ListType DEF List
    <3> QED
      BY <3>2, <3>3 DEF A
  <2>4. BulkOnly(rest) /\ m.type \in InBulk
    BY <2>2, <2>3 DEF BulkOnly
  <2>5. sent'.message = m
    <3>1. sent = [relays |-> sent.relays, message |-> sent.message,
                  address |-> sent.address, port |-> sent.port,
                  interface |-> sent.interface]
      BY <2>1 DEF MirrorInv
    <3> HIDE DEF m
    <3> QED
      BY <2>1, <3>1
  <2> HIDE DEF m, rest
  <2> QED
    BY <2>1, <2>4, <2>5 DEF AnswerInv, UnderWay
<1> QED
  BY <1>1, <1>2

LEMMA AnswerStep ==
    ASSUME MirrorInv, AnswerInv, [AnswersNext]_answersVars
    PROVE  AnswerInv'
<1>1. CASE UNCHANGED answersVars
  <2>1. UNCHANGED <<stage, next, packet, request, response, following, queried, sent>>
    BY <1>1 DEF answersVars, bundle
  <2>2. ResponseType' = ResponseType /\ SeveralClientIds' = SeveralClientIds
    BY <2>1 DEF ResponseType, SeveralClientIds
  <2> QED
    BY <2>1, <2>2 DEF AnswerInv, UnderWay
<1>2. CASE AnswersNext
  <2>1. CASE ReceiveRequest \/ ReceiveOther \/ Finish
    BY <2>1, AnswerReceived DEF Finish
  <2>2. CASE Pre \/ Ignore \/ RefuseUnicast \/ RefuseLeasequery \/ InitResponse
    BY <2>2, AnswerRefused
  <2>3. CASE OverwriteOption
    BY <2>3, AnswerOverwritten
  <2>4. CASE CopyOption
    BY <2>4, AnswerCopied
  <2>5. CASE AddOption
    BY <2>5, AnswerAdded
  <2>6. CASE AnswerLeasequery
    BY <2>6, AnswerQueried
  <2>7. CASE AddMissingStatus
    BY <2>7, AnswerCompleted
  <2>8. CASE CopyRelayOption \/ NothingToHandle \/ FailToAddOption
    BY <2>8, AnswerLeft
  <2>9. CASE Post
    BY <2>9, AnswerPosted
  <2>10. CASE Send \/ SendFollowing
    BY <2>10, AnswerSent
  <2> QED
    BY <1>2, <2>1, <2>2, <2>3, <2>4, <2>5, <2>6, <2>7, <2>8, <2>9, <2>10 DEF AnswersNext
<1> QED
  BY <1>1, <1>2

-----------------------------------------------------------------------------
(* What the relay-replies around an answer hold                            *)

Echoes(to, from) == \A i \in 1..Len(from) : Echoing(to[i].options, from[i].options)

EchoInv ==
    /\ stage \in {"handle", "post"} => Echoes(outgoing, incoming)
    /\ stage = "send" /\ response # NoMessage /\ ~refused => Echoes(outgoing, incoming)
    /\ stage = "sent" => \A i \in DOMAIN sent.relays :
          ValidContents("RelayReplyMessage", Classes(sent.relays[i].options))

LEMMA IncomingBounded ==
    ASSUME MirrorInv, AnswerInv, UnderWay
    PROVE  /\ List(incoming)
           /\ \A i \in 1..Len(incoming) : Bounded(incoming[i].options)
<1> DEFINE r == packet.relays
<1>1. packet \in Packets /\ Valid(packet) /\ incoming = Chained(packet)
  BY DEF MirrorInv, AnswerInv
<1>2. /\ List(incoming) /\ Len(incoming) = Len(r) + 1
      /\ DOMAIN r = 1..Len(r) /\ Len(r) \in Nat
      /\ \A i \in 1..Len(r) : incoming[i] = r[i]
      /\ incoming[Len(r) + 1] = OwnRelay(packet)
      /\ \A i \in 1..Len(r) + 1 : List(incoming[i].options)
  BY <1>1, ChainedType
<1> HIDE DEF r
<1>3. ASSUME NEW i \in 1..Len(r) PROVE Bounded(incoming[i].options)
  <2>1. ValidContents("RelayForwardMessage",
                      <<"RelayMessageOption">> \o Classes(r[i].options))
    BY <1>1, <1>2, <1>3 DEF Valid, r
  <2>2. List(r[i].options)
    BY <1>2, <1>3
  <2> QED
    BY <1>2, <1>3, <2>1, <2>2, ForwardIsBounded
<1>4. Bounded(incoming[Len(r) + 1].options)
  <2> DEFINE o == Option("InterfaceIdOption", packet.way.interface)
  <2>1. OwnRelay(packet).options = <<o>>
    BY DEF OwnRelay
  <2>2. Bounded(<<o>>)
    BY OwnIsBounded
  <2> QED
    BY <1>2, <2>1, <2>2
<1>5. \A i \in 1..Len(incoming) : i \in 1..Len(r) \/ i = Len(r) + 1
  BY <1>2
<1> QED
  BY <1>2, <1>3, <1>4, <1>5

(* wrap_response(): nothing is copied yet.                                 *)
LEMMA RepliesEcho ==
    ASSUME NEW from, List(from)
    PROVE  Echoes(RelayReplies(from), from)
<1> DEFINE o == Option("RelayMessageOption", NoValue)
           t == RelayReplies(from)
<1>1. DOMAIN from = 1..Len(from)
  BY DEF List
<1>2. \A i \in 1..Len(from) : t[i].options = <<o>>
  BY <1>1 DEF RelayReplies, RelayReply
<1>3. \A x : Echoing(<<o>>, x)
  BY EchoingNothing DEF Wrapping
<1> HIDE DEF o, t
<1> QED
  BY <1>2, <1>3 DEF Echoes, t

LEMMA EchoKept ==
    ASSUME MirrorInv, AnswerInv, EchoInv,
           UNCHANGED <<incoming, outgoing>>,
           stage' # "sent",
           stage' \in {"handle", "post"} => stage \in {"handle", "post"},
           stage' = "send" /\ response' # NoMessage /\ ~refused' => stage \in {"handle", "post"}
    PROVE  EchoInv'
BY DEF EchoInv

LEMMA EchoBegun ==
    ASSUME MirrorInv, AnswerInv, EchoInv, InitResponse
    PROVE  EchoInv'
<1>1. CASE stage = "init" /\ StopWith(NoMessage)
  BY <1>1, EchoKept DEF StopWith
<1>2. CASE /\ stage = "init" /\ stage' = "handle"
           /\ outgoing' = RelayReplies(incoming) /\ UNCHANGED incoming
  <2>1. List(incoming)
    BY <1>2, IncomingBounded DEF UnderWay
  <2>2. Echoes(outgoing', incoming')
    BY <1>2, <2>1, RepliesEcho
  <2> QED
    BY <1>2, <2>2 DEF EchoInv
<1> QED
  BY <1>1, <1>2 DEF InitResponse

LEMMA EchoCopied ==
    ASSUME MirrorInv, AnswerInv, EchoInv, CopyRelayOption
    PROVE  EchoInv'
<1> DEFINE class == Chain[next].class
           may == MayHold("RelayReplyMessage", class)
<1>1. /\ stage = "handle" /\ Chain[next].kind = "CopyRelay" /\ Proceed
      /\ UNCHANGED incoming /\ stage' \in {"handle", "post"}
  BY DEF CopyRelayOption, At, Onward, Proceed
<1>2. CASE ~may
  <2>1. UNCHANGED outgoing
    BY <1>2 DEF CopyRelayOption, Handler
  <2> QED
    BY <1>1, <2>1, EchoKept
<1>3. CASE may
  <2>1. class # Wrapping
    <3>1. handlers \in Handlers /\ next \in 1..Len(Chain)
      BY <1>1, AnswerInHandle
    <3> QED
      BY <1>1, <3>1, ChainOfHandlers DEF Wrapping, InterfaceId
  <2>2. \A i \in 1..Len(incoming) :
           outgoing'[i].options = Copied(incoming[i].options, outgoing[i].options, class)
    BY <1>3, RelaysCopied
  <2>3. \A i \in 1..Len(incoming) : Bounded(incoming[i].options)
    BY <1>1, IncomingBounded DEF UnderWay
  <2>4. \A i \in 1..Len(incoming) : Echoing(outgoing[i].options, incoming[i].options)
    BY <1>1 DEF EchoInv, Echoes
  <2> HIDE DEF class
  <2>5. ASSUME NEW i \in 1..Len(incoming)
        PROVE  Echoing(outgoing'[i].options, incoming[i].options)
    <3> DEFINE from == incoming[i].options
               to == outgoing[i].options
    <3>1. List(from) /\ Echoing(to, from)
      BY <2>3, <2>4 DEF Bounded
    <3> HIDE DEF from, to
    <3>2. Echoing(Copied(from, to, class), from)
      BY <1>3, <2>1, <3>1, EchoingMore
    <3> QED
      BY <2>2, <3>2 DEF from, to
  <2>6. Echoes(outgoing', incoming')
    BY <1>1, <2>5 DEF Echoes
  <2> QED
    BY <1>1, <2>6 DEF EchoInv
<1> QED
  BY <1>2, <1>3

(* Relay-replies that echo valid relay-forwards are valid.                 *)
LEMMA EchoSent ==
    ASSUME MirrorInv, AnswerInv, EchoInv, Send
    PROVE  EchoInv'
<1> DEFINE relays == IF outgoing = <<>> THEN RelayReplies(incoming) ELSE outgoing
<1>1. stage = "send" /\ response # NoMessage /\ stage' = "sent" /\ sent'.relays = relays
  BY DEF Send
<1>2. UnderWay
  BY <1>1 DEF UnderWay
<1>3. List(incoming) /\ \A i \in 1..Len(incoming) : Bounded(incoming[i].options)
  BY <1>2, IncomingBounded
<1>4. DOMAIN relays = 1..Len(incoming) /\ Echoes(relays, incoming)
  <2>1. CASE outgoing = <<>>
    <3>1. relays = RelayReplies(incoming)
      BY <2>1
    <3>2. List(RelayReplies(incoming)) /\ Len(RelayReplies(incoming)) = Len(incoming)
      BY <1>3, RelayRepliesType
    <3>3. DOMAIN RelayReplies(incoming) = 1..Len(incoming)
      BY <3>2 DEF List
    <3> QED
      BY <1>3, <3>1, <3>3, RepliesEcho
  <2>2. CASE outgoing # <<>>
    <3>1. ~refused /\ Mirrored
      BY <1>1, <2>2 DEF MirrorInv
    <3>2. DOMAIN outgoing = 1..Len(incoming)
      BY <3>1 DEF Mirrored, List
    <3> QED
      BY <1>1, <2>2, <3>1, <3>2 DEF EchoInv
  <2> QED
    BY <2>1, <2>2
<1> HIDE DEF relays
<1>5. \A i \in DOMAIN relays :
         ValidContents("RelayReplyMessage", Classes(relays[i].options))
  BY <1>3, <1>4, EchoingIsValid DEF Echoes
<1> QED
  BY <1>1, <1>5 DEF EchoInv

LEMMA EchoStep ==
    ASSUME MirrorInv, AnswerInv, EchoInv, [AnswersNext]_answersVars
    PROVE  EchoInv'
<1>1. CASE UNCHANGED answersVars
  BY <1>1 DEF EchoInv, answersVars, bundle
<1>2. CASE AnswersNext
  <2>1. CASE ReceiveRequest \/ ReceiveOther \/ Finish
    <3>1. CASE ReceiveRequest \/ Finish
      BY <3>1 DEF EchoInv, ReceiveRequest, Finish, Abandon
    <3>2. CASE ReceiveOther
      <4>1. response' = NoMessage /\ stage' = "send"
        BY <3>2 DEF ReceiveOther, MirrorInv, bundle
      <4> QED
        BY <4>1 DEF EchoInv
    <3> QED
      BY <2>1, <3>1, <3>2
  <2>2. CASE Pre \/ Ignore \/ RefuseUnicast \/ RefuseLeasequery
    <3>1. /\ stage = "pre" /\ stage' \in {"init", "send"}
          /\ stage' = "send" => response' = NoMessage \/ refused'
      BY <2>2 DEF Pre, Ignore, RefuseUnicast, RefuseLeasequery, StopWith
    <3> QED
      BY <3>1 DEF EchoInv
  <2>3. CASE InitResponse
    BY <2>3, EchoBegun
  <2>4. CASE CopyRelayOption
    BY <2>4, EchoCopied
  <2>5. CASE OverwriteOption \/ CopyOption \/ AddOption \/ AddMissingStatus \/ NothingToHandle
    <3>1. stage = "handle" /\ Proceed /\ UNCHANGED outgoing
      BY <2>5 DEF OverwriteOption, CopyOption, AddOption, AddMissingStatus, NothingToHandle,
                  At, Onward
    <3>2. stage' \in {"handle", "post"} /\ UNCHANGED incoming
      BY <3>1 DEF Proceed
    <3> QED
      BY <3>1, <3>2, EchoKept
  <2>6. CASE AnswerLeasequery \/ FailToAddOption
    <3>1. \/ Abandon
          \/ /\ stage = "handle" /\ stage' \in {"handle", "post", "send"}
             /\ UNCHANGED <<incoming, outgoing>>
      BY <2>6 DEF AnswerLeasequery, FailToAddOption, At, Onward, Proceed, StopWith
    <3>2. CASE Abandon
      BY <3>2 DEF EchoInv, Abandon
    <3> QED
      BY <3>1, <3>2, EchoKept
  <2>7. CASE Post
    BY <2>7, EchoKept DEF Post
  <2>8. CASE Send
    BY <2>8, EchoSent
  <2>9. CASE SendFollowing
    <3>1. stage = "sent" /\ stage' = "sent"
          /\ sent' = [sent EXCEPT !.message = Head(following)]
      BY <2>9 DEF SendFollowing
    <3>2. sent'.relays = sent.relays
      <4>1. sent = [relays |-> sent.relays, message |-> sent.message,
                    address |-> sent.address, port |-> sent.port,
                    interface |-> sent.interface]
        BY <3>1 DEF MirrorInv
      <4> QED
        BY <3>1, <4>1
    <3> QED
      BY <3>1, <3>2 DEF EchoInv
  <2> QED
    BY <1>2, <2>1, <2>2, <2>3, <2>4, <2>5, <2>6, <2>7, <2>8, <2>9 DEF AnswersNext
<1> QED
  BY <1>1, <1>2

(* Nobody validates a response in the code, and none needs to: whatever    *)
(* options handlers copy, add and overwrite, and wherever a handler raises *)
(* an exception, send_reply() is given a message with the options that     *)
(* validate_contains() would ask for, in relay-replies of which the same   *)
(* holds.  A leasequery with several client-ids is the exception, as are   *)
(* the messages of a bulk answer, about which there are no tables.         *)
THEOREM ResponsesAreValid == AnswersSpec => []ResponsesValid
<1> DEFINE Inv == MirrorInv /\ AnswerInv /\ EchoInv
<1>1. AnswersInit => Inv
  <2>1. AnswersInit => MirrorInv
    BY DEF AnswersInit, MirrorInv, UnderWay, RelayRepliesMirror
  <2>2. AnswersInit => AnswerInv
    BY NoneIsBulk DEF AnswersInit, AnswerInv, UnderWay
  <2>3. AnswersInit => EchoInv
    BY DEF AnswersInit, EchoInv
  <2> QED
    BY <2>1, <2>2, <2>3
<1>2. Inv /\ [AnswersNext]_answersVars => Inv'
  BY MirrorStep, AnswerStep, EchoStep
<1>3. Inv => ResponsesValid
  BY DEF AnswerInv, EchoInv, ResponsesValid
<1> QED
  BY <1>1, <1>2, <1>3, PTL DEF AnswersSpec
=============================================================================
