----------------------------- MODULE MCParsing ------------------------------
(* Datagrams that have room for a message in a relayed message, with an    *)
(* option in an option in it, and for less; lengths around every limit.    *)
EXTENDS Parsing

AllDatagrams ==
    {[message |-> "ClientServerMessage", size |-> n] : n \in {0, 2, 8, 28, 32}} \cup
    {[message |-> "RelayServerMessage", size |-> n] : n \in {33, 34, 46, 58, 62}} \cup
    {[message |-> "UnknownMessage", size |-> 5]}

HeaderLengths == {0, 1, 2, 3, 4, 8, 12, 16, 20, 24, 25}
Prefixes == {0, 8, 16}
=============================================================================
