----------------------------- MODULE Exchanges -------------------------------
(***************************************************************************)
(* What connections for bulk leasequeries promise, without octets, pieces, *)
(* a queue and locks: the messages of a client are taken one by one, each  *)
(* once, and the reply to each is sent whole and once, or given up.  The   *)
(* replies of one client may overtake each other.                          *)
(***************************************************************************)
EXTENDS Integers

CONSTANTS Conns,
          Count    \* [Conns -> how many messages the client has]
VARIABLES taken,   \* [Conns -> how many of them have been taken]
          waiting, \* those whose reply has not been sent, [conn, number]
          answered \* those whose reply has been

Exchange(c, i) == [conn |-> c, number |-> i]

Init == taken = [c \in Conns |-> 0] /\ waiting = {} /\ answered = {}

Take(c) ==
    /\ taken[c] < Count[c]
    /\ taken' = [taken EXCEPT ![c] = @ + 1]
    /\ waiting' = waiting \cup {Exchange(c, taken[c] + 1)}
    /\ UNCHANGED answered

Answer(e) ==
    /\ e \in waiting /\ waiting' = waiting \ {e}
    /\ answered' = answered \cup {e} /\ UNCHANGED taken

GiveUp(e) ==
    /\ e \in waiting /\ waiting' = waiting \ {e} /\ UNCHANGED <<taken, answered>>

Next == \/ \E c \in Conns : Take(c)
        \/ \E e \in waiting : Answer(e) \/ GiveUp(e)

Spec == Init /\ [][Next]_<<taken, waiting, answered>>
=============================================================================
