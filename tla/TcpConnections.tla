--------------------------- MODULE TcpConnections ---------------------------
(***************************************************************************)
(* Connections for bulk leasequeries: octets that arrive in pieces of any  *)
(* size, requests that the master cuts out of them, replies that workers   *)
(* write to the same connection, and the limit on connections.             *)
(*                                                                         *)
(* Accepted sockets block.  A worker that sends a reply sets a timeout,    *)
(* which makes the connection non-blocking for every process that has it.  *)
(* Which other events the master handles is in module ServerMain, what the *)
(* workers do with a request in MessageHandling and Answers.               *)
(*                                                                         *)
(* Sources: dhcpkit/ipv6/server/listeners/tcp.py and the loop in           *)
(* dhcpkit/ipv6/server/main.py that calls it.                              *)
(***************************************************************************)
EXTENDS Integers, FiniteSets, Sequences, FiniteSetsExt

CONSTANTS
    Conns,          \* connections that clients open
    Messages,       \* [Conns -> sequences of the sizes of their messages]
    Allowed,        \* those from addresses in allow_from
    MaxConnections, \* max_connections
    Workers,
    ReplyOctets,    \* octets of a reply with its length, at least 2
    None

Requests == [conn : Conns, number : Nat]
Jobs == [request : Requests, octets : Seq([message : Nat, index : Nat])]

ASSUME TcpConnectionsAssumption ==
    /\ Messages \in [Conns -> Seq(Nat)] /\ Allowed \subseteq Conns
    /\ MaxConnections \in Nat \ {0} /\ ReplyOctets \in Nat \ {0, 1}
    /\ None \notin Conns \cup Workers \cup Jobs

VARIABLES
    client,      \* "connecting", "open", "eof" or "refused"
    unsent,      \* octets that the client is still to send
    arriving,    \* octets that were sent and not received
    listeners,   \* the TCPConnections among the listeners of main()
    newListener, \* main()'s variable: the connection accepted last
    replier,     \* main()'s variable: that of the last request
    events,      \* main()'s variable: what it refers to that is closed
    reading,     \* the connection whose recv_request() wants more, or None
    buffer,      \* TCPConnection.buffer
    tasks,       \* requests in the pool's queue
    job,         \* what a worker is to write, or None
    lock,        \* the workers that hold the write lock
    nonblocking, \* the flag that the processes share
    out,         \* octets written to the client
    received,    \* history: the data of the requests
    settled,     \* history: numbers of the requests that are done with
    broken       \* history: a reply was not sent to its end

clientVars == <<client, unsent, arriving>>
masterVars == <<listeners, newListener, replier, events, reading, buffer, received>>
workerVars == <<job, lock, nonblocking, out, settled, broken>>
vars == <<clientVars, masterVars, tasks, workerVars>>

(* A message is its number for the client; two octets of length precede it.*)
Octet(message, index) == [message |-> message, index |-> index]
Octets(message, length) == [k \in 1..length |-> Octet(message, k)]
(* The octets of the last k messages of a client, for every k.             *)
LastMessages(c) ==
    LET last[k \in 0..Len(Messages[c])] ==
          IF k = 0 THEN <<>>
          ELSE LET i == Len(Messages[c]) - k + 1
               IN  Octets(i, 2 + Messages[c][i]) \o last[k - 1]
    IN  last
Stream(c) == LastMessages(c)[Len(Messages[c])]

Init ==
    /\ client = [c \in Conns |-> "connecting"]
    /\ unsent = [c \in Conns |-> Stream(c)] /\ arriving = [c \in Conns |-> <<>>]
    /\ listeners = {} /\ newListener = None /\ replier = None /\ events = {}
    /\ reading = None
    /\ buffer = [c \in Conns |-> <<>>] /\ received = [c \in Conns |-> <<>>]
    /\ tasks = <<>> /\ job = [w \in Workers |-> None]
    /\ lock = [c \in Conns |-> {}] /\ nonblocking = [c \in Conns |-> FALSE]
    /\ out = [c \in Conns |-> <<>>] /\ settled = [c \in Conns |-> {}]
    /\ broken = [c \in Conns |-> FALSE]

-----------------------------------------------------------------------------
(* Clients                                                                 *)

SendPiece(c) ==
    /\ client[c] = "open"
    /\ \E n \in 1..Len(unsent[c]) :
          /\ arriving' = [arriving EXCEPT ![c] = @ \o SubSeq(unsent[c], 1, n)]
          /\ unsent' = [unsent EXCEPT ![c] = SubSeq(@, n + 1, Len(@))]
    /\ UNCHANGED <<client, masterVars, tasks, workerVars>>

Close(c) ==
    /\ client[c] = "open" /\ client' = [client EXCEPT ![c] = "eof"]
    /\ UNCHANGED <<unsent, arriving, masterVars, tasks, workerVars>>

(* The next octet is not the first of a message.                           *)
MidMessage(c) == unsent[c] # <<>> /\ Head(unsent[c]).index > 1

-----------------------------------------------------------------------------
(* TCPConnectionListener.create_listener()                                 *)

(* open_sockets refers to sockets weakly: the connections among the        *)
(* listeners, and those that variables of main() still refer to.           *)
OpenSockets(old) == listeners \cup old \cup ({newListener, replier} \ {None})
FullTooLate(old) == Cardinality(OpenSockets(old)) > MaxConnections \* faulty variant
Full(old) == Cardinality(OpenSockets(old)) >= MaxConnections

(* This event is one of the same round, or select() was called before it.  *)
SameRoundOrNext == events' \in {events, {}}

Accept(c) ==
    /\ reading = None /\ client[c] = "connecting" /\ SameRoundOrNext
    /\ \/ /\ Full(events') \/ c \notin Allowed
          /\ client' = [client EXCEPT ![c] = "refused"] /\ newListener' = None
          /\ UNCHANGED listeners
       \/ /\ ~Full(events') /\ c \in Allowed
          /\ client' = [client EXCEPT ![c] = "open"] /\ newListener' = c
          /\ listeners' = listeners \cup {c}
    /\ UNCHANGED <<unsent, arriving, replier, reading, buffer, received, tasks,
                   workerVars>>

(* accept() fails.                                                         *)
AcceptNothing ==
    /\ reading = None /\ \E c \in Conns : client[c] = "connecting"
    /\ newListener' = None /\ SameRoundOrNext
    /\ UNCHANGED <<clientVars, listeners, replier, reading, buffer, received, tasks,
                   workerVars>>

-----------------------------------------------------------------------------
(* TCPConnection.recv_request() and recv_data_into_buffer(): at most two   *)
(* calls of recv(), each for what is missing and no more.                  *)

(* What the first two octets in the buffer say.                            *)
MessageLength(c, data) == Messages[c][Head(data).message]

Remaining(c) == 2 + MessageLength(c, buffer[c]) - Len(buffer[c])

AnyLength(c, data) == Len(data) >= 2 \* faulty variant: whatever has come
CountsLength(c, data) == Len(data) >= MessageLength(c, data) \* faulty variant
Complete(c, data) == Len(data) >= 2 /\ Len(data) - 2 >= MessageLength(c, data)

Take(c, n) ==
    /\ arriving' = [arriving EXCEPT ![c] = SubSeq(@, n + 1, Len(@))]
    /\ UNCHANGED <<client, unsent, listeners, newListener, workerVars>>

(* packet_from_buffer() and apply_async(), or IncompleteMessage.           *)
Dispatch(c, data) ==
    LET end == Min({2 + MessageLength(c, data), Len(data)})
    IN  /\ received' = [received EXCEPT ![c] = Append(@, SubSeq(data, 3, end))]
        /\ buffer' = [buffer EXCEPT ![c] = SubSeq(data, end + 1, Len(data))]
        /\ tasks' = Append(tasks, [conn |-> c, number |-> Len(received'[c])])
        /\ replier' = c /\ reading' = None

KeepForLater(c, data) ==
    /\ buffer' = [buffer EXCEPT ![c] = data]
    /\ UNCHANGED <<received, tasks, replier>>

RecvLength(c) ==
    /\ reading = None /\ c \in listeners /\ Len(buffer[c]) < 2 /\ SameRoundOrNext
    /\ \E n \in 1..Min({2 - Len(buffer[c]), Len(arriving[c])}) :
          LET data == buffer[c] \o SubSeq(arriving[c], 1, n)
          IN  /\ Take(c, n)
              /\ \/ Complete(c, data) /\ Dispatch(c, data)
                 \/ /\ ~Complete(c, data) /\ KeepForLater(c, data)
                    /\ reading' = IF Len(data) < 2 THEN None ELSE c

RecvData(c) ==
    /\ \/ reading = c /\ UNCHANGED events
       \/ reading = None /\ c \in listeners /\ Len(buffer[c]) >= 2 /\ SameRoundOrNext
    /\ \E n \in 1..Min({Remaining(c), Len(arriving[c])}) :
          LET data == buffer[c] \o SubSeq(arriving[c], 1, n)
          IN  /\ Take(c, n)
              /\ \/ Complete(c, data) /\ Dispatch(c, data)
                 \/ /\ ~Complete(c, data) /\ KeepForLater(c, data)
                    /\ reading' = None

(* The second recv() fails when a worker has made the socket non-blocking; *)
(* the loop counts an exception and goes on.  Else the whole server waits. *)
NothingThere(c) ==
    /\ reading = c /\ arriving[c] = <<>> /\ client[c] # "eof"
    /\ nonblocking[c]
    /\ reading' = None /\ events' = {}
    /\ UNCHANGED <<clientVars, listeners, newListener, replier, buffer, received, tasks,
                   workerVars>>

(* ClosedListener                                                          *)
Forget(c) ==
    /\ \/ reading = c /\ events' = events \cup {c}
       \/ reading = None /\ c \in listeners /\ events' \in {events \cup {c}, {c}}
    /\ arriving[c] = <<>> /\ client[c] = "eof"
    /\ listeners' = listeners \ {c} /\ reading' = None
    /\ UNCHANGED <<clientVars, newListener, replier, buffer, received, tasks, workerVars>>

-----------------------------------------------------------------------------
(* TCPReplier.send_reply()                                                 *)

Settle(request) ==
    settled' = [settled EXCEPT ![request.conn] = @ \cup {request.number}]

StartHandling(w) ==
    /\ job[w] = None /\ tasks # <<>> /\ tasks' = Tail(tasks)
    /\ job' = [job EXCEPT ![w] =
                 [request |-> Head(tasks), octets |-> Octets(Head(tasks).number, ReplyOctets)]]
    /\ UNCHANGED <<clientVars, masterVars, lock, nonblocking, out, settled, broken>>

NoLock(c) == TRUE \* faulty variant: every worker has a lock of its own
Unlocked(c) == lock[c] = {}

To(w) == job[w].request.conn

StartReply(w) ==
    /\ job[w] # None /\ w \notin lock[To(w)] /\ Unlocked(To(w))
    /\ lock' = [lock EXCEPT ![To(w)] = @ \cup {w}]
    /\ nonblocking' = [nonblocking EXCEPT ![To(w)] = TRUE]
    /\ UNCHANGED <<clientVars, masterVars, tasks, job, out, settled, broken>>

Writes(w) == job[w] # None /\ w \in lock[To(w)]

WritePiece(w) ==
    /\ Writes(w)
    /\ \E n \in 1..Len(job[w].octets) :
          /\ out' = [out EXCEPT ![To(w)] = @ \o SubSeq(job[w].octets, 1, n)]
          /\ job' = [job EXCEPT ![w].octets = SubSeq(@, n + 1, Len(@))]
    /\ UNCHANGED <<clientVars, masterVars, tasks, lock, nonblocking, settled, broken>>

FinishReply(w) ==
    /\ Writes(w) /\ job[w].octets = <<>>
    /\ nonblocking' = [nonblocking EXCEPT ![To(w)] = FALSE]
    /\ lock' = [lock EXCEPT ![To(w)] = @ \ {w}]
    /\ Settle(job[w].request) /\ job' = [job EXCEPT ![w] = None]
    /\ UNCHANGED <<clientVars, masterVars, tasks, out, broken>>

(* The lock is released when sendall() fails or takes too long, but the    *)
(* timeout stays and nobody closes the connection.                         *)
Kept(c, w) == lock \* faulty variant: without 'with'
Released(c, w) == [lock EXCEPT ![c] = @ \ {w}]

FailToReply(w) ==
    /\ Writes(w) /\ job[w].octets # <<>>
    /\ lock' = Released(To(w), w)
    /\ broken' = [broken EXCEPT ![To(w)] = TRUE]
    /\ Settle(job[w].request) /\ job' = [job EXCEPT ![w] = None]
    /\ UNCHANGED <<clientVars, masterVars, tasks, nonblocking, out>>

Master(c) ==
    Accept(c) \/ RecvLength(c) \/ RecvData(c) \/ NothingThere(c) \/ Forget(c)
Worker(w) ==
    \/ StartHandling(w) \/ StartReply(w) \/ WritePiece(w)
    \/ FinishReply(w) \/ FailToReply(w)

Next ==
    \/ \E c \in Conns : SendPiece(c) \/ Close(c) \/ Master(c)
    \/ AcceptNothing
    \/ \E w \in Workers : Worker(w)

(* The master handles what is ready, workers do their jobs, and a send has *)
(* a time limit.  That a client sends the rest of a message or closes the  *)
(* connection is not the server's to say: until then all of it waits.      *)
Fairness ==
    /\ WF_vars(\E c \in Conns : RecvLength(c) \/ RecvData(c)
                               \/ NothingThere(c) \/ Forget(c))
    /\ WF_vars(\E w \in Workers : Worker(w))
    /\ WF_vars(\E c \in Conns : MidMessage(c) /\ (SendPiece(c) \/ Close(c)))

Spec == Init /\ [][Next]_vars /\ Fairness

-----------------------------------------------------------------------------
(* Properties                                                              *)

(* The requests that are handed to workers are the messages that the       *)
(* client sent, each whole, in their order: whatever the pieces they come  *)
(* in, and whatever else happens between the calls of recv().              *)
RequestsAsSent ==
    \A c \in Conns : \A i \in DOMAIN received[c] :
        /\ i \in DOMAIN Messages[c]
        /\ received[c][i] = SubSeq(Octets(i, 2 + Messages[c][i]), 3, 2 + Messages[c][i])

(* What a client receives is a sequence of whole replies, if no send has   *)
(* failed: several workers write to a connection in pieces.                *)
RepliesWhole ==
    \A c \in Conns : ~broken[c] =>
        /\ out[c] # <<>> => Head(out[c]).index = 1
        /\ \A k \in 1..Len(out[c]) - 1 :
              \/ out[c][k + 1] = [out[c][k] EXCEPT !.index = @ + 1]
              \/ out[c][k].index = ReplyOctets /\ out[c][k + 1].index = 1

(* Every message that was sent to its end is handled, and its reply sent   *)
(* or given up: again and again there is none left.                        *)
Sent(c, i) == \A k \in DOMAIN unsent[c] : unsent[c][k].message > i
RequestsAnswered ==
    []<>(\A c \in Conns : \A i \in DOMAIN Messages[c] : Sent(c, i) => i \in settled[c])

(* No more connections are served than the limit says.  An allowed client  *)
(* may be turned away for connections that are closed, because variables   *)
(* refer to them; if none was closed in the same round and the attempt     *)
(* before was turned away too there is only one of those, that of the last *)
(* request.                                                                *)
ConnectionsLimited ==
    [][\A c \in Conns :
          /\ Cardinality(listeners') <= MaxConnections
          /\ /\ client[c] = "connecting" /\ client'[c] = "refused" /\ c \in Allowed
             /\ newListener = None /\ events' = {}
             => Cardinality(listeners) >= MaxConnections - 1]_vars

(* The octets, the queue and the workers implement Exchanges: a message is *)
(* taken when it is whole, its request waits in the queue and then with a  *)
(* worker, and it is answered by the step that writes the last octet of    *)
(* its reply.  Nothing is queued, handled or answered twice, or lost,      *)
(* except in FailToReply.                                                  *)
Taken(c) == Len(received[c])
Waiting ==
    {tasks[i] : i \in DOMAIN tasks}
    \cup {job[w].request : w \in {v \in Workers : job[v] # None /\ job[v].octets # <<>>}}
Answered ==
    UNION {{[conn |-> c, number |-> out[c][k].message] :
              k \in {i \in DOMAIN out[c] : out[c][i].index = ReplyOctets}} : c \in Conns}

Service == INSTANCE Exchanges WITH
    Count <- [c \in Conns |-> Len(Messages[c])],
    taken <- [c \in Conns |-> Taken(c)], waiting <- Waiting, answered <- Answered
ImplementsExchanges == Service!Spec
=============================================================================
