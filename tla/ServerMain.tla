----------------------------- MODULE ServerMain -----------------------------
(***************************************************************************)
(* The master process of ipv6-dhcpd: the outer loop that (re)configures,   *)
(* the select() loop, signals, control connections, the exception budget,  *)
(* and the pool of worker processes it dispatches requests to.             *)
(*                                                                         *)
(* Source: dhcpkit/ipv6/server/main.py, nonblocking_pool.py,               *)
(* control_socket.py and the start of worker.py.  multiprocessing.Pool and *)
(* the kernel are external: modelled from how main.py uses them.           *)
(*                                                                         *)
(* A selectable object is <<kind, id>>.  Listeners of a configuration are  *)
(* created anew at every reload (the socket below is recycled), so their   *)
(* id carries the generation that created them.                            *)
(***************************************************************************)
EXTENDS Integers, Sequences, FiniteSets

CONSTANTS
    UdpAddrs,        \* addresses a configuration can have a UDP listener on
    TcpAddrs,        \* addresses a configuration can have a TCP listener on
    Conns,           \* TCP connections clients can open
    CtlConns,        \* control connections operators can open
    Workers,         \* worker slots of the pool (config.workers)
    Configs,         \* the contents the configuration file can have
    Bad,             \* a configuration file that load_config refuses
    None,            \* no PID file, no control socket
    WorkerInit,      \* "flaky": worker_init fails now and then; "fails": always
    PipeCap,         \* capacity of the signal pipe
    MaxPackets,      \* bound: messages clients send
    MaxSignals,      \* bound: signals and control commands sent
    MaxFaults,       \* bound: exceptions raised by event handlers
    MaxInitFailures, \* bound: failing initialisations of "flaky" workers
    MaxTime          \* bound: the clock

Names == UNION {{c.pid, c.ctl} : c \in Configs}

ASSUME ServerAssumption ==
    /\ IsFiniteSet(Workers) /\ Workers # {}
    /\ UdpAddrs \cap Conns = {}
    /\ Bad \notin Configs
    /\ None \notin {0, 1} /\ None \notin {"reload", "shutdown", "quit", "other"}
    /\ None \notin Names \X Nat
    /\ \A c \in Configs :
         /\ c.udp \subseteq UdpAddrs /\ c.tcp \subseteq TcpAddrs
         /\ c.fails \in {"none", "listen", "control", "handler"}
         /\ c.max \in Nat /\ c.window \in Nat
    /\ WorkerInit \in {"flaky", "fails"}
    /\ PipeCap \in Nat \ {0} /\ MaxPackets \in Nat /\ MaxSignals \in Nat
    /\ MaxFaults \in Nat /\ MaxInitFailures \in Nat /\ MaxTime \in Nat

VARIABLES
    \* the main program
    pc,         \* where the master is in main()
    running,    \* local 'running' of the inner loop
    stopping,   \* local 'stopping' of the outer loop
    config,     \* local 'config': the last configuration that was loaded
    gen,        \* how many times the outer loop was entered
    listeners,  \* local 'listeners': listeners, creators and TCP connections
    ctlSocket,  \* local 'control_socket': <<path, generation>> or None
    pidName,    \* local 'pid_filename'
    reg,        \* the selector's map: the registered objects
    todo,       \* events of this select() that are not handled yet
    cmds,       \* commands of the control connection being handled
    cur,        \* the control connection being handled
    count,      \* local 'count_exception'
    history,    \* local 'exception_history'
    exitCode,   \* what main() returned (an uncaught exception is 1)
    \* the pool
    queue,      \* requests dispatched and not yet taken by a worker
    worker,     \* state of every worker process
    \* the world outside
    pipe,       \* bytes in the signal pipe
    file,       \* content of the configuration file
    names,      \* PID files and control sockets that exist in the file system
    waiting,    \* messages in the receive buffers
    conn,       \* state of every TCP connection
    backlog,    \* TCP connections that are not accepted yet
    ctlConn,    \* state of every control connection
    ctlIn,      \* commands that can be received from it
    now,        \* time.monotonic()
    \* counters that bound the environment, and history of what happened
    sent, signals, faults, initFailures,
    dispatched, \* requests given to a pool
    served,     \* requests a worker is done with
    raised,     \* the times of all exceptions that were counted
    promised,   \* a control client was told "Shutting down"
    decided     \* the decision to stop was logged

mainVars == <<running, stopping, config, gen, listeners, ctlSocket, pidName,
              history, exitCode>>
roundVars == <<todo, cmds, cur, count>>
poolVars == <<queue, worker, initFailures, served>>
netVars == <<waiting, conn, backlog>>
ctlVars == <<ctlConn, ctlIn, promised>>
envVars == <<file, now, sent, signals>>
logs == <<faults, dispatched, raised, decided>>
vars == <<pc, mainVars, roundVars, poolVars, netVars, ctlVars, envVars, reg,
          pipe, names, logs>>

-----------------------------------------------------------------------------
(* Selectable objects                                                      *)

SignalPipe == <<"pipe", 0>>
Udp(a, g) == <<"udp", <<a, g>>>>
Tcp(a, g) == <<"tcp", <<a, g>>>>
Conn(c) == <<"conn", c>>
CtlSocket(s) == <<"ctlsocket", s>>
CtlConn(k) == <<"ctlconn", k>>

Created(c, g) == {Udp(a, g) : a \in c.udp} \cup {Tcp(a, g) : a \in c.tcp}
CtlObject == IF ctlSocket = None THEN {} ELSE {CtlSocket(ctlSocket)}
CtlConnObjects == {CtlConn(k) : k \in CtlConns}

(* What select() reports.                                                  *)
IsReady(e) ==
    \/ e = SignalPipe /\ pipe # <<>>
    \/ e[1] = "udp" /\ waiting[e[2][1]] > 0
    \/ e[1] = "tcp" /\ backlog[e[2][1]] # {}
    \/ e[1] = "conn" /\ (waiting[e[2]] > 0 \/ conn[e[2]] = "eof")
    \/ e[1] = "ctlsocket" /\ \E k \in CtlConns : ctlConn[k] = "backlog"
    \/ e[1] = "ctlconn" /\ (ctlIn[e[2]] # <<>> \/ ctlConn[e[2]] = "eof")
Ready == {e \in reg : IsReady(e)}

Outstanding == queue + Cardinality({w \in Workers : worker[w] = "busy"})

-----------------------------------------------------------------------------
Init ==
    /\ pc = "top" /\ running = FALSE /\ stopping = FALSE
    /\ config \in Configs /\ file = config
    /\ gen = 0 /\ listeners = {} /\ ctlSocket = None /\ pidName = None
    /\ reg = {SignalPipe} /\ todo = {} /\ cmds = <<>> /\ cur = None
    /\ count = FALSE /\ history = <<>> /\ exitCode = None
    /\ queue = 0 /\ worker = [w \in Workers |-> "none"]
    /\ pipe = <<>> /\ names = {}
    /\ waiting = [s \in UdpAddrs \cup Conns |-> 0]
    /\ conn = [c \in Conns |-> "new"] /\ backlog = [a \in TcpAddrs |-> {}]
    /\ ctlConn = [k \in CtlConns |-> "new"] /\ ctlIn = [k \in CtlConns |-> <<>>]
    /\ now = 0 /\ sent = 0 /\ signals = 0 /\ faults = 0 /\ initFailures = 0
    /\ dispatched = 0 /\ served = 0 /\ raised = <<>> /\ promised = FALSE
    /\ decided = FALSE

-----------------------------------------------------------------------------
(* The outer loop: apply the configuration                                 *)

Exit(code) == pc' = "exited" /\ exitCode' = code

(* New listener objects replace all old ones; TCP connections accepted     *)
(* under the previous configuration are not in the new list.               *)
OpenListeners ==
    /\ pc = "top"
    /\ stopping' = TRUE
    /\ \/ /\ config.fails = "listen" /\ Exit(1)
          /\ UNCHANGED <<gen, listeners>>
       \/ /\ config.fails # "listen" /\ pc' = "files"
          /\ gen' = gen + 1
          /\ listeners' = Created(config, gen + 1)
          /\ UNCHANGED exitCode
    /\ UNCHANGED <<running, config, ctlSocket, pidName, history, roundVars,
                   poolVars, netVars, ctlVars, envVars, reg, pipe, names,
                   logs>>

(* PID file first, then the control socket takes the place of the old one. *)
(* Clients in the backlog of the old control socket are gone.              *)
CreateFiles ==
    /\ pc = "files"
    /\ pidName' = config.pid
    /\ ctlConn' = [k \in CtlConns |->
                     IF ctlConn[k] = "backlog" THEN "gone" ELSE ctlConn[k]]
    /\ \/ /\ config.fails = "control" /\ Exit(1)
          /\ reg' = reg \ CtlObject
          /\ names' = names \cup ({config.pid} \ {None})
          /\ UNCHANGED ctlSocket
       \/ /\ config.fails # "control" /\ pc' = "register"
          /\ ctlSocket' = IF config.ctl = None THEN None ELSE <<config.ctl, gen>>
          /\ reg' = (reg \ CtlObject) \cup CtlObject'
          /\ names' = names \cup ({config.pid, config.ctl} \ {None})
          /\ UNCHANGED exitCode
    /\ UNCHANGED <<running, stopping, config, gen, listeners, history,
                   roundVars, poolVars, netVars, ctlIn, promised, envVars,
                   pipe, logs>>

(* What has to stay registered: everything else of the previous            *)
(* configuration is unregistered.                                          *)
KeepsAll(e) == e \in reg \* faulty variant: nothing is unregistered
Keeps(e) ==
    \/ e = SignalPipe
    \/ e \in CtlObject
    \/ e \in listeners
    \/ e \in CtlConnObjects

(* Sockets and connections nobody refers to any more are closed.           *)
RegisterListeners ==
    /\ pc = "register" /\ pc' = "start"
    /\ reg' = {e \in reg : Keeps(e)} \cup listeners
    /\ waiting' = [s \in UdpAddrs \cup Conns |->
                     IF s \in config.udp THEN waiting[s] ELSE 0]
    /\ conn' = [c \in Conns |->
                  IF conn[c] \in {"open", "eof"} \/
                     (\E a \in TcpAddrs \ config.tcp : c \in backlog[a])
                    THEN "gone" ELSE conn[c]]
    /\ backlog' = [a \in TcpAddrs |->
                     IF a \in config.tcp THEN backlog[a] ELSE {}]
    /\ UNCHANGED <<mainVars, roundVars, poolVars, ctlVars, envVars, pipe,
                   names, logs>>

(* create_message_handler() may refuse; then main() returns at once.       *)
(* Otherwise a pool with fresh worker processes and an empty task queue.   *)
StartPool ==
    /\ pc = "start"
    /\ \/ /\ config.fails = "handler" /\ Exit(1)
          /\ UNCHANGED <<running, queue, worker>>
       \/ /\ config.fails # "handler" /\ pc' = "select"
          /\ running' = TRUE
          /\ queue' = 0 /\ worker' = [w \in Workers |-> "init"]
          /\ UNCHANGED exitCode
    /\ UNCHANGED <<stopping, config, gen, listeners, ctlSocket, pidName,
                   history, roundVars, initFailures, served, netVars, ctlVars,
                   envVars, reg, pipe, names, logs>>

-----------------------------------------------------------------------------
(* The inner loop: one select() and the handling of its events             *)

Select ==
    /\ pc = "select" /\ Ready # {}
    /\ pc' = "events" /\ todo' = Ready
    /\ UNCHANGED <<mainVars, cmds, cur, count, poolVars, netVars, ctlVars,
                   envVars, reg, pipe, names, logs>>

Take(e) == pc = "events" /\ e \in todo /\ todo' = todo \ {e}

(* A complete request: receive it and hand it to the pool.                 *)
DispatchRequest(e, s) ==
    /\ Take(e) /\ waiting[s] > 0
    /\ waiting' = [waiting EXCEPT ![s] = @ - 1]
    /\ queue' = queue + 1
    /\ dispatched' = dispatched + 1
    /\ UNCHANGED <<pc, mainVars, cmds, cur, count, worker, initFailures, served,
                   conn, backlog, ctlVars, envVars, reg, pipe, names, faults,
                   raised, decided>>

(* IgnoreMessage: what was received does not make a complete request.      *)
IgnoreData(e, s) ==
    /\ Take(e) /\ waiting[s] > 0
    /\ waiting' = [waiting EXCEPT ![s] = @ - 1]
    /\ UNCHANGED <<pc, mainVars, cmds, cur, count, poolVars, conn, backlog,
                   ctlVars, envVars, reg, pipe, names, logs>>

HandleUdp == \E a \in UdpAddrs : DispatchRequest(Udp(a, gen), a)

HandleConn ==
    \E c \in Conns : DispatchRequest(Conn(c), c) \/ IgnoreData(Conn(c), c)

(* ClosedListener: the peer has closed the connection.                     *)
ForgetConn ==
    \E c \in Conns :
        /\ Take(Conn(c)) /\ waiting[c] = 0 /\ conn[c] = "eof"
        /\ reg' = reg \ {Conn(c)}
        /\ listeners' = listeners \ {Conn(c)}
        /\ conn' = [conn EXCEPT ![c] = "gone"]
        /\ UNCHANGED <<pc, running, stopping, config, gen, ctlSocket, pidName,
                       history, exitCode, cmds, cur, count, poolVars, waiting,
                       backlog, ctlVars, envVars, pipe, names, logs>>

(* create_listener(): a new connection, or None when it is refused.        *)
AcceptConn ==
    \E a \in TcpAddrs, c \in Conns :
        /\ Take(Tcp(a, gen)) /\ c \in backlog[a]
        /\ backlog' = [backlog EXCEPT ![a] = @ \ {c}]
        /\ \/ /\ reg' = reg \cup {Conn(c)}
              /\ listeners' = listeners \cup {Conn(c)}
              /\ conn' = [conn EXCEPT ![c] = "open"]
           \/ /\ conn' = [conn EXCEPT ![c] = "gone"]
              /\ UNCHANGED <<reg, listeners>>
        /\ UNCHANGED <<pc, running, stopping, config, gen, ctlSocket, pidName,
                       history, exitCode, cmds, cur, count, poolVars, waiting,
                       ctlVars, envVars, pipe, names, logs>>

(* One byte is read per round.  A configuration that cannot be loaded is   *)
(* not applied and the server goes on with the one it has.                 *)
HandleHangup ==
    /\ Take(SignalPipe) /\ Head(pipe) = "HUP" /\ pipe' = Tail(pipe)
    /\ \/ file = Bad /\ UNCHANGED <<config, running, stopping>>
       \/ /\ file # Bad /\ config' = file
          /\ running' = FALSE /\ stopping' = FALSE
    /\ UNCHANGED <<pc, gen, listeners, ctlSocket, pidName, history, exitCode,
                   cmds, cur, count, poolVars, netVars, ctlVars, envVars, reg,
                   names, logs>>

(* The decision to stop: both loops end.                                   *)
StopOuterOnly == UNCHANGED running /\ stopping' = TRUE  \* faulty variant
StopInnerOnly == running' = FALSE /\ UNCHANGED stopping \* faulty variant
Stop == running' = FALSE /\ stopping' = TRUE

(* SIGTERM and SIGINT skip the rest of the round.                          *)
HandleTerminate ==
    /\ pc = "events" /\ SignalPipe \in todo /\ todo' = {}
    /\ Head(pipe) = "TERM" /\ pipe' = Tail(pipe)
    /\ Stop /\ decided' = TRUE
    /\ UNCHANGED <<faults, dispatched, raised>>
    /\ UNCHANGED <<pc, config, gen, listeners, ctlSocket, pidName, history,
                   exitCode, cmds, cur, count, poolVars, netVars, ctlVars,
                   envVars, reg, names>>

(* SIGUSR1: a worker process could not be initialised.                     *)
HandleWorkerFailure ==
    /\ Take(SignalPipe) /\ Head(pipe) = "USR1" /\ pipe' = Tail(pipe)
    /\ count' = TRUE
    /\ UNCHANGED <<pc, mainVars, cmds, cur, poolVars, netVars, ctlVars, envVars,
                   reg, names, logs>>

-----------------------------------------------------------------------------
(* Control connections                                                     *)

(* accept() can find that the client has gone already.                     *)
AcceptCtlConn ==
    \E s \in reg, k \in CtlConns :
        /\ s[1] = "ctlsocket" /\ Take(s) /\ ctlConn[k] = "backlog"
        /\ \/ /\ ctlConn' = [ctlConn EXCEPT ![k] = "open"]
              /\ reg' = reg \cup {CtlConn(k)}
           \/ /\ ctlConn' = [ctlConn EXCEPT ![k] = "gone"]
              /\ UNCHANGED reg
        /\ UNCHANGED <<pc, mainVars, cmds, cur, count, poolVars, netVars, ctlIn,
                       promised, envVars, pipe, names, logs>>

(* get_commands(): all complete lines that arrived, or <<None>> at the end *)
(* of the stream.                                                          *)
GetCommands ==
    \E k \in CtlConns :
        /\ Take(CtlConn(k)) /\ pc' = "commands" /\ cur' = k
        /\ cmds' = IF ctlIn[k] = <<>> THEN <<None>> ELSE ctlIn[k]
        /\ ctlIn' = [ctlIn EXCEPT ![k] = <<>>]
        /\ UNCHANGED <<mainVars, count, poolVars, netVars, ctlConn, promised,
                       envVars, reg, pipe, names, logs>>

Command(c) == pc = "commands" /\ cmds # <<>> /\ Head(cmds) = c
CloseCtlConn ==
    /\ ctlConn' = [ctlConn EXCEPT ![cur] = "gone"]
    /\ reg' = reg \ {CtlConn(cur)}
(* The catch-all handler: the rest of the round is skipped and counted.    *)
AbandonRound ==
    pc' = "events" /\ todo' = {} /\ cmds' = <<>> /\ cur' = None /\ count' = TRUE

(* help, stats, stats-json and everything that is not recognised.          *)
OtherCommand ==
    /\ Command("other") /\ cmds' = Tail(cmds)
    /\ UNCHANGED <<pc, mainVars, todo, cur, count, poolVars, netVars, ctlVars,
                   envVars, reg, pipe, names, logs>>

(* os.write() to the signal pipe; it raises BlockingIOError on a full one. *)
WriteFirstSignal(s) == \* faulty variant: a pending signal is wake-up enough
    Len(pipe) < PipeCap /\ pipe' = IF pipe = <<>> THEN <<s>> ELSE pipe
WriteSignal(s) == Len(pipe) < PipeCap /\ pipe' = Append(pipe, s)

ReloadCommand ==
    /\ Command("reload")
    /\ \/ /\ WriteSignal("HUP")
          /\ cmds' = Tail(cmds) /\ UNCHANGED <<pc, todo, cur, count>>
       \/ /\ Len(pipe) >= PipeCap /\ AbandonRound /\ UNCHANGED pipe
    /\ UNCHANGED <<mainVars, poolVars, netVars, ctlVars, envVars, reg, names,
                   logs>>

(* The client is told first; SIGTERM is written last.                      *)
ShutdownCommand ==
    /\ Command("shutdown")
    /\ promised' = TRUE /\ CloseCtlConn
    /\ \/ /\ WriteSignal("TERM")
          /\ pc' = "events" /\ cmds' = <<>> /\ cur' = None
          /\ UNCHANGED <<todo, count>>
       \/ /\ Len(pipe) >= PipeCap /\ AbandonRound /\ UNCHANGED pipe
    /\ UNCHANGED <<mainVars, poolVars, netVars, ctlIn, envVars, names, logs>>

QuitCommand ==
    /\ Command("quit") \/ Command(None)
    /\ CloseCtlConn /\ pc' = "events" /\ cmds' = <<>> /\ cur' = None
    /\ UNCHANGED <<mainVars, todo, count, poolVars, netVars, ctlIn, promised,
                   envVars, pipe, names, logs>>

CommandsDone ==
    /\ pc = "commands" /\ cmds = <<>> /\ pc' = "events" /\ cur' = None
    /\ UNCHANGED <<mainVars, todo, cmds, count, poolVars, netVars, ctlVars,
                   envVars, reg, pipe, names, logs>>

(* An event handler or an answer to a command raises (a reset connection, *)
(* a full send buffer): "reload" has been written by then, "shutdown" not. *)
HandlerRaises ==
    /\ faults < MaxFaults /\ faults' = faults + 1
    /\ UNCHANGED <<dispatched, raised, decided>>
    /\ \/ /\ pc = "events" /\ todo \ {SignalPipe} # {} /\ UNCHANGED pipe
       \/ /\ pc = "commands" /\ cmds # <<>>
          /\ IF Head(cmds) = "reload" /\ Len(pipe) < PipeCap
               THEN pipe' = Append(pipe, "HUP") ELSE UNCHANGED pipe
    /\ AbandonRound
    /\ UNCHANGED <<mainVars, poolVars, netVars, ctlVars, envVars, reg, names>>

-----------------------------------------------------------------------------
(* The end of a round and of the inner loop                                *)

(* The while loop that pops old times from the front of the history.       *)
FromFirst(times, recent) ==
    LET first == CHOOSE i \in recent : \A j \in recent : i <= j
    IN  IF recent = {} THEN <<>> ELSE SubSeq(times, first, Len(times))
InWindowStrict(times, t) == \* faulty variant: the edge is outside
    FromFirst(times, {i \in 1..Len(times) : times[i] > t - config.window})
InWindow(times, t) ==
    FromFirst(times, {i \in 1..Len(times) : times[i] >= t - config.window})

(* A counted exception enters the history, old ones leave it; more than    *)
(* max_exceptions of them end the server.                                  *)
CountException ==
    /\ pc = "events" /\ todo = {} /\ count
    /\ count' = FALSE
    /\ history' = InWindow(Append(history, now), now)
    /\ raised' = Append(raised, now)
    /\ \/ /\ Len(history') > config.max
          /\ Stop /\ decided' = TRUE
       \/ /\ Len(history') <= config.max
          /\ UNCHANGED <<running, stopping, decided>>
    /\ pc' = IF running' THEN "select" ELSE "closing"
    /\ UNCHANGED <<config, gen, listeners, ctlSocket, pidName, exitCode, todo,
                   cmds, cur, poolVars, netVars, ctlVars, envVars, reg, pipe,
                   names, faults, dispatched>>

RoundDone ==
    /\ pc = "events" /\ todo = {} /\ ~count
    /\ pc' = IF running THEN "select" ELSE "closing"
    /\ UNCHANGED <<mainVars, roundVars, poolVars, netVars, ctlVars, envVars,
                   reg, pipe, names, logs>>

ClosePool ==
    /\ pc = "closing" /\ pc' = "joining"
    /\ UNCHANGED <<mainVars, roundVars, poolVars, netVars, ctlVars, envVars,
                   reg, pipe, names, logs>>

(* join() returns when every request has a result and all workers stopped. *)
QueueEmpty == queue = 0 \* faulty variant: busy workers are stopped
PoolDrained ==
    Outstanding = 0 /\ \A w \in Workers : worker[w] \in {"idle", "dead"}

JoinPool ==
    /\ pc = "joining" /\ PoolDrained
    /\ pc' = "cleanup"
    /\ worker' = [w \in Workers |-> "none"]
    /\ UNCHANGED <<mainVars, roundVars, queue, initFailures, served, netVars,
                   ctlVars, envVars, reg, pipe, names, logs>>

(* Both files go, on a reload too; the names are those in use, not those   *)
(* of the configuration that was just loaded.                              *)
FilesOfConfig == {config.pid, config.ctl} \* faulty variant
FilesInUse == {pidName} \cup (IF ctlSocket = None THEN {} ELSE {ctlSocket[1]})

CleanUp ==
    /\ pc = "cleanup"
    /\ names' = names \ FilesInUse
    /\ IF stopping THEN Exit(0) ELSE pc' = "top" /\ UNCHANGED exitCode
    /\ UNCHANGED <<running, stopping, config, gen, listeners, ctlSocket, pidName,
                   history, roundVars, poolVars, netVars, ctlVars, envVars, reg,
                   pipe, logs>>

-----------------------------------------------------------------------------
(* The pool (external): worker processes and their replacement             *)

workerUnchanged ==
    UNCHANGED <<pc, mainVars, roundVars, netVars, ctlVars, envVars, reg, names,
                logs>>

(* setup_worker()                                                          *)
WorkerReady(w) ==
    /\ worker[w] = "init" /\ WorkerInit = "flaky"
    /\ worker' = [worker EXCEPT ![w] = "idle"]
    /\ workerUnchanged /\ UNCHANGED <<queue, initFailures, served, pipe>>

(* The process tells the master with SIGUSR1 and ends.  A signal that      *)
(* finds the pipe full is lost.                                            *)
WorkerFails(w) ==
    /\ worker[w] = "init"
    /\ \/ WorkerInit = "fails" /\ UNCHANGED initFailures
       \/ /\ WorkerInit = "flaky" /\ initFailures < MaxInitFailures
          /\ initFailures' = initFailures + 1
    /\ worker' = [worker EXCEPT ![w] = "dead"]
    /\ pipe' = IF Len(pipe) < PipeCap THEN Append(pipe, "USR1") ELSE pipe
    /\ workerUnchanged /\ UNCHANGED <<queue, served>>

(* The pool replaces a dead process while it runs, and after close() as    *)
(* long as requests have no result.                                        *)
WhileOpen == \* faulty variant: no replacement after close()
    pc \in {"select", "events", "commands", "closing"}
ReplacesWorkers ==
    \/ pc \in {"select", "events", "commands", "closing"}
    \/ pc = "joining" /\ Outstanding > 0

ReplaceWorker(w) ==
    /\ worker[w] = "dead" /\ ReplacesWorkers
    /\ worker' = [worker EXCEPT ![w] = "init"]
    /\ workerUnchanged /\ UNCHANGED <<queue, initFailures, served, pipe>>

TakeAnything(w) == \* faulty variant: the queue is not looked at
    /\ worker[w] = "idle"
    /\ worker' = [worker EXCEPT ![w] = "busy"] /\ queue' = queue - 1
    /\ workerUnchanged /\ UNCHANGED <<initFailures, served, pipe>>
TakeRequest(w) ==
    /\ worker[w] = "idle" /\ queue > 0
    /\ worker' = [worker EXCEPT ![w] = "busy"] /\ queue' = queue - 1
    /\ workerUnchanged /\ UNCHANGED <<initFailures, served, pipe>>

(* handle_message() returns whatever happens in it.                        *)
FinishRequest(w) ==
    /\ worker[w] = "busy"
    /\ worker' = [worker EXCEPT ![w] = "idle"] /\ served' = served + 1
    /\ workerUnchanged /\ UNCHANGED <<queue, initFailures, pipe>>

Worker(w) == \/ WorkerReady(w) \/ WorkerFails(w) \/ ReplaceWorker(w)
             \/ TakeRequest(w) \/ FinishRequest(w)

-----------------------------------------------------------------------------
(* The environment (external)                                              *)

worldUnchanged ==
    UNCHANGED <<pc, mainVars, roundVars, poolVars, reg, names, logs,
                promised>>

(* Data arrives on a bound UDP socket or an established connection.        *)
DataArrives ==
    \E s \in UdpAddrs \cup Conns :
        /\ sent < MaxPackets /\ sent' = sent + 1
        /\ \/ s \in Conns /\ conn[s] = "open"
           \/ \E g \in {gen, gen - 1} : Udp(s, g) \in reg
        /\ waiting' = [waiting EXCEPT ![s] = @ + 1]
        /\ worldUnchanged
        /\ UNCHANGED <<conn, backlog, ctlConn, ctlIn, file, now, signals, pipe>>

ClientConnects ==
    \E a \in TcpAddrs, c \in Conns :
        /\ conn[c] = "new" /\ \E g \in {gen, gen - 1} : Tcp(a, g) \in reg
        /\ conn' = [conn EXCEPT ![c] = "backlog"]
        /\ backlog' = [backlog EXCEPT ![a] = @ \cup {c}]
        /\ worldUnchanged
        /\ UNCHANGED <<waiting, ctlConn, ctlIn, envVars, pipe>>

ClientCloses ==
    \E c \in Conns :
        /\ conn[c] = "open" /\ conn' = [conn EXCEPT ![c] = "eof"]
        /\ worldUnchanged
        /\ UNCHANGED <<waiting, backlog, ctlConn, ctlIn, envVars, pipe>>

OperatorConnects ==
    \E k \in CtlConns :
        /\ ctlConn[k] = "new" /\ \E s \in reg : s[1] = "ctlsocket"
        /\ ctlConn' = [ctlConn EXCEPT ![k] = "backlog"]
        /\ worldUnchanged /\ UNCHANGED <<netVars, ctlIn, envVars, pipe>>

OperatorSends ==
    \E k \in CtlConns, c \in {"reload", "shutdown", "quit", "other"} :
        /\ ctlConn[k] = "open" /\ signals < MaxSignals
        /\ signals' = signals + 1
        /\ ctlIn' = [ctlIn EXCEPT ![k] = Append(@, c)]
        /\ worldUnchanged
        /\ UNCHANGED <<netVars, ctlConn, file, now, sent, pipe>>

OperatorCloses ==
    \E k \in CtlConns :
        /\ ctlConn[k] = "open" /\ ctlConn' = [ctlConn EXCEPT ![k] = "eof"]
        /\ worldUnchanged /\ UNCHANGED <<netVars, ctlIn, envVars, pipe>>

SignalArrives ==
    \E s \in {"HUP", "TERM"} :
        /\ signals < MaxSignals /\ signals' = signals + 1
        /\ Len(pipe) < PipeCap /\ pipe' = Append(pipe, s)
        /\ worldUnchanged
        /\ UNCHANGED <<netVars, ctlConn, ctlIn, file, now, sent>>

EditConfig ==
    /\ file' \in Configs \cup {Bad}
    /\ worldUnchanged
    /\ UNCHANGED <<netVars, ctlConn, ctlIn, now, sent, signals, pipe>>

Tick ==
    /\ now < MaxTime /\ now' = now + 1
    /\ worldUnchanged
    /\ UNCHANGED <<netVars, ctlConn, ctlIn, file, sent, signals, pipe>>

-----------------------------------------------------------------------------
Reconfigure == OpenListeners \/ CreateFiles \/ RegisterListeners \/ StartPool
HandleEvent == \/ HandleUdp \/ HandleConn \/ ForgetConn \/ AcceptConn
               \/ HandleHangup \/ HandleTerminate \/ HandleWorkerFailure
               \/ AcceptCtlConn \/ GetCommands
HandleCommand == \/ OtherCommand \/ ReloadCommand \/ ShutdownCommand
                 \/ QuitCommand \/ CommandsDone
Master == \/ Reconfigure \/ Select \/ HandleEvent \/ HandleCommand
          \/ HandlerRaises \/ CountException \/ RoundDone
          \/ ClosePool \/ JoinPool \/ CleanUp
World == \/ DataArrives \/ ClientConnects \/ ClientCloses
         \/ OperatorConnects \/ OperatorSends \/ OperatorCloses
         \/ SignalArrives \/ EditConfig \/ Tick
Next ==
    \/ pc # "exited" /\ (Master \/ (\E w \in Workers : Worker(w)) \/ World)
    \/ pc = "exited" /\ UNCHANGED vars

Spec == Init /\ [][Next]_vars

(* The kernel schedules the master and every worker process.               *)
FairSpec ==
    /\ Spec
    /\ WF_vars(Master)
    /\ \A w \in Workers : WF_vars(pc # "exited" /\ Worker(w))

-----------------------------------------------------------------------------
(* Properties                                                              *)

NetObjects == {e \in reg : e[1] \in {"udp", "tcp", "conn"}}
Commands == {"reload", "shutdown", "quit", "other", None}
Serving == pc \in {"select", "events", "commands"}

(* Type correctness of the master's and the pool's state.                  *)
TypeOK ==
    /\ pc \in {"top", "files", "register", "start", "select", "events",
               "commands", "closing", "joining", "cleanup", "exited"}
    /\ running \in BOOLEAN /\ stopping \in BOOLEAN /\ count \in BOOLEAN
    /\ config \in Configs /\ file \in Configs \cup {Bad}
    /\ gen \in Nat /\ exitCode \in {None, 0, 1}
    /\ cmds \in Seq(Commands) /\ cur \in CtlConns \cup {None}
    /\ history \in Seq(Nat) /\ raised \in Seq(Nat) /\ now \in Nat
    /\ queue \in Nat /\ served \in Nat /\ dispatched \in Nat
    /\ worker \in [Workers -> {"none", "init", "idle", "busy", "dead"}]
    /\ pipe \in Seq({"HUP", "TERM", "USR1"})
    /\ waiting \in [UdpAddrs \cup Conns -> Nat]
    /\ conn \in [Conns -> {"new", "backlog", "open", "eof", "gone"}]
    /\ backlog \in [TcpAddrs -> SUBSET Conns]
    /\ ctlConn \in [CtlConns -> {"new", "backlog", "open", "eof", "gone"}]
    /\ ctlIn \in [CtlConns -> Seq(Commands \ {None})]
    /\ promised \in BOOLEAN /\ decided \in BOOLEAN

(* While the server serves, the selector watches exactly the listeners of  *)
(* the current configuration, the TCP connections accepted under it, its   *)
(* control socket, every open control connection and the signal pipe: the  *)
(* pruning and registering of main.py lines 279-295 and every later        *)
(* register/unregister keep the two in step.                               *)
SelectorFollowsListeners ==
    Serving =>
        /\ NetObjects = listeners
        /\ {e \in reg : e[1] = "ctlsocket"} = CtlObject
        /\ {k \in CtlConns : CtlConn(k) \in reg} =
             {k \in CtlConns : ctlConn[k] \in {"open", "eof"}}
        /\ SignalPipe \in reg
        /\ \A e \in todo : e \in reg

(* Every request given to a pool is in its queue, with a worker, or done:  *)
(* reloading never starts a new pool while the old one has work left       *)
(* (pool.close() and pool.join(), main.py lines 472-473).                  *)
RequestsAccounted == dispatched = served + Outstanding

(* When main() has returned, no request was left behind.                   *)
NothingLeftBehind == pc = "exited" => dispatched = served

(* The PID file and the control socket of the configuration in use exist   *)
(* while it is served and no others do; an orderly exit removes both, and  *)
(* a reload to other names leaves nothing of the old ones.                 *)
FilesFollowConfig ==
    /\ Serving /\ running => names = {config.pid, config.ctl} \ {None}
    /\ exitCode = 0 => names = {}

(* The server goes on after a counted exception only if the exceptions     *)
(* within the window, of all that ever were counted, are not too many: the *)
(* shortest window, because a reload does not bring back what was popped.  *)
ExceptionBudget ==
    [][raised' # raised /\ running' =>
         \A c \in Configs : (\A d \in Configs : c.window <= d.window) =>
           Cardinality({i \in DOMAIN raised' : now - raised'[i] <= c.window})
             <= config.max]_vars

(* Once the server has decided to stop, no new listeners, files or pools   *)
(* are made: a reload that is asked for as well cannot revive it.          *)
NoRevival == [][decided => gen' = gen]_vars

(* A termination signal in the pipe ends the server, whatever else goes on *)
(* and however many reloads are ahead of it.                               *)
TerminationLeadsToExit ==
    (\E i \in DOMAIN pipe : pipe[i] = "TERM") ~> pc = "exited"

(* A control client that is told "Shutting down" is told the truth.        *)
ShutdownKept == promised ~> pc = "exited"

(* Every dispatched request gets handled.                                  *)
RequestsServed == \A n \in 1..MaxPackets : dispatched = n ~> served >= n

(* Too many exceptions in the window stop the server (the documentation of *)
(* max-exceptions).                                                        *)
TooManyExceptionsStop ==
    (running = FALSE /\ Len(history) > config.max) ~> pc = "exited"
=============================================================================
