-------------------------- MODULE ServerMain_proofs --------------------------
(***************************************************************************)
(* The master process for any listeners, configurations, numbers of        *)
(* workers and limits: types, the selector, the pool, the files, the       *)
(* decision to stop and the exceptions that are counted.                   *)
(*                                                                         *)
(* Every part of the invariant reads few variables.  The lemmas *Changes   *)
(* name the actions that change those, and the proof of a part goes        *)
(* through these actions only.                                             *)
(***************************************************************************)
EXTENDS ServerMain, FiniteSetTheorems, SequenceTheorems, WellFoundedInduction, TLAPS

-----------------------------------------------------------------------------
(* Which actions change what                                               *)

LEMMA PoolChanges ==
    ASSUME [Next]_vars
    PROVE  \/ StartPool \/ HandleUdp \/ HandleConn \/ JoinPool
           \/ \E w \in Workers : Worker(w)
           \/ UNCHANGED <<queue, worker, served, dispatched>>
<1> DEFINE Same == UNCHANGED <<queue, worker, served, dispatched>>
<1> USE DEF mainVars, roundVars, poolVars, netVars, ctlVars, envVars, logs
<1>1. Reconfigure => StartPool \/ Same
  BY DEF Reconfigure, OpenListeners, CreateFiles, RegisterListeners
<1>2. HandleEvent => HandleUdp \/ HandleConn \/ Same
  BY DEF HandleEvent, ForgetConn, AcceptConn, HandleHangup, HandleTerminate,
         HandleWorkerFailure, AcceptCtlConn, GetCommands
<1>3. HandleCommand => Same
  BY DEF HandleCommand, OtherCommand, ReloadCommand, ShutdownCommand, QuitCommand,
         CommandsDone
<1>4. Select \/ HandlerRaises \/ CountException \/ RoundDone \/ ClosePool \/ CleanUp => Same
  BY DEF Select, HandlerRaises, CountException, RoundDone, ClosePool, CleanUp
<1>5. World => Same
  BY DEF World, DataArrives, ClientConnects, ClientCloses, OperatorConnects,
         OperatorSends, OperatorCloses, SignalArrives, EditConfig, Tick, worldUnchanged
<1>6. UNCHANGED vars => Same
  BY DEF vars
<1> QED
  BY <1>1, <1>2, <1>3, <1>4, <1>5, <1>6 DEF Next, Master

LEMMA PipeChanges ==
    ASSUME [Next]_vars
    PROVE  \/ HandleHangup \/ HandleTerminate \/ HandleWorkerFailure \/ ReloadCommand
           \/ ShutdownCommand \/ HandlerRaises \/ SignalArrives \/ Select
           \/ \E w \in Workers : WorkerFails(w)
           \/ pipe' = pipe /\ todo' \subseteq todo
<1> DEFINE Same == pipe' = pipe /\ todo' \subseteq todo
<1> USE DEF mainVars, roundVars, poolVars, netVars, ctlVars, envVars, logs
<1>1. Reconfigure => Same
  BY DEF Reconfigure, OpenListeners, CreateFiles, RegisterListeners, StartPool
<1>2. HandleEvent => HandleHangup \/ HandleTerminate \/ HandleWorkerFailure \/ Same
  BY DEF HandleEvent, HandleUdp, HandleConn, DispatchRequest, IgnoreData, ForgetConn,
         AcceptConn, AcceptCtlConn, GetCommands, Take
<1>3. HandleCommand => ReloadCommand \/ ShutdownCommand \/ Same
  BY DEF HandleCommand, OtherCommand, QuitCommand, CommandsDone
<1>4. CountException \/ RoundDone \/ ClosePool \/ JoinPool \/ CleanUp => Same
  BY DEF CountException, RoundDone, ClosePool, JoinPool, CleanUp
<1>5. ASSUME NEW w \in Workers PROVE Worker(w) => WorkerFails(w) \/ Same
  BY DEF Worker, WorkerReady, ReplaceWorker, TakeRequest, FinishRequest, workerUnchanged
<1>6. World => SignalArrives \/ Same
  BY DEF World, DataArrives, ClientConnects, ClientCloses, OperatorConnects,
         OperatorSends, OperatorCloses, EditConfig, Tick, worldUnchanged
<1>7. UNCHANGED vars => Same
  BY DEF vars
<1> QED
  BY <1>1, <1>2, <1>3, <1>4, <1>5, <1>6, <1>7 DEF Next, Master

LEMMA NetChanges ==
    ASSUME [Next]_vars
    PROVE  \/ RegisterListeners \/ HandleUdp \/ HandleConn \/ ForgetConn \/ AcceptConn
           \/ DataArrives \/ ClientConnects \/ ClientCloses
           \/ UNCHANGED netVars
<1> USE DEF netVars
<1>1. Reconfigure => RegisterListeners \/ UNCHANGED netVars
  BY DEF Reconfigure, OpenListeners, CreateFiles, StartPool
<1>2. HandleEvent => HandleUdp \/ HandleConn \/ ForgetConn \/ AcceptConn \/ UNCHANGED netVars
  BY DEF HandleEvent, HandleHangup, HandleTerminate, HandleWorkerFailure, AcceptCtlConn,
         GetCommands
<1>3. HandleCommand => UNCHANGED netVars
  BY DEF HandleCommand, OtherCommand, ReloadCommand, ShutdownCommand, QuitCommand,
         CommandsDone
<1>4. Select \/ HandlerRaises \/ CountException \/ RoundDone \/ ClosePool \/ JoinPool
        \/ CleanUp => UNCHANGED netVars
  BY DEF Select, HandlerRaises, CountException, RoundDone, ClosePool, JoinPool, CleanUp
<1>5. ASSUME NEW w \in Workers PROVE Worker(w) => UNCHANGED netVars
  BY DEF Worker, WorkerReady, WorkerFails, ReplaceWorker, TakeRequest, FinishRequest,
         workerUnchanged
<1>6. World => DataArrives \/ ClientConnects \/ ClientCloses \/ UNCHANGED netVars
  BY DEF World, OperatorConnects, OperatorSends, OperatorCloses, SignalArrives,
         EditConfig, Tick
<1>7. UNCHANGED vars => UNCHANGED netVars
  BY DEF vars
<1> QED
  BY <1>1, <1>2, <1>3, <1>4, <1>5, <1>6, <1>7 DEF Next, Master

LEMMA CtlChanges ==
    ASSUME [Next]_vars
    PROVE  \/ CreateFiles \/ AcceptCtlConn \/ GetCommands \/ ShutdownCommand \/ QuitCommand
           \/ OperatorConnects \/ OperatorSends \/ OperatorCloses
           \/ UNCHANGED <<ctlConn, ctlIn>>
<1> DEFINE Same == UNCHANGED <<ctlConn, ctlIn>>
<1> USE DEF ctlVars
<1>1. Reconfigure => CreateFiles \/ Same
  BY DEF Reconfigure, OpenListeners, RegisterListeners, StartPool
<1>2. HandleEvent => AcceptCtlConn \/ GetCommands \/ Same
  BY DEF HandleEvent, HandleUdp, HandleConn, DispatchRequest, IgnoreData, ForgetConn,
         AcceptConn, HandleHangup, HandleTerminate, HandleWorkerFailure
<1>3. HandleCommand => ShutdownCommand \/ QuitCommand \/ Same
  BY DEF HandleCommand, OtherCommand, ReloadCommand, CommandsDone
<1>4. Select \/ HandlerRaises \/ CountException \/ RoundDone \/ ClosePool \/ JoinPool
        \/ CleanUp => Same
  BY DEF Select, HandlerRaises, CountException, RoundDone, ClosePool, JoinPool, CleanUp
<1>5. ASSUME NEW w \in Workers PROVE Worker(w) => Same
  BY DEF Worker, WorkerReady, WorkerFails, ReplaceWorker, TakeRequest, FinishRequest,
         workerUnchanged
<1>6. World => OperatorConnects \/ OperatorSends \/ OperatorCloses \/ Same
  BY DEF World, DataArrives, ClientConnects, ClientCloses, SignalArrives, EditConfig, Tick
<1>7. UNCHANGED vars => Same
  BY DEF vars
<1> QED
  BY <1>1, <1>2, <1>3, <1>4, <1>5, <1>6, <1>7 DEF Next, Master

LEMMA CommandChanges ==
    ASSUME [Next]_vars
    PROVE  \/ GetCommands \/ OtherCommand \/ ReloadCommand \/ ShutdownCommand
           \/ QuitCommand \/ CommandsDone \/ HandlerRaises
           \/ /\ UNCHANGED <<cmds, cur>>
              /\ pc' = "commands" => pc = "commands" /\ todo' \subseteq todo
<1> DEFINE Same == /\ UNCHANGED <<cmds, cur>>
                   /\ pc' = "commands" => pc = "commands" /\ todo' \subseteq todo
<1> USE DEF roundVars
<1>1. Reconfigure => Same
  BY DEF Reconfigure, OpenListeners, CreateFiles, RegisterListeners, StartPool, Exit
<1>2. HandleEvent => GetCommands \/ Same
  BY DEF HandleEvent, HandleUdp, HandleConn, DispatchRequest, IgnoreData, ForgetConn,
         AcceptConn, HandleHangup, HandleTerminate, HandleWorkerFailure, AcceptCtlConn, Take
<1>3. Select \/ CountException \/ RoundDone \/ ClosePool \/ JoinPool \/ CleanUp => Same
  BY DEF Select, CountException, RoundDone, ClosePool, JoinPool, CleanUp, Exit
<1>4. ASSUME NEW w \in Workers PROVE Worker(w) => Same
  BY DEF Worker, WorkerReady, WorkerFails, ReplaceWorker, TakeRequest, FinishRequest,
         workerUnchanged
<1>5. World => Same
  BY DEF World, DataArrives, ClientConnects, ClientCloses, OperatorConnects,
         OperatorSends, OperatorCloses, SignalArrives, EditConfig, Tick, worldUnchanged,
         poolVars
<1>6. UNCHANGED vars => Same
  BY DEF vars
<1> QED
  BY <1>1, <1>2, <1>3, <1>4, <1>5, <1>6 DEF Next, Master, HandleCommand

-----------------------------------------------------------------------------
(* Types                                                                   *)

PoolTypes ==
    /\ queue \in Nat /\ served \in Nat /\ dispatched \in Nat
    /\ worker \in [Workers -> {"none", "init", "idle", "busy", "dead"}]

(* The pipe is read only when select() has found something in it.          *)
Signals == {"HUP", "TERM", "USR1"}
PipeTypes == pipe \in Seq(Signals) /\ (SignalPipe \in todo => pipe # <<>>)

NetTypes ==
    /\ waiting \in [UdpAddrs \cup Conns -> Nat]
    /\ conn \in [Conns -> {"new", "backlog", "open", "eof", "gone"}]
    /\ backlog \in [TcpAddrs -> SUBSET Conns]

CtlTypes ==
    /\ ctlConn \in [CtlConns -> {"new", "backlog", "open", "eof", "gone"}]
    /\ ctlIn \in [CtlConns -> Seq(Commands \ {None})]

(* The connection whose commands are handled is not waiting for its turn.  *)
CommandTypes ==
    /\ cmds \in Seq(Commands) /\ cur \in CtlConns \cup {None}
    /\ pc = "commands" => cur \in CtlConns /\ CtlConn(cur) \notin todo

MasterTypes ==
    /\ pc \in {"top", "files", "register", "start", "select", "events",
               "commands", "closing", "joining", "cleanup", "exited"}
    /\ running \in BOOLEAN /\ stopping \in BOOLEAN /\ count \in BOOLEAN
    /\ config \in Configs /\ file \in Configs \cup {Bad}
    /\ gen \in Nat /\ exitCode \in {None, 0, 1}
    /\ promised \in BOOLEAN /\ decided \in BOOLEAN
    /\ todo # {} => pc \in {"events", "commands"}

HistoryTypes == history \in Seq(Nat) /\ raised \in Seq(Nat) /\ now \in Nat

Types ==
    /\ PoolTypes /\ PipeTypes /\ NetTypes /\ CtlTypes /\ CommandTypes
    /\ MasterTypes /\ HistoryTypes

LEMMA TypesImplyTypeOK == Types => TypeOK
BY DEF Types, PoolTypes, PipeTypes, Signals, NetTypes, CtlTypes, CommandTypes, MasterTypes,
       HistoryTypes, TypeOK

LEMMA InitTypes == Init => Types
<1> SUFFICES ASSUME Init PROVE Types
  OBVIOUS
<1>1. PoolTypes
  BY DEF Init, PoolTypes
<1>2. PipeTypes
  BY DEF Init, PipeTypes
<1>3. NetTypes
  BY DEF Init, NetTypes
<1>4. CtlTypes
  BY DEF Init, CtlTypes
<1>5. CommandTypes
  BY DEF Init, CommandTypes
<1>6. MasterTypes
  BY DEF Init, MasterTypes
<1>7. HistoryTypes
  BY DEF Init, HistoryTypes
<1> QED
  BY <1>1, <1>2, <1>3, <1>4, <1>5, <1>6, <1>7 DEF Types

LEMMA PoolTypesStep == PoolTypes /\ [Next]_vars => PoolTypes'
<1> SUFFICES ASSUME PoolTypes, [Next]_vars PROVE PoolTypes'
  OBVIOUS
<1> USE DEF PoolTypes
<1>1. CASE StartPool
  BY <1>1 DEF StartPool, logs
<1>2. CASE HandleUdp
  BY <1>2 DEF HandleUdp, DispatchRequest
<1>3. CASE HandleConn
  BY <1>3 DEF HandleConn, DispatchRequest, IgnoreData, poolVars, logs
<1>4. CASE JoinPool
  BY <1>4 DEF JoinPool, logs
<1>5. ASSUME NEW w \in Workers, Worker(w) PROVE PoolTypes'
  <2>1. CASE WorkerReady(w) \/ WorkerFails(w) \/ ReplaceWorker(w)
    BY <2>1 DEF WorkerReady, WorkerFails, ReplaceWorker, workerUnchanged, logs
  <2>2. CASE TakeRequest(w)
    BY <2>2 DEF TakeRequest, workerUnchanged, logs
  <2>3. CASE FinishRequest(w)
    BY <2>3 DEF FinishRequest, workerUnchanged, logs
  <2> QED
    BY <1>5, <2>1, <2>2, <2>3 DEF Worker
<1>6. CASE UNCHANGED <<queue, worker, served, dispatched>>
  BY <1>6
<1> QED
  BY <1>1, <1>2, <1>3, <1>4, <1>5, <1>6, PoolChanges

LEMMA PipeTypesStep == PipeTypes /\ [Next]_vars => PipeTypes'
<1> SUFFICES ASSUME PipeTypes, [Next]_vars PROVE PipeTypes'
  OBVIOUS
<1>0. pipe \in Seq(Signals) /\ (SignalPipe \in todo => pipe # <<>>)
  BY DEF PipeTypes
<1>1. CASE HandleHangup \/ HandleTerminate \/ HandleWorkerFailure
  <2>1. SignalPipe \in todo /\ SignalPipe \notin todo' /\ pipe' = Tail(pipe)
    BY <1>1 DEF HandleHangup, HandleTerminate, HandleWorkerFailure, Take
  <2>2. Tail(pipe) \in Seq(Signals)
    BY <1>0, <2>1, HeadTailProperties
  <2> QED
    BY <2>1, <2>2 DEF PipeTypes
<1>2. CASE ReloadCommand \/ ShutdownCommand \/ HandlerRaises
  <2>1. \/ pipe' = Append(pipe, "HUP") \/ pipe' = Append(pipe, "TERM") \/ pipe' = pipe
    BY <1>2 DEF ReloadCommand, ShutdownCommand, HandlerRaises, WriteSignal
  <2>2. todo' \subseteq todo
    BY <1>2 DEF ReloadCommand, ShutdownCommand, HandlerRaises, AbandonRound
  <2> QED
    BY <1>0, <2>1, <2>2, AppendProperties DEF PipeTypes, Signals
<1>3. CASE SignalArrives
  <2>1. PICK s \in {"HUP", "TERM"} : pipe' = Append(pipe, s)
    BY <1>3 DEF SignalArrives
  <2> QED
    BY <1>0, <2>1, AppendProperties DEF PipeTypes, Signals
<1>4. CASE Select
  <2>1. pipe' = pipe /\ todo' = Ready
    BY <1>4 DEF Select
  <2>2. SignalPipe \in Ready => pipe # <<>>
    BY DEF Ready, IsReady, SignalPipe
  <2> QED
    BY <1>0, <2>1, <2>2 DEF PipeTypes
<1>5. ASSUME NEW w \in Workers, WorkerFails(w) PROVE PipeTypes'
  <2>1. (pipe' = Append(pipe, "USR1") \/ pipe' = pipe) /\ todo' = todo
    BY <1>5 DEF WorkerFails, workerUnchanged, roundVars
  <2> QED
    BY <1>0, <2>1, AppendProperties DEF PipeTypes, Signals
<1>6. CASE pipe' = pipe /\ todo' \subseteq todo
  BY <1>0, <1>6 DEF PipeTypes
<1> QED
  BY <1>1, <1>2, <1>3, <1>4, <1>5, <1>6, PipeChanges

LEMMA NetTypesStep == NetTypes /\ [Next]_vars => NetTypes'
<1> SUFFICES ASSUME NetTypes, [Next]_vars PROVE NetTypes'
  OBVIOUS
<1> USE DEF NetTypes
<1>1. CASE RegisterListeners
  BY <1>1 DEF RegisterListeners
<1>2. CASE HandleUdp
  BY <1>2 DEF HandleUdp, DispatchRequest
<1>3. CASE HandleConn
  BY <1>3 DEF HandleConn, DispatchRequest, IgnoreData
<1>4. CASE ForgetConn
  BY <1>4 DEF ForgetConn
<1>5. CASE AcceptConn
  <2>1. PICK a \in TcpAddrs, c \in Conns :
          /\ backlog' = [backlog EXCEPT ![a] = @ \ {c}]
          /\ conn' = [conn EXCEPT ![c] = "open"] \/ conn' = [conn EXCEPT ![c] = "gone"]
          /\ waiting' = waiting
    BY <1>5 DEF AcceptConn
  <2> QED
    BY <2>1
<1>6. CASE DataArrives
  BY <1>6 DEF DataArrives
<1>7. CASE ClientConnects \/ ClientCloses
  BY <1>7 DEF ClientConnects, ClientCloses
<1>8. CASE UNCHANGED netVars
  BY <1>8 DEF netVars
<1> QED
  BY <1>1, <1>2, <1>3, <1>4, <1>5, <1>6, <1>7, <1>8, NetChanges

LEMMA CtlTypesStep == CtlTypes /\ [Next]_vars => CtlTypes'
<1> SUFFICES ASSUME CtlTypes, [Next]_vars PROVE CtlTypes'
  OBVIOUS
<1> USE DEF CtlTypes
<1>1. CASE CreateFiles
  BY <1>1 DEF CreateFiles
<1>2. CASE AcceptCtlConn
  <2>1. PICK k \in CtlConns : 
          /\ ctlConn' = [ctlConn EXCEPT ![k] = "open"] \/ ctlConn' = [ctlConn EXCEPT ![k] = "gone"]
          /\ ctlIn' = ctlIn
    BY <1>2 DEF AcceptCtlConn
  <2> QED
    BY <2>1
<1>3. CASE GetCommands
  <2>1. PICK k \in CtlConns : ctlIn' = [ctlIn EXCEPT ![k] = <<>>] /\ ctlConn' = ctlConn
    BY <1>3 DEF GetCommands
  <2> QED
    BY <2>1
<1>4. CASE ShutdownCommand \/ QuitCommand
  <2>1. ctlConn' = [ctlConn EXCEPT ![cur] = "gone"] /\ ctlIn' = ctlIn
    BY <1>4 DEF ShutdownCommand, QuitCommand, CloseCtlConn
  <2> QED
    BY <2>1
<1>5. CASE OperatorConnects \/ OperatorCloses
  <2>1. PICK k \in CtlConns :
          /\ ctlConn' = [ctlConn EXCEPT ![k] = "backlog"] \/ ctlConn' = [ctlConn EXCEPT ![k] = "eof"]
          /\ ctlIn' = ctlIn
    BY <1>5 DEF OperatorConnects, OperatorCloses
  <2> QED
    BY <2>1
<1>6. CASE OperatorSends
  <2>1. PICK k \in CtlConns, c \in {"reload", "shutdown", "quit", "other"} :
          ctlIn' = [ctlIn EXCEPT ![k] = Append(@, c)] /\ ctlConn' = ctlConn
    BY <1>6 DEF OperatorSends
  <2>2. c \in Commands \ {None}
    BY ServerAssumption DEF Commands
  <2>3. Append(ctlIn[k], c) \in Seq(Commands \ {None})
    BY <2>2
  <2> QED
    BY <2>1, <2>3
<1>7. CASE UNCHANGED <<ctlConn, ctlIn>>
  BY <1>7
<1> QED
  BY <1>1, <1>2, <1>3, <1>4, <1>5, <1>6, <1>7, CtlChanges

LEMMA CommandTypesStep == CtlTypes /\ CommandTypes /\ [Next]_vars => CommandTypes'
<1> SUFFICES ASSUME CtlTypes, CommandTypes, [Next]_vars PROVE CommandTypes'
  OBVIOUS
<1> USE DEF CommandTypes
<1>1. CASE GetCommands
  <2>1. PICK k \in CtlConns :
          /\ Take(CtlConn(k)) /\ cur' = k
          /\ cmds' = IF ctlIn[k] = <<>> THEN <<None>> ELSE ctlIn[k]
    BY <1>1 DEF GetCommands
  <2>2. ctlIn[k] \in Seq(Commands) /\ <<None>> \in Seq(Commands)
    BY SeqMonotonic DEF CtlTypes, Commands
  <2> QED
    BY <2>1, <2>2 DEF Take
<1>2. CASE OtherCommand \/ ReloadCommand \/ ShutdownCommand \/ QuitCommand \/ HandlerRaises
  <2>1. \/ /\ cmds # <<>> /\ cmds' = Tail(cmds) /\ cur' = cur
           /\ pc = "commands" /\ todo' = todo
        \/ cmds' = <<>> /\ cur' = None /\ pc' = "events"
    <3>1. CASE OtherCommand
      BY <3>1 DEF OtherCommand, Command
    <3>2. CASE ReloadCommand
      BY <3>2 DEF ReloadCommand, Command, AbandonRound
    <3>3. CASE ShutdownCommand
      BY <3>3 DEF ShutdownCommand, AbandonRound
    <3>4. CASE QuitCommand
      BY <3>4 DEF QuitCommand
    <3>5. CASE HandlerRaises
      BY <3>5 DEF HandlerRaises, AbandonRound
    <3> QED
      BY <1>2, <3>1, <3>2, <3>3, <3>4, <3>5
  <2>2. cmds # <<>> => Tail(cmds) \in Seq(Commands)
    BY HeadTailProperties
  <2>3. <<>> \in Seq(Commands) /\ "events" # "commands"
    OBVIOUS
  <2> QED
    BY <2>1, <2>2, <2>3
<1>3. CASE CommandsDone
  BY <1>3 DEF CommandsDone
<1>4. CASE /\ UNCHANGED <<cmds, cur>>
           /\ pc' = "commands" => pc = "commands" /\ todo' \subseteq todo
  BY <1>4
<1> QED
  BY <1>1, <1>2, <1>3, <1>4, CommandChanges

LEMMA MasterTypesStep == MasterTypes /\ [Next]_vars => MasterTypes'
<1> SUFFICES ASSUME MasterTypes, [Next]_vars PROVE MasterTypes'
  OBVIOUS
<1> USE DEF MasterTypes, mainVars, roundVars, envVars, ctlVars, logs
<1>1. CASE Reconfigure
  <2>1. CASE OpenListeners
    BY <2>1 DEF OpenListeners, Exit
  <2>2. CASE CreateFiles
    BY <2>2 DEF CreateFiles, Exit
  <2>3. CASE RegisterListeners
    BY <2>3 DEF RegisterListeners
  <2>4. CASE StartPool
    <3>1. CASE config.fails = "handler"
      BY <2>4, <3>1 DEF StartPool, Exit
    <3>2. CASE config.fails # "handler"
      BY <2>4, <3>2 DEF StartPool
    <3> QED
      BY <3>1, <3>2
  <2> QED
    BY <1>1, <2>1, <2>2, <2>3, <2>4 DEF Reconfigure
<1>2. CASE Select
  BY <1>2 DEF Select
<1>3. CASE HandleUdp \/ HandleConn \/ ForgetConn \/ AcceptConn
  BY <1>3 DEF HandleUdp, HandleConn, DispatchRequest, IgnoreData, ForgetConn, AcceptConn,
              Take
<1>4. CASE HandleHangup \/ HandleTerminate \/ HandleWorkerFailure
  BY <1>4 DEF HandleHangup, HandleTerminate, HandleWorkerFailure, Take, Stop
<1>5. CASE AcceptCtlConn \/ GetCommands
  BY <1>5 DEF AcceptCtlConn, GetCommands, Take
<1>6. CASE HandleCommand \/ HandlerRaises
  BY <1>6 DEF HandleCommand, OtherCommand, ReloadCommand, ShutdownCommand, QuitCommand,
              CommandsDone, HandlerRaises, AbandonRound, Command
<1>7. CASE CountException
  BY <1>7 DEF CountException, Stop
<1>8. CASE RoundDone \/ ClosePool \/ JoinPool \/ CleanUp
  BY <1>8 DEF RoundDone, ClosePool, JoinPool, CleanUp, Exit
<1>9. ASSUME NEW w \in Workers, Worker(w) PROVE MasterTypes'
  BY <1>9 DEF Worker, WorkerReady, WorkerFails, ReplaceWorker, TakeRequest, FinishRequest,
              workerUnchanged
<1>10. CASE World
  BY <1>10 DEF World, DataArrives, ClientConnects, ClientCloses, OperatorConnects,
               OperatorSends, OperatorCloses, SignalArrives, EditConfig, Tick, worldUnchanged
<1>11. CASE UNCHANGED vars
  BY <1>11 DEF vars
<1> QED
  BY <1>1, <1>2, <1>3, <1>4, <1>5, <1>6, <1>7, <1>8, <1>9, <1>10, <1>11
  DEF Next, Master, HandleEvent

LEMMA HistoryChanges ==
    ASSUME [Next]_vars
    PROVE  \/ CountException \/ Tick \/ UNCHANGED <<history, raised, now>>
<1> DEFINE Same == UNCHANGED <<history, raised, now>>
<1> USE DEF mainVars, envVars, logs
<1>1. Reconfigure => Same
  BY DEF Reconfigure, OpenListeners, CreateFiles, RegisterListeners, StartPool
<1>2. HandleEvent => Same
  BY DEF HandleEvent, HandleUdp, HandleConn, DispatchRequest, IgnoreData, ForgetConn,
         AcceptConn, HandleHangup, HandleTerminate, HandleWorkerFailure, AcceptCtlConn,
         GetCommands
<1>3. HandleCommand => Same
  BY DEF HandleCommand, OtherCommand, ReloadCommand, ShutdownCommand, QuitCommand,
         CommandsDone
<1>4. Select \/ HandlerRaises \/ RoundDone \/ ClosePool \/ JoinPool \/ CleanUp => Same
  BY DEF Select, HandlerRaises, RoundDone, ClosePool, JoinPool, CleanUp
<1>5. ASSUME NEW w \in Workers PROVE Worker(w) => Same
  BY DEF Worker, WorkerReady, WorkerFails, ReplaceWorker, TakeRequest, FinishRequest,
         workerUnchanged
<1>6. World => Tick \/ Same
  BY DEF World, DataArrives, ClientConnects, ClientCloses, OperatorConnects,
         OperatorSends, OperatorCloses, SignalArrives, EditConfig, worldUnchanged
<1>7. UNCHANGED vars => Same
  BY DEF vars
<1> QED
  BY <1>1, <1>2, <1>3, <1>4, <1>5, <1>6, <1>7 DEF Next, Master

(* Every nonempty set of positions has a first one: induction over the     *)
(* naturals, in the form of a well-founded relation.                       *)
LEMMA FirstExists ==
    ASSUME NEW S \in SUBSET Nat, S # {}
    PROVE  \E n \in S : \A m \in S : n <= m
<1>1. PICK n \in S : \A m \in S : <<m, n>> \notin OpToRel(<, Nat)
  BY NatLessThanWellFounded, WFMin
<1>2. \A m, k \in Nat : <<m, k>> \in OpToRel(<, Nat) <=> m < k
  BY DEF OpToRel
<1>3. \A m \in S : ~(m < n) /\ m \in Nat /\ n \in Nat
  BY <1>1, <1>2
<1>4. \A m \in S : n <= m
  BY <1>3
<1> QED
  BY <1>4

(* Times are only popped from the front, and only those outside the window.*)
LEMMA InWindowIsSuffix ==
    ASSUME NEW times \in Seq(Nat), NEW t \in Nat, config.window \in Nat
    PROVE  \E k \in 0..Len(times) :
             /\ InWindow(times, t) = SubSeq(times, k + 1, Len(times))
             /\ \A i \in 1..k : times[i] < t - config.window
<1> DEFINE recent == {i \in 1..Len(times) : times[i] >= t - config.window}
           first == CHOOSE i \in recent : \A j \in recent : i <= j
<1>1. CASE recent = {}
  <2>1. InWindow(times, t) = <<>> /\ SubSeq(times, Len(times) + 1, Len(times)) = <<>>
    BY <1>1, SubSeqEmpty DEF InWindow, FromFirst
  <2>2. \A i \in 1..Len(times) : times[i] < t - config.window
    BY <1>1
  <2> QED
    BY <2>1, <2>2
<1>2. CASE recent # {}
  <2>1. recent \in SUBSET Nat
    OBVIOUS
  <2>2. \E i \in recent : \A j \in recent : i <= j
    BY <1>2, <2>1, FirstExists
  <2> HIDE DEF recent
  <2>3. first \in recent /\ \A j \in recent : first <= j
    BY <2>2
  <2>4. InWindow(times, t) = SubSeq(times, first, Len(times))
    BY <1>2 DEF InWindow, FromFirst, recent
  <2> HIDE DEF first
  <2>5. first \in 1..Len(times)
    BY <2>3 DEF recent
  <2>6. \A i \in 1..first - 1 : times[i] < t - config.window
    BY <2>3, <2>5 DEF recent
  <2>7. first - 1 \in 0..Len(times) /\ first - 1 + 1 = first
    BY <2>5
  <2> QED
    BY <2>4, <2>6, <2>7
<1> QED
  BY <1>1, <1>2

LEMMA HistoryTypesStep == HistoryTypes /\ MasterTypes /\ [Next]_vars => HistoryTypes'
<1> SUFFICES ASSUME HistoryTypes, MasterTypes, [Next]_vars PROVE HistoryTypes'
  OBVIOUS
<1> USE DEF HistoryTypes
<1>1. CASE CountException
  <2>1. /\ history' = InWindow(Append(history, now), now) /\ raised' = Append(raised, now)
        /\ now' = now
    BY <1>1 DEF CountException, envVars
  <2>2. Append(history, now) \in Seq(Nat)
    OBVIOUS
  <2>3. config.window \in Nat
    BY ServerAssumption DEF MasterTypes
  <2>4. PICK k \in 0..Len(Append(history, now)) :
          history' = SubSeq(Append(history, now), k + 1, Len(Append(history, now)))
    BY <2>1, <2>2, <2>3, InWindowIsSuffix
  <2>5. history' \in Seq(Nat)
    BY <2>2, <2>4
  <2> QED
    BY <2>1, <2>5
<1>2. CASE Tick
  BY <1>2 DEF Tick, worldUnchanged, mainVars, logs
<1>3. CASE UNCHANGED <<history, raised, now>>
  BY <1>3
<1> QED
  BY <1>1, <1>2, <1>3, HistoryChanges

LEMMA TypesStep == Types /\ [Next]_vars => Types'
BY PoolTypesStep, PipeTypesStep, NetTypesStep, CtlTypesStep, CommandTypesStep,
   MasterTypesStep, HistoryTypesStep DEF Types

(* Type correctness of the master and its pool, for any number of workers, *)
(* listeners and connections.                                              *)
THEOREM TypeCorrect == Spec => []TypeOK
BY InitTypes, TypesStep, TypesImplyTypeOK, PTL DEF Spec

-----------------------------------------------------------------------------
(* The pool                                                                *)

PoolOpen == pc \in {"select", "events", "commands", "closing", "joining"}
Busy == {w \in Workers : worker[w] = "busy"}

(* Between two pools nothing is queued and no process works: this is what  *)
(* makes the counts of two generations of workers add up.                  *)
PoolInv ==
    /\ ~PoolOpen => queue = 0 /\ \A w \in Workers : worker[w] = "none"
    /\ RequestsAccounted

LEMMA PoolOpens ==
    ASSUME [Next]_vars
    PROVE  StartPool \/ JoinPool \/ (PoolOpen' <=> PoolOpen)
<1> DEFINE Same == PoolOpen' <=> PoolOpen
<1> USE DEF PoolOpen
<1>1. Reconfigure => StartPool \/ Same
  BY DEF Reconfigure, OpenListeners, CreateFiles, RegisterListeners, Exit
<1>2. HandleEvent => Same
  BY DEF HandleEvent, HandleUdp, HandleConn, DispatchRequest, IgnoreData, ForgetConn,
         AcceptConn, HandleHangup, HandleTerminate, HandleWorkerFailure, AcceptCtlConn,
         GetCommands, Take
<1>3. HandleCommand => Same
  BY DEF HandleCommand, OtherCommand, ReloadCommand, ShutdownCommand, QuitCommand,
         CommandsDone, Command, AbandonRound
<1>4. Select \/ HandlerRaises \/ CountException \/ RoundDone \/ ClosePool \/ CleanUp => Same
  BY DEF Select, HandlerRaises, AbandonRound, CountException, RoundDone, ClosePool, CleanUp,
         Exit
<1>5. ASSUME NEW w \in Workers PROVE Worker(w) => Same
  BY DEF Worker, WorkerReady, WorkerFails, ReplaceWorker, TakeRequest, FinishRequest,
         workerUnchanged
<1>6. World => Same
  BY DEF World, DataArrives, ClientConnects, ClientCloses, OperatorConnects,
         OperatorSends, OperatorCloses, SignalArrives, EditConfig, Tick, worldUnchanged
<1>7. UNCHANGED vars => Same
  BY DEF vars
<1> QED
  BY <1>1, <1>2, <1>3, <1>4, <1>5, <1>6, <1>7 DEF Next, Master

LEMMA BusyIsFinite == IsFiniteSet(Busy) /\ Cardinality(Busy) \in Nat
BY ServerAssumption, FS_Subset, FS_CardinalityType DEF Busy

LEMMA PoolStep == PoolTypes /\ PoolInv /\ [Next]_vars => PoolInv'
<1> SUFFICES ASSUME PoolTypes, PoolInv, [Next]_vars PROVE PoolInv'
  OBVIOUS
<1>1. dispatched = served + (queue + Cardinality(Busy))
  BY DEF PoolInv, RequestsAccounted, Outstanding, Busy
<1>2. SUFFICES /\ ~PoolOpen' => queue' = 0 /\ \A w \in Workers : worker'[w] = "none"
               /\ dispatched' = served' + (queue' + Cardinality(Busy'))
  BY DEF PoolInv, RequestsAccounted, Outstanding, Busy
<1>3. ~PoolOpen => queue = 0 /\ \A w \in Workers : worker[w] = "none"
  BY DEF PoolInv
<1>4. /\ IsFiniteSet(Busy) /\ Cardinality(Busy) \in Nat /\ queue \in Nat
      /\ served \in Nat /\ dispatched \in Nat
  BY BusyIsFinite DEF PoolTypes
<1>5. CASE StartPool
  <2>1. ~PoolOpen /\ UNCHANGED <<served, dispatched>>
    BY <1>5 DEF StartPool, PoolOpen, logs
  <2>2. CASE UNCHANGED <<queue, worker>>
    BY <1>1, <1>3, <2>1, <2>2 DEF Busy
  <2>3. CASE /\ pc' = "select" /\ queue' = 0
             /\ worker' = [w \in Workers |-> "init"]
    <3>1. Busy = {} /\ Busy' = {} /\ PoolOpen'
      BY <1>3, <2>1, <2>3 DEF Busy, PoolOpen
    <3> QED
      BY <1>1, <1>3, <2>1, <2>3, <3>1
  <2> QED
    BY <1>5, <2>2, <2>3 DEF StartPool
<1>6. CASE HandleUdp \/ HandleConn
  <2>1. /\ PoolOpen' /\ UNCHANGED <<worker, served>>
        /\ \/ queue' = queue + 1 /\ dispatched' = dispatched + 1
           \/ UNCHANGED <<queue, dispatched>>
    BY <1>6 DEF HandleUdp, HandleConn, DispatchRequest, IgnoreData, Take, PoolOpen, poolVars,
                logs
  <2>2. Busy' = Busy
    BY <2>1 DEF Busy
  <2> QED
    BY <1>1, <1>4, <2>1, <2>2
<1>7. CASE JoinPool
  <2>1. /\ queue + Cardinality(Busy) = 0 /\ UNCHANGED <<queue, served, dispatched>>
        /\ worker' = [w \in Workers |-> "none"]
    BY <1>7 DEF JoinPool, PoolDrained, Outstanding, Busy, logs
  <2>2. Busy' = {}
    BY <2>1 DEF Busy
  <2>3. Cardinality(Busy') = 0 /\ queue = 0 /\ Cardinality(Busy) = 0
    BY <1>4, <2>1, <2>2, FS_EmptySet
  <2> QED
    BY <1>1, <2>1, <2>3
<1>8. ASSUME NEW w \in Workers, Worker(w) PROVE /\ PoolOpen' <=> PoolOpen
                                                /\ PoolOpen
                                                /\ UNCHANGED dispatched
                                                /\ dispatched' = served' + (queue' + Cardinality(Busy'))
  <2>1. PoolOpen /\ (PoolOpen' <=> PoolOpen) /\ UNCHANGED dispatched
    BY <1>3, <1>8 DEF Worker, WorkerReady, WorkerFails, ReplaceWorker, TakeRequest,
                      FinishRequest, workerUnchanged, PoolOpen, logs
  <2>2. CASE WorkerReady(w) \/ WorkerFails(w) \/ ReplaceWorker(w)
    <3>1. Busy' = Busy /\ UNCHANGED <<queue, served>>
      BY <2>2 DEF WorkerReady, WorkerFails, ReplaceWorker, Busy, PoolTypes
    <3> QED
      BY <1>1, <2>1, <3>1
  <2>3. CASE TakeRequest(w)
    <3>1. /\ Busy' = Busy \cup {w} /\ w \notin Busy
          /\ queue' = queue - 1 /\ UNCHANGED served
      BY <2>3 DEF TakeRequest, Busy, PoolTypes
    <3>2. Cardinality(Busy') = Cardinality(Busy) + 1
      BY <1>4, <3>1, FS_AddElement
    <3> QED
      BY <1>1, <1>4, <2>1, <3>1, <3>2
  <2>4. CASE FinishRequest(w)
    <3>1. /\ Busy' = Busy \ {w} /\ w \in Busy
          /\ served' = served + 1 /\ UNCHANGED queue
      BY <2>4 DEF FinishRequest, Busy, PoolTypes
    <3>2. Cardinality(Busy') = Cardinality(Busy) - 1
      BY <1>4, <3>1, FS_RemoveElement
    <3> QED
      BY <1>1, <1>4, <2>1, <3>1, <3>2
  <2> QED
    BY <1>8, <2>1, <2>2, <2>3, <2>4 DEF Worker
<1>9. CASE UNCHANGED <<queue, worker, served, dispatched>> /\ (PoolOpen' <=> PoolOpen)
  BY <1>1, <1>3, <1>9 DEF Busy
<1> QED
  BY <1>5, <1>6, <1>7, <1>8, <1>9, PoolChanges, PoolOpens

LEMMA InitPool == Init => PoolInv
<1> SUFFICES ASSUME Init PROVE PoolInv
  OBVIOUS
<1>1. queue = 0 /\ dispatched = 0 /\ served = 0 /\ \A w \in Workers : worker[w] = "none"
  BY DEF Init
<1>2. {w \in Workers : worker[w] = "busy"} = {}
  BY <1>1
<1>3. Outstanding = 0
  BY <1>1, <1>2, FS_EmptySet DEF Outstanding
<1> QED
  BY <1>1, <1>3 DEF PoolInv, RequestsAccounted

LEMMA PoolInvariant == Spec => [](Types /\ PoolInv)
BY InitTypes, TypesStep, InitPool, PoolStep, PTL DEF Spec, Types

(* No request is lost or served twice: whatever was given to a pool is in  *)
(* its queue, with a worker, or done, across any number of reloads.        *)
THEOREM RequestsAreAccounted == Spec => []RequestsAccounted
<1>1. PoolInv => RequestsAccounted
  BY DEF PoolInv
<1> QED
  BY <1>1, PoolInvariant, PTL

(* When main() has returned, every request that was dispatched is done.    *)
THEOREM NothingIsLeftBehind == Spec => []NothingLeftBehind
<1>1. Types /\ PoolInv => NothingLeftBehind
  <2> SUFFICES ASSUME Types, PoolInv, pc = "exited" PROVE dispatched = served
    BY DEF NothingLeftBehind
  <2>1. queue = 0 /\ \A w \in Workers : worker[w] = "none"
    BY DEF PoolInv, PoolOpen
  <2>2. {w \in Workers : worker[w] = "busy"} = {}
    BY <2>1
  <2>3. dispatched = served + (0 + 0)
    BY <2>1, <2>2, FS_EmptySet DEF PoolInv, RequestsAccounted, Outstanding
  <2> QED
    BY <2>3 DEF Types, PoolTypes
<1> QED
  BY <1>1, PoolInvariant, PTL

-----------------------------------------------------------------------------
(* The selector                                                            *)

Watching == pc \in {"start", "select", "events", "commands"}
NetKinds == {"udp", "tcp", "conn"}
CtlSockets == {e \in reg : e[1] = "ctlsocket"}

(* Between two configurations the selector still holds the objects of the  *)
(* old one, but never a control connection nobody handles; the events of a *)
(* round are about objects that are registered, whatever the handlers      *)
(* before them have unregistered.                                          *)
SelectorInv ==
    /\ pc # "exited" => SignalPipe \in reg /\ CtlSockets = CtlObject
    /\ \A k \in CtlConns : CtlConn(k) \in reg <=> ctlConn[k] \in {"open", "eof"}
    /\ \A e \in listeners : e[1] \in NetKinds
    /\ Watching => NetObjects = listeners
    /\ todo \subseteq reg

LEMMA ObjectKinds ==
    /\ SignalPipe[1] = "pipe"
    /\ \A a, g : Udp(a, g)[1] = "udp" /\ Tcp(a, g)[1] = "tcp"
    /\ \A c : Conn(c)[1] = "conn" /\ CtlConn(c)[1] = "ctlconn" /\ CtlSocket(c)[1] = "ctlsocket"
    /\ \A j, k : CtlConn(j) = CtlConn(k) => j = k
BY DEF SignalPipe, Udp, Tcp, Conn, CtlConn, CtlSocket

LEMMA SelectorChanges ==
    ASSUME [Next]_vars
    PROVE  \/ OpenListeners \/ CreateFiles \/ RegisterListeners \/ Select \/ ForgetConn
           \/ AcceptConn \/ AcceptCtlConn \/ ShutdownCommand \/ QuitCommand
           \/ OperatorConnects \/ OperatorCloses
           \/ /\ UNCHANGED <<reg, listeners, ctlSocket, ctlConn>> /\ todo' \subseteq todo
              /\ pc' # "exited" => pc # "exited"
              /\ Watching' => Watching
<1> DEFINE Same == /\ UNCHANGED <<reg, listeners, ctlSocket, ctlConn>> /\ todo' \subseteq todo
                   /\ pc' # "exited" => pc # "exited"
                   /\ Watching' => Watching
<1> USE DEF mainVars, roundVars, ctlVars, Watching
<1>1. StartPool => Same
  BY DEF StartPool, Exit
<1>2. HandleEvent => ForgetConn \/ AcceptConn \/ AcceptCtlConn \/ Same
  BY DEF HandleEvent, HandleUdp, HandleConn, DispatchRequest, IgnoreData, HandleHangup,
         HandleTerminate, HandleWorkerFailure, GetCommands, Take
<1>3. HandleCommand => ShutdownCommand \/ QuitCommand \/ Same
  BY DEF HandleCommand, OtherCommand, ReloadCommand, CommandsDone, Command, AbandonRound
<1>4. HandlerRaises \/ CountException \/ RoundDone \/ ClosePool \/ JoinPool \/ CleanUp => Same
  BY DEF HandlerRaises, AbandonRound, CountException, RoundDone, ClosePool, JoinPool, CleanUp,
         Exit
<1>5. ASSUME NEW w \in Workers PROVE Worker(w) => Same
  BY DEF Worker, WorkerReady, WorkerFails, ReplaceWorker, TakeRequest, FinishRequest,
         workerUnchanged
<1>6. World => OperatorConnects \/ OperatorCloses \/ Same
  BY DEF World, DataArrives, ClientConnects, ClientCloses, OperatorSends, SignalArrives,
         EditConfig, Tick, worldUnchanged
<1>7. UNCHANGED vars => Same
  BY DEF vars
<1> QED
  BY <1>1, <1>2, <1>3, <1>4, <1>5, <1>6, <1>7 DEF Next, Master, Reconfigure

LEMMA InitSelector == Init => SelectorInv
<1> SUFFICES ASSUME Init PROVE SelectorInv
  OBVIOUS
<1>1. reg = {SignalPipe} /\ todo = {} /\ listeners = {} /\ ctlSocket = None /\ pc = "top"
      /\ \A k \in CtlConns : ctlConn[k] = "new"
  BY DEF Init
<1>2. CtlSockets = {} /\ CtlObject = {}
  BY <1>1, ObjectKinds DEF CtlSockets, CtlObject
<1>3. \A k \in CtlConns : CtlConn(k) \notin reg
  BY <1>1, ObjectKinds
<1> QED
  BY <1>1, <1>2, <1>3 DEF SelectorInv, Watching

LEMMA SelectorStep == Types /\ SelectorInv /\ [Next]_vars => SelectorInv'
<1> SUFFICES ASSUME Types, SelectorInv, [Next]_vars PROVE SelectorInv'
  OBVIOUS
<1> USE DEF SelectorInv, NetKinds
<1>1. CASE OpenListeners
  <2>1. /\ UNCHANGED <<reg, ctlSocket, ctlConn, todo>>
        /\ pc = "top" /\ pc' \in {"files", "exited"}
        /\ listeners' = listeners \/ listeners' = Created(config, gen + 1)
    BY <1>1 DEF OpenListeners, Exit, roundVars, ctlVars
  <2>2. \A e \in Created(config, gen + 1) : e[1] \in NetKinds
    BY ObjectKinds DEF Created
  <2>3. CtlSockets' = CtlSockets /\ CtlObject' = CtlObject /\ ~Watching'
    BY <2>1 DEF CtlSockets, CtlObject, Watching
  <2> QED
    BY <2>1, <2>2, <2>3
<1>2. CASE CreateFiles
  <2>1. /\ pc = "files" /\ pc' \in {"register", "exited"} /\ UNCHANGED <<listeners, todo>>
        /\ \A k \in CtlConns : ctlConn'[k] \in {"open", "eof"} <=> ctlConn[k] \in {"open", "eof"}
        /\ \/ pc' = "exited" /\ reg' = reg \ CtlObject
           \/ reg' = (reg \ CtlObject) \cup CtlObject'
    BY <1>2 DEF CreateFiles, Exit, roundVars
  <2>2. /\ \A e \in CtlObject : e[1] = "ctlsocket"
        /\ \A e \in CtlObject' : e[1] = "ctlsocket"
    BY ObjectKinds DEF CtlObject
  <2>3. pc' # "exited" => SignalPipe \in reg' /\ CtlSockets' = CtlObject'
    BY <2>1, <2>2, ObjectKinds DEF CtlSockets
  <2>4. \A k \in CtlConns : CtlConn(k) \in reg' <=> CtlConn(k) \in reg
    BY <2>1, <2>2, ObjectKinds
  <2>5. todo' = {} /\ ~Watching'
    BY <2>1 DEF Types, MasterTypes, Watching
  <2> QED
    BY <2>1, <2>3, <2>4, <2>5
<1>3. CASE RegisterListeners
  <2>1. /\ pc = "register" /\ pc' = "start"
        /\ UNCHANGED <<listeners, ctlSocket, ctlConn, todo>>
        /\ reg' = {e \in reg : Keeps(e)} \cup listeners
    BY <1>3 DEF RegisterListeners, mainVars, roundVars, ctlVars
  <2>2. /\ \A e \in CtlObject : e[1] = "ctlsocket"
        /\ \A e \in CtlConnObjects : e[1] = "ctlconn"
    BY ObjectKinds DEF CtlObject, CtlConnObjects
  <2>3. CtlObject' = CtlObject
    BY <2>1 DEF CtlObject
  <2>4. SignalPipe \in reg' /\ CtlSockets' = CtlObject'
    BY <2>1, <2>2, <2>3, ObjectKinds DEF Keeps, CtlSockets
  <2>5. \A k \in CtlConns : CtlConn(k) \in reg' <=> CtlConn(k) \in reg
    BY <2>1, ObjectKinds DEF Keeps, CtlConnObjects
  <2>6. NetObjects' = listeners
    BY <2>1, <2>2, ObjectKinds DEF Keeps, NetObjects
  <2>7. todo' = {}
    BY <2>1 DEF Types, MasterTypes
  <2> QED
    BY <2>1, <2>4, <2>5, <2>6, <2>7
<1>4. CASE Select
  <2>1. /\ UNCHANGED <<reg, listeners, ctlSocket, ctlConn>>
        /\ pc = "select" /\ todo' \subseteq reg
    BY <1>4 DEF Select, mainVars, ctlVars, Ready
  <2>2. /\ CtlSockets' = CtlSockets /\ CtlObject' = CtlObject /\ NetObjects' = NetObjects
        /\ Watching
    BY <2>1 DEF CtlSockets, CtlObject, NetObjects, Watching
  <2> QED
    BY <2>1, <2>2
<1>5. CASE ForgetConn \/ AcceptConn
  <2>1. PICK c \in Conns :
          /\ pc = "events" /\ pc' = pc /\ UNCHANGED <<ctlSocket, ctlConn>>
          /\ \/ /\ reg' = reg \ {Conn(c)} /\ listeners' = listeners \ {Conn(c)}
                /\ todo' = todo \ {Conn(c)}
             \/ /\ reg' = reg \cup {Conn(c)} /\ listeners' = listeners \cup {Conn(c)}
                /\ todo' \subseteq todo
             \/ UNCHANGED <<reg, listeners>> /\ todo' \subseteq todo
    BY <1>5 DEF ForgetConn, AcceptConn, Take, ctlVars
  <2>2. Conn(c)[1] = "conn"
    BY ObjectKinds
  <2>3. CtlObject' = CtlObject /\ CtlSockets' = CtlSockets
    BY <2>1, <2>2 DEF CtlObject, CtlSockets
  <2>4. SignalPipe \in reg' /\ \A k \in CtlConns : CtlConn(k) \in reg' <=> CtlConn(k) \in reg
    BY <2>1, <2>2, ObjectKinds
  <2>5. NetObjects = listeners
    BY <2>1 DEF Watching
  <2>6. NetObjects' = listeners'
    BY <2>1, <2>2, <2>5 DEF NetObjects
  <2> QED
    BY <2>1, <2>2, <2>3, <2>4, <2>6
<1>6. CASE AcceptCtlConn
  <2>1. PICK k \in CtlConns :
          /\ pc' = pc /\ UNCHANGED <<listeners, ctlSocket>> /\ todo' \subseteq todo
          /\ ctlConn[k] = "backlog"
          /\ \/ reg' = reg \cup {CtlConn(k)} /\ ctlConn' = [ctlConn EXCEPT ![k] = "open"]
             \/ reg' = reg /\ ctlConn' = [ctlConn EXCEPT ![k] = "gone"]
    BY <1>6 DEF AcceptCtlConn, Take, mainVars
  <2>2. /\ CtlObject' = CtlObject /\ CtlSockets' = CtlSockets /\ NetObjects' = NetObjects
        /\ Watching' <=> Watching
    BY <2>1, ObjectKinds DEF CtlObject, CtlSockets, NetObjects, Watching
  <2>3. \A j \in CtlConns : CtlConn(j) \in reg' <=> ctlConn'[j] \in {"open", "eof"}
    BY <2>1, ObjectKinds DEF Types, CtlTypes
  <2> QED
    BY <2>1, <2>2, <2>3
<1>7. CASE ShutdownCommand \/ QuitCommand
  <2>1. /\ pc = "commands" /\ pc' = "events" /\ UNCHANGED <<listeners, ctlSocket>>
        /\ todo' \subseteq todo
        /\ ctlConn' = [ctlConn EXCEPT ![cur] = "gone"]
        /\ reg' = reg \ {CtlConn(cur)}
    BY <1>7 DEF ShutdownCommand, QuitCommand, CloseCtlConn, Command, AbandonRound, mainVars
  <2>2. cur \in CtlConns /\ CtlConn(cur) \notin todo
    BY <2>1 DEF Types, CommandTypes
  <2>3. /\ CtlObject' = CtlObject /\ CtlSockets' = CtlSockets /\ NetObjects' = NetObjects
        /\ SignalPipe \in reg' /\ Watching
    BY <2>1, ObjectKinds DEF CtlObject, CtlSockets, NetObjects, Watching
  <2>4. \A j \in CtlConns : CtlConn(j) \in reg' <=> ctlConn'[j] \in {"open", "eof"}
    BY <2>1, <2>2, ObjectKinds DEF Types, CtlTypes
  <2> QED
    BY <2>1, <2>2, <2>3, <2>4
<1>8. CASE OperatorConnects \/ OperatorCloses
  <2>1. PICK k \in CtlConns :
          /\ UNCHANGED <<pc, reg, listeners, ctlSocket, todo>>
          /\ \/ ctlConn[k] = "new" /\ ctlConn' = [ctlConn EXCEPT ![k] = "backlog"]
             \/ ctlConn[k] = "open" /\ ctlConn' = [ctlConn EXCEPT ![k] = "eof"]
    BY <1>8 DEF OperatorConnects, OperatorCloses, worldUnchanged, mainVars, roundVars
  <2>2. /\ CtlObject' = CtlObject /\ CtlSockets' = CtlSockets /\ NetObjects' = NetObjects
        /\ Watching' <=> Watching
    BY <2>1 DEF CtlObject, CtlSockets, NetObjects, Watching
  <2>3. \A j \in CtlConns : ctlConn'[j] \in {"open", "eof"} <=> ctlConn[j] \in {"open", "eof"}
    BY <2>1 DEF Types, CtlTypes
  <2> QED
    BY <2>1, <2>2, <2>3
<1>9. CASE /\ UNCHANGED <<reg, listeners, ctlSocket, ctlConn>> /\ todo' \subseteq todo
           /\ pc' # "exited" => pc # "exited"
           /\ Watching' => Watching
  <2>1. CtlObject' = CtlObject /\ CtlSockets' = CtlSockets /\ NetObjects' = NetObjects
    BY <1>9 DEF CtlObject, CtlSockets, NetObjects
  <2> QED
    BY <1>9, <2>1
<1> QED
  BY <1>1, <1>2, <1>3, <1>4, <1>5, <1>6, <1>7, <1>8, <1>9, SelectorChanges

(* While the server serves, the selector watches exactly the listeners and *)
(* connections of the configuration it serves, and every event that is     *)
(* still to be handled is about something registered.                      *)
THEOREM SelectorIsCorrect == Spec => []SelectorFollowsListeners
<1>1. SelectorInv => SelectorFollowsListeners
  BY DEF SelectorInv, SelectorFollowsListeners, Serving, Watching, CtlSockets
<1> QED
  BY <1>1, InitTypes, TypesStep, InitSelector, SelectorStep, PTL DEF Spec

-----------------------------------------------------------------------------
(* The files                                                               *)

(* A reload deletes the files of the configuration it replaces before the  *)
(* next one is applied; a hang-up signal changes the configuration while   *)
(* the files are still those of the old one, and ends the inner loop.      *)
FilesInv ==
    /\ pc \in {"top", "files"} => names = {}
    /\ pc \notin {"top", "files", "exited"} => names = FilesInUse \ {None}
    /\ pc \in {"register", "start"} \/ (Serving /\ running) =>
         /\ pidName = config.pid
         /\ ctlSocket = IF config.ctl = None THEN None ELSE <<config.ctl, gen>>
    /\ pc # "exited" => exitCode = None
    /\ exitCode = 0 => names = {}

Later == {"select", "events", "commands", "closing", "joining", "cleanup"}

LEMMA FilesChanges ==
    ASSUME [Next]_vars
    PROVE  \/ OpenListeners \/ CreateFiles \/ RegisterListeners \/ StartPool \/ CleanUp
           \/ /\ UNCHANGED <<names, pidName, ctlSocket, gen, exitCode>>
              /\ Serving' /\ running' => Serving /\ running /\ UNCHANGED config
              /\ pc' \notin Later => UNCHANGED config
              /\ pc' = pc \/ (pc \in Later /\ pc' \in Later)
<1> DEFINE Same ==
             /\ UNCHANGED <<names, pidName, ctlSocket, gen, exitCode>>
             /\ Serving' /\ running' => Serving /\ running /\ UNCHANGED config
             /\ pc' \notin Later => UNCHANGED config
             /\ pc' = pc \/ (pc \in Later /\ pc' \in Later)
<1> USE DEF mainVars
<1>1. HandleEvent => Same
  BY DEF HandleEvent, HandleUdp, HandleConn, DispatchRequest, IgnoreData, ForgetConn,
         AcceptConn, HandleHangup, HandleTerminate, HandleWorkerFailure, AcceptCtlConn,
         GetCommands, Take, Stop, Serving, Later
<1>2. HandleCommand => Same
  BY DEF HandleCommand, OtherCommand, ReloadCommand, ShutdownCommand, QuitCommand,
         CommandsDone, Command, AbandonRound, Serving, Later
<1>3. Select \/ HandlerRaises \/ CountException \/ RoundDone \/ ClosePool \/ JoinPool => Same
  BY DEF Select, HandlerRaises, AbandonRound, CountException, Stop, RoundDone, ClosePool,
         JoinPool, Serving, Later
<1>4. ASSUME NEW w \in Workers PROVE Worker(w) => Same
  BY DEF Worker, WorkerReady, WorkerFails, ReplaceWorker, TakeRequest, FinishRequest,
         workerUnchanged, Serving
<1>5. World => Same
  BY DEF World, DataArrives, ClientConnects, ClientCloses, OperatorConnects,
         OperatorSends, OperatorCloses, SignalArrives, EditConfig, Tick, worldUnchanged,
         Serving
<1>6. UNCHANGED vars => Same
  BY DEF vars, Serving
<1> QED
  BY <1>1, <1>2, <1>3, <1>4, <1>5, <1>6 DEF Next, Master, Reconfigure

LEMMA InitFiles == Init => FilesInv
BY ServerAssumption DEF Init, FilesInv, Serving

LEMMA FilesStep == MasterTypes /\ FilesInv /\ [Next]_vars => FilesInv'
<1> SUFFICES ASSUME MasterTypes, FilesInv, [Next]_vars PROVE FilesInv'
  OBVIOUS
<1> USE DEF FilesInv, Serving
<1>1. CASE OpenListeners
  BY <1>1, ServerAssumption DEF OpenListeners, Exit
<1>2. CASE CreateFiles
  <2>1. CASE pc' = "exited" /\ exitCode' = 1
    BY <2>1
  <2>2. CASE /\ pc' = "register" /\ UNCHANGED <<exitCode, config, gen>>
             /\ pidName' = config.pid
             /\ ctlSocket' = IF config.ctl = None THEN None ELSE <<config.ctl, gen>>
             /\ names' = names \cup ({config.pid, config.ctl} \ {None})
    <3>1. names' = {config.pid, config.ctl} \ {None} /\ exitCode' = None
      BY <1>2, <2>2 DEF CreateFiles
    <3>2. config.ctl # None => <<config.ctl, gen>> # None
      BY ServerAssumption DEF MasterTypes, Names
    <3>3. FilesInUse' \ {None} = {config.pid, config.ctl} \ {None}
      <4>1. CASE config.ctl = None
        BY <2>2, <4>1 DEF FilesInUse
      <4>2. CASE config.ctl # None
        <5>1. ctlSocket' # None /\ ctlSocket'[1] = config.ctl
          BY <2>2, <3>2, <4>2
        <5> QED
          BY <2>2, <5>1 DEF FilesInUse
      <4> QED
        BY <4>1, <4>2
    <3> QED
      BY <2>2, <3>1, <3>3, ServerAssumption
  <2> QED
    BY <1>2, <2>1, <2>2 DEF CreateFiles, Exit
<1>3. CASE RegisterListeners
  <2>1. FilesInUse' = FilesInUse
    BY <1>3 DEF RegisterListeners, mainVars, FilesInUse
  <2> QED
    BY <1>3, <2>1 DEF RegisterListeners, mainVars
<1>4. CASE StartPool
  <2>1. FilesInUse' = FilesInUse /\ UNCHANGED <<names, pidName, ctlSocket, config, gen>>
    BY <1>4 DEF StartPool, FilesInUse
  <2>2. \/ pc' = "exited" /\ exitCode' = 1
        \/ pc' = "select" /\ exitCode' = exitCode
    BY <1>4 DEF StartPool, Exit
  <2>3. pc = "start"
    BY <1>4 DEF StartPool
  <2> QED
    BY <2>1, <2>2, <2>3
<1>5. CASE CleanUp
  <2>1. names' = {}
    <3>1. pc = "cleanup" /\ names' = names \ FilesInUse
      BY <1>5 DEF CleanUp
    <3> QED
      BY <3>1
  <2>2. pc = "cleanup" /\ (pc' = "exited" \/ (pc' = "top" /\ exitCode' = exitCode))
    <3>1. CASE stopping = TRUE
      BY <1>5, <3>1 DEF CleanUp, Exit
    <3>2. CASE stopping = FALSE
      BY <1>5, <3>2 DEF CleanUp
    <3> QED
      BY <3>1, <3>2 DEF MasterTypes
  <2> QED
    BY <2>1, <2>2
<1>6. CASE /\ UNCHANGED <<names, pidName, ctlSocket, gen, exitCode>>
           /\ Serving' /\ running' => Serving /\ running /\ UNCHANGED config
           /\ pc' \notin Later => UNCHANGED config
           /\ pc' = pc \/ (pc \in Later /\ pc' \in Later)
  <2>1. FilesInUse' = FilesInUse
    BY <1>6 DEF FilesInUse
  <2>2. pc \in Later => names = FilesInUse \ {None} /\ exitCode = None
    BY DEF Later
  <2>3. /\ pc' \in {"top", "files"} => names' = {}
        /\ pc' \notin {"top", "files", "exited"} => names' = FilesInUse' \ {None}
        /\ pc' # "exited" => exitCode' = None
        /\ exitCode' = 0 => names' = {}
    BY <1>6, <2>1, <2>2 DEF Later
  <2>4. pc' \in {"register", "start"} \/ (Serving' /\ running') =>
          pc \in {"register", "start"} \/ (Serving /\ running)
    BY <1>6 DEF Later
  <2>5. pc' \in {"register", "start"} \/ (Serving' /\ running') =>
          /\ pidName' = config'.pid
          /\ ctlSocket' = IF config'.ctl = None THEN None ELSE <<config'.ctl, gen'>>
    BY <1>6, <2>4 DEF Later
  <2> QED
    BY <2>3, <2>5
<1> QED
  BY <1>1, <1>2, <1>3, <1>4, <1>5, <1>6, FilesChanges

(* The PID file and the control socket of the configuration that is served *)
(* exist and no others do; an orderly exit leaves neither behind.          *)
THEOREM FilesAreCorrect == Spec => []FilesFollowConfig
<1>1. MasterTypes /\ FilesInv => FilesFollowConfig
  <2> SUFFICES ASSUME MasterTypes, FilesInv PROVE FilesFollowConfig
    OBVIOUS
  <2>1. ASSUME Serving, running PROVE names = {config.pid, config.ctl} \ {None}
    <3>1. /\ names = FilesInUse \ {None} /\ pidName = config.pid
          /\ ctlSocket = IF config.ctl = None THEN None ELSE <<config.ctl, gen>>
      BY <2>1 DEF FilesInv, Serving
    <3>2. config.ctl # None => <<config.ctl, gen>> # None
      BY ServerAssumption DEF MasterTypes, Names
    <3>3. CASE config.ctl = None
      BY <3>1, <3>3 DEF FilesInUse
    <3>4. CASE config.ctl # None
      <4>1. ctlSocket # None /\ ctlSocket[1] = config.ctl
        BY <3>1, <3>2, <3>4
      <4> QED
        BY <3>1, <4>1 DEF FilesInUse
    <3> QED
      BY <3>3, <3>4
  <2> QED
    BY <2>1 DEF FilesFollowConfig, FilesInv
<1> QED
  BY <1>1, InitTypes, TypesStep, InitFiles, FilesStep, PTL DEF Spec, Types

-----------------------------------------------------------------------------
(* The decision to stop                                                    *)

(* Once the decision is made no event is left in the round, so no hang-up  *)
(* signal can be read after it, and both loops end.                        *)
DecidedInv ==
    decided =>
      /\ running = FALSE /\ stopping = TRUE
      /\ \/ pc \in {"closing", "joining", "cleanup", "exited"}
         \/ pc = "events" /\ todo = {}

LEMMA DecisionChanges ==
    ASSUME [Next]_vars
    PROVE  \/ HandleTerminate \/ CountException \/ RoundDone \/ ClosePool \/ JoinPool
           \/ CleanUp
           \/ /\ decided' = decided
              /\ UNCHANGED <<running, stopping, pc, todo>>
                   \/ pc \in {"top", "files", "register", "start", "select", "commands"}
                   \/ (pc = "events" /\ todo # {})
<1> DEFINE Same ==
             /\ decided' = decided
             /\ UNCHANGED <<running, stopping, pc, todo>>
                  \/ pc \in {"top", "files", "register", "start", "select", "commands"}
                  \/ (pc = "events" /\ todo # {})
<1> USE DEF mainVars, roundVars, logs
<1>1. Reconfigure => Same
  BY DEF Reconfigure, OpenListeners, CreateFiles, RegisterListeners, StartPool
<1>2. HandleEvent => HandleTerminate \/ Same
  BY DEF HandleEvent, HandleUdp, HandleConn, DispatchRequest, IgnoreData, ForgetConn,
         AcceptConn, HandleHangup, HandleWorkerFailure, AcceptCtlConn, GetCommands, Take
<1>3. HandleCommand => Same
  BY DEF HandleCommand, OtherCommand, ReloadCommand, ShutdownCommand, QuitCommand,
         CommandsDone, Command
<1>4. Select \/ HandlerRaises => Same
  BY DEF Select, HandlerRaises
<1>5. ASSUME NEW w \in Workers PROVE Worker(w) => Same
  BY DEF Worker, WorkerReady, WorkerFails, ReplaceWorker, TakeRequest, FinishRequest,
         workerUnchanged
<1>6. World => Same
  BY DEF World, DataArrives, ClientConnects, ClientCloses, OperatorConnects,
         OperatorSends, OperatorCloses, SignalArrives, EditConfig, Tick, worldUnchanged
<1>7. UNCHANGED vars => Same
  BY DEF vars
<1> QED
  BY <1>1, <1>2, <1>3, <1>4, <1>5, <1>6, <1>7 DEF Next, Master

LEMMA InitDecided == Init => DecidedInv
BY DEF Init, DecidedInv

LEMMA DecidedStep == MasterTypes /\ DecidedInv /\ [Next]_vars => DecidedInv'
<1> SUFFICES ASSUME MasterTypes, DecidedInv, [Next]_vars PROVE DecidedInv'
  OBVIOUS
<1> USE DEF DecidedInv
<1>1. CASE HandleTerminate
  BY <1>1 DEF HandleTerminate, Stop
<1>2. CASE CountException
  <2>1. pc = "events" /\ todo = {} /\ todo' = {}
    BY <1>2 DEF CountException
  <2>2. CASE Stop /\ decided' = TRUE
    BY <1>2, <2>1, <2>2 DEF CountException, Stop
  <2>3. CASE UNCHANGED <<running, stopping, decided>>
    BY <1>2, <2>1, <2>3 DEF CountException
  <2> QED
    BY <1>2, <2>2, <2>3 DEF CountException
<1>3. CASE RoundDone
  BY <1>3 DEF RoundDone, mainVars, logs
<1>4. CASE ClosePool \/ JoinPool
  BY <1>4 DEF ClosePool, JoinPool, mainVars, logs
<1>5. CASE CleanUp
  BY <1>5 DEF CleanUp, Exit, logs
<1>6. CASE /\ decided' = decided
           /\ UNCHANGED <<running, stopping, pc, todo>>
                \/ pc \in {"top", "files", "register", "start", "select", "commands"}
                \/ (pc = "events" /\ todo # {})
  BY <1>6
<1> QED
  BY <1>1, <1>2, <1>3, <1>4, <1>5, <1>6, DecisionChanges

(* No reload can revive a server that has decided to stop.                 *)
THEOREM NothingIsRevived == Spec => NoRevival
<1>1. DecidedInv /\ [Next]_vars => [decided => gen' = gen]_vars
  <2> SUFFICES ASSUME DecidedInv, [Next]_vars, decided PROVE gen' = gen
    OBVIOUS
  <2>1. pc # "top"
    BY DEF DecidedInv
  <2>2. OpenListeners \/ gen' = gen
    <3> USE DEF mainVars
    <3>1. Reconfigure => OpenListeners \/ gen' = gen
      BY DEF Reconfigure, CreateFiles, RegisterListeners, StartPool
    <3>2. HandleEvent => gen' = gen
      BY DEF HandleEvent, HandleUdp, HandleConn, DispatchRequest, IgnoreData, ForgetConn,
             AcceptConn, HandleHangup, HandleTerminate, HandleWorkerFailure, AcceptCtlConn,
             GetCommands
    <3>3. HandleCommand => gen' = gen
      BY DEF HandleCommand, OtherCommand, ReloadCommand, ShutdownCommand, QuitCommand,
             CommandsDone
    <3>4. Select \/ HandlerRaises \/ CountException \/ RoundDone \/ ClosePool \/ JoinPool
            \/ CleanUp => gen' = gen
      BY DEF Select, HandlerRaises, CountException, RoundDone, ClosePool, JoinPool, CleanUp
    <3>5. ASSUME NEW w \in Workers PROVE Worker(w) => gen' = gen
      BY DEF Worker, WorkerReady, WorkerFails, ReplaceWorker, TakeRequest, FinishRequest,
             workerUnchanged
    <3>6. World => gen' = gen
      BY DEF World, DataArrives, ClientConnects, ClientCloses, OperatorConnects,
             OperatorSends, OperatorCloses, SignalArrives, EditConfig, Tick, worldUnchanged
    <3>7. UNCHANGED vars => gen' = gen
      BY DEF vars
    <3> QED
      BY <3>1, <3>2, <3>3, <3>4, <3>5, <3>6, <3>7 DEF Next, Master
  <2> QED
    BY <2>1, <2>2 DEF OpenListeners
<1> QED
  BY <1>1, InitTypes, TypesStep, InitDecided, DecidedStep, PTL DEF Spec, Types, NoRevival

-----------------------------------------------------------------------------
(* The exceptions that are counted                                         *)

Shortest(c) == \A d \in Configs : c.window <= d.window

(* The history is what is left of all counted exceptions after some have   *)
(* been popped from the front, each outside every window by then.          *)
HistoryInv ==
    \E k \in 0..Len(raised) :
      /\ history = SubSeq(raised, k + 1, Len(raised))
      /\ \A i \in 1..k : \A c \in Configs : Shortest(c) => raised[i] < now - c.window

LEMMA InitHistory == Init => HistoryInv
<1> SUFFICES ASSUME Init PROVE HistoryInv
  OBVIOUS
<1>1. raised = <<>> /\ history = <<>> /\ Len(raised) = 0
  BY DEF Init
<1>2. SubSeq(raised, 0 + 1, Len(raised)) = <<>>
  BY <1>1
<1> QED
  BY <1>1, <1>2 DEF HistoryInv

LEMMA Suffix ==
    ASSUME NEW s \in Seq(Nat), NEW k \in 0..Len(s)
    PROVE  /\ SubSeq(s, k + 1, Len(s)) \in Seq(Nat)
           /\ Len(SubSeq(s, k + 1, Len(s))) = Len(s) - k
           /\ \A i \in 1..Len(s) - k : SubSeq(s, k + 1, Len(s))[i] = s[k + i]
<1>1. \A i \in k + 1..Len(s) : s[i] \in Nat
  OBVIOUS
<1>2. k + 1 \in Int /\ Len(s) \in Int
  OBVIOUS
<1>3. /\ SubSeq(s, k + 1, Len(s)) \in Seq(Nat)
      /\ Len(SubSeq(s, k + 1, Len(s))) = IF k + 1 <= Len(s) THEN Len(s) - (k + 1) + 1 ELSE 0
      /\ \A i \in 1..Len(s) - (k + 1) + 1 : SubSeq(s, k + 1, Len(s))[i] = s[k + 1 + i - 1]
  BY <1>1, <1>2, SubSeqProperties
<1> DEFINE u == SubSeq(s, k + 1, Len(s))
<1> HIDE DEF u
<1>4. Len(u) = Len(s) - k
  BY <1>3 DEF u
<1>5. \A i \in 1..Len(s) - k : u[i] = s[k + i]
  <2> SUFFICES ASSUME NEW i \in 1..Len(s) - k PROVE u[i] = s[k + i]
    OBVIOUS
  <2>1. i \in 1..Len(s) - (k + 1) + 1 /\ k + 1 + i - 1 = k + i
    OBVIOUS
  <2> QED
    BY <1>3, <2>1 DEF u
<1> QED
  BY <1>3, <1>4, <1>5 DEF u

(* A suffix that gets one more element and loses some at the front.        *)
LEMMA SuffixOfSuffix ==
    ASSUME NEW s \in Seq(Nat), NEW t \in Nat, NEW k \in 0..Len(s), NEW h \in Seq(Nat),
           h = Append(SubSeq(s, k + 1, Len(s)), t), NEW j \in 0..Len(h)
    PROVE  /\ k + j \in 0..Len(Append(s, t))
           /\ SubSeq(h, j + 1, Len(h)) = SubSeq(Append(s, t), k + j + 1, Len(Append(s, t)))
           /\ \A i \in 1..Len(h) : h[i] = Append(s, t)[k + i]
<1> DEFINE r == Append(s, t)
           u == SubSeq(s, k + 1, Len(s))
<1>1. u \in Seq(Nat) /\ Len(u) = Len(s) - k /\ \A i \in 1..Len(s) - k : u[i] = s[k + i]
  BY Suffix
<1> HIDE DEF u
<1>2. /\ r \in Seq(Nat) /\ Len(r) = Len(s) + 1
      /\ \A i \in 1..Len(s) : r[i] = s[i]
      /\ r[Len(s) + 1] = t
  BY AppendProperties
<1>3. /\ h \in Seq(Nat) /\ Len(h) = Len(s) - k + 1
      /\ \A i \in 1..Len(s) - k : h[i] = u[i]
      /\ h[Len(s) - k + 1] = t
  BY <1>1, AppendProperties DEF u
<1> HIDE DEF r
<1>4. ASSUME NEW i \in 1..Len(h) PROVE h[i] = r[k + i]
  <2>1. CASE i \in 1..Len(s) - k
    <3>1. h[i] = s[k + i] /\ k + i \in 1..Len(s)
      BY <1>1, <1>3, <2>1
    <3> QED
      BY <1>2, <3>1
  <2>2. CASE i = Len(s) - k + 1
    <3>1. k + i = Len(s) + 1
      BY <2>2
    <3> QED
      BY <1>2, <1>3, <2>2, <3>1
  <2>3. k \in Int /\ Len(s) \in Int /\ i \in 1..Len(s) - k + 1
    BY <1>3
  <2>4. i \in 1..Len(s) - k \/ i = Len(s) - k + 1
    BY <2>3
  <2> QED
    BY <2>1, <2>2, <2>4
<1>5. k + j \in 0..Len(r)
  BY <1>2, <1>3
<1>6. SubSeq(h, j + 1, Len(h)) = SubSeq(r, k + j + 1, Len(r))
  <2> DEFINE a == SubSeq(h, j + 1, Len(h))
             b == SubSeq(r, k + j + 1, Len(r))
  <2>1. a \in Seq(Nat) /\ Len(a) = Len(h) - j /\ \A i \in 1..Len(h) - j : a[i] = h[j + i]
    BY <1>3, Suffix
  <2>2. /\ b \in Seq(Nat) /\ Len(b) = Len(r) - (k + j)
        /\ \A i \in 1..Len(r) - (k + j) : b[i] = r[k + j + i]
    BY <1>2, <1>5, Suffix
  <2> HIDE DEF a, b
  <2>3. Len(a) = Len(b) /\ Len(h) - j = Len(r) - (k + j)
    BY <1>2, <1>3, <2>1, <2>2
  <2>4. ASSUME NEW i \in 1..Len(a) PROVE a[i] = b[i]
    <3>1. j + i \in 1..Len(h) /\ k + (j + i) = k + j + i
      BY <1>3, <2>1
    <3>2. a[i] = r[k + (j + i)]
      BY <1>4, <2>1, <3>1
    <3> QED
      BY <2>1, <2>2, <2>3, <3>1, <3>2
  <2>5. a = b
    BY <2>1, <2>2, <2>3, <2>4, SeqEqual
  <2> QED
    BY <2>5 DEF a, b
<1> QED
  BY <1>4, <1>5, <1>6 DEF r

LEMMA HistoryStep == HistoryTypes /\ MasterTypes /\ HistoryInv /\ [Next]_vars => HistoryInv'
<1> SUFFICES ASSUME HistoryTypes, MasterTypes, HistoryInv, [Next]_vars PROVE HistoryInv'
  OBVIOUS
<1>1. PICK k \in 0..Len(raised) :
        /\ history = SubSeq(raised, k + 1, Len(raised))
        /\ \A i \in 1..k : \A c \in Configs : Shortest(c) => raised[i] < now - c.window
  BY DEF HistoryInv
<1>2. raised \in Seq(Nat) /\ now \in Nat /\ history \in Seq(Nat) /\ config \in Configs
  BY DEF HistoryTypes, MasterTypes
<1>3. \A c \in Configs : c.window \in Nat
  BY ServerAssumption
<1>4. CASE CountException
  <2> DEFINE r == Append(raised, now)
             h == Append(history, now)
  <2>1. /\ history' = InWindow(h, now) /\ raised' = r /\ now' = now
    BY <1>4 DEF CountException, envVars
  <2>2. h \in Seq(Nat) /\ config.window \in Nat
    BY <1>2, <1>3
  <2>3. PICK j \in 0..Len(h) :
          /\ InWindow(h, now) = SubSeq(h, j + 1, Len(h))
          /\ \A i \in 1..j : h[i] < now - config.window
    BY <1>2, <2>2, InWindowIsSuffix
  <2>4. /\ k + j \in 0..Len(r)
        /\ SubSeq(h, j + 1, Len(h)) = SubSeq(r, k + j + 1, Len(r))
        /\ \A i \in 1..Len(h) : h[i] = r[k + i]
    <3>1. h = Append(SubSeq(raised, k + 1, Len(raised)), now)
      BY <1>1
    <3> HIDE DEF h, r
    <3>2. /\ k + j \in 0..Len(Append(raised, now))
          /\ SubSeq(h, j + 1, Len(h))
               = SubSeq(Append(raised, now), k + j + 1, Len(Append(raised, now)))
          /\ \A i \in 1..Len(h) : h[i] = Append(raised, now)[k + i]
      BY <1>2, <2>2, <2>3, <3>1, SuffixOfSuffix, Zenon
    <3> QED
      BY <3>2 DEF r
  <2>5. \A i \in 1..Len(raised) : r[i] = raised[i] /\ r[i] \in Nat
    BY <1>2, AppendProperties
  <2> HIDE DEF h
  <2>6. ASSUME NEW i \in 1..k + j, NEW c \in Configs, Shortest(c)
        PROVE  r[i] < now - c.window
    <3> HIDE DEF r
    <3>1. CASE i \in 1..k
      BY <1>1, <2>5, <2>6, <3>1
    <3>2. CASE i \in k + 1..k + j
      <4>1. i - k \in 1..j /\ i - k \in 1..Len(h) /\ k + (i - k) = i
        BY <1>1, <2>2, <2>3, <3>2
      <4>2. r[i] < now - config.window
        BY <2>3, <2>4, <4>1
      <4>3. c.window <= config.window
        BY <1>2, <2>6 DEF Shortest
      <4>4. r \in Seq(Nat) /\ i \in 1..Len(r)
        BY <1>2, <2>3, <2>4 DEF r
      <4>5. r[i] \in Nat
        BY <4>4
      <4> QED
        BY <1>2, <1>3, <4>2, <4>3, <4>5
    <3> QED
      BY <1>1, <2>3, <3>1, <3>2
  <2> HIDE DEF r
  <2>7. history' = SubSeq(raised', k + j + 1, Len(raised')) /\ k + j \in 0..Len(raised')
    BY <2>1, <2>3, <2>4
  <2> QED
    BY <2>1, <2>6, <2>7 DEF HistoryInv, Shortest
<1>5. CASE Tick
  <2>1. now' = now + 1 /\ raised' = raised /\ history' = history
    BY <1>5 DEF Tick, worldUnchanged, mainVars, logs
  <2>2. ASSUME NEW i \in 1..k, NEW c \in Configs, Shortest(c)
        PROVE  raised'[i] < now' - c.window
    <3>1. raised[i] < now - c.window /\ c.window \in Nat /\ raised[i] \in Nat
      BY <1>1, <1>2, <1>3, <2>2
    <3> QED
      BY <1>2, <2>1, <3>1
  <2>3. \A i \in 1..k : \A c \in Configs : Shortest(c) => raised'[i] < now' - c.window
    BY <2>2
  <2>4. history' = SubSeq(raised', k + 1, Len(raised')) /\ k \in 0..Len(raised')
    BY <1>1, <2>1
  <2> QED
    BY <2>3, <2>4 DEF HistoryInv, Shortest
<1>6. CASE UNCHANGED <<history, raised, now>>
  BY <1>6 DEF HistoryInv, Shortest
<1> QED
  BY <1>4, <1>5, <1>6, HistoryChanges

(* The server goes on only while the exceptions of the shortest window,    *)
(* counted over all that ever happened, are within the limit.              *)
THEOREM BudgetIsKept == Spec => ExceptionBudget
<1> DEFINE Budget == raised' # raised /\ running' =>
                       \A c \in Configs : Shortest(c) =>
                         Cardinality({i \in DOMAIN raised' : now - raised'[i] <= c.window})
                           <= config.max
<1>1. Types /\ HistoryInv' /\ Types' /\ [Next]_vars => [Budget]_vars
  <2> SUFFICES ASSUME Types, HistoryInv', Types', [Next]_vars, raised' # raised, running',
                      NEW c \in Configs, Shortest(c)
               PROVE  Cardinality({i \in DOMAIN raised' : now - raised'[i] <= c.window})
                        <= config.max
    OBVIOUS
  <2>1. CountException
    BY HistoryChanges DEF Tick, worldUnchanged, logs
  <2>2. Len(history') <= config.max /\ now' = now
    BY <2>1 DEF CountException, Stop, envVars
  <2>3. PICK k \in 0..Len(raised') :
          /\ history' = SubSeq(raised', k + 1, Len(raised'))
          /\ \A i \in 1..k : raised'[i] < now' - c.window
    BY DEF HistoryInv, Shortest
  <2>4. raised' \in Seq(Nat) /\ now \in Nat /\ c.window \in Nat /\ config.max \in Nat
    BY ServerAssumption DEF Types, HistoryTypes, MasterTypes
  <2>5. Len(history') = Len(raised') - k
    BY <2>3, <2>4, Suffix
  <2> DEFINE R == {i \in DOMAIN raised' : now - raised'[i] <= c.window}
  <2>6. R \subseteq k + 1..Len(raised')
    <3> SUFFICES ASSUME NEW i \in 1..Len(raised'), now - raised'[i] <= c.window
                 PROVE  i > k
      BY <2>4
    <3>1. raised'[i] \in Nat
      BY <2>4
    <3>2. i <= k => raised'[i] < now - c.window
      BY <2>2, <2>3
    <3> QED
      BY <2>3, <2>4, <3>1, <3>2
  <2>7. IsFiniteSet(k + 1..Len(raised')) /\ Cardinality(k + 1..Len(raised')) = Len(raised') - k
    <3>1. k \in Int /\ k + 1 \in Int /\ Len(raised') \in Int /\ k <= Len(raised')
      BY <2>3, <2>4
    <3>2. CASE k + 1 > Len(raised')
      <4>1. Len(raised') - k = 0
        BY <2>3, <2>4, <3>1, <3>2
      <4> QED
        BY <3>1, <3>2, <4>1, FS_Interval
    <3>3. CASE ~(k + 1 > Len(raised'))
      <4>1. Len(raised') - (k + 1) + 1 = Len(raised') - k
        BY <3>1
      <4> QED
        BY <3>1, <3>3, <4>1, FS_Interval
    <3> QED
      BY <3>2, <3>3
  <2>8. Cardinality(R) <= Cardinality(k + 1..Len(raised'))
    BY <2>6, <2>7, FS_Subset
  <2>9. Cardinality(R) \in Nat
    BY <2>6, <2>7, FS_Subset, FS_CardinalityType
  <2> HIDE DEF R
  <2>10. Cardinality(R) <= config.max
    BY <2>2, <2>3, <2>4, <2>5, <2>7, <2>8, <2>9
  <2> QED
    BY <2>10 DEF R
<1>2. [Budget]_vars => [raised' # raised /\ running' =>
         \A c \in Configs : (\A d \in Configs : c.window <= d.window) =>
           Cardinality({i \in DOMAIN raised' : now - raised'[i] <= c.window})
             <= config.max]_vars
  BY DEF Shortest
<1> QED
  BY <1>1, <1>2, InitTypes, TypesStep, InitHistory, HistoryStep, PTL
  DEF Spec, Types, ExceptionBudget
=============================================================================
