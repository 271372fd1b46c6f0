---------------------------- MODULE GatewayProofs ---------------------------
(***************************************************************************)
(* Proofs about MCPGateway, for any number of calls, lists and pinned      *)
(* tools and pipes of any size.  A request is in one place at a time: in   *)
(* one of the pipes, or with the server.  From that follows who may still  *)
(* answer a call, and which pages of the catalog may still be believed.    *)
(***************************************************************************)
EXTENDS MCPGateway, FiniteSetTheorems, TLAPS

Requests == Calls \cup Lists

Handling == {"authorize", "register", "forward", "write", "failed"}

MainType ==
    /\ main \in [pc : {"ready", "closing", "leaving", "closed", "ended", "exited"} \cup Handling, req : Requests \cup {NoRequest}]
    /\ main.pc \in {"authorize", "register", "forward", "failed"} => main.req \in Calls
    /\ main.pc = "write" => main.req \in Requests

ReaderType ==
    /\ reader.pc \in {"read", "result", "check", "changed", "drain", "stopped", "done"}
    /\ reader.pc \in {"result", "stopped"} => "calls" \in DOMAIN reader /\ reader.calls \subseteq Calls
    /\ reader.pc = "check" => reader.msg \in Page /\ reader.gen \in Int

CatalogType ==
    /\ DOMAIN scans \subseteq Lists /\ \A l \in DOMAIN scans : scans[l] \in Int
    /\ generation \in Nat /\ trusted \subseteq Pinned /\ cursor \in Int

CallsType ==
    /\ pending \subseteq Calls /\ expired \subseteq Calls
    /\ answers \in [Calls -> SUBSET Outcomes]

ServerState ==
    [status : {"up", "stopping", "down"}, reads : BOOLEAN, writes : BOOLEAN,
     changed : SUBSET Pinned, work : SUBSET Work, changes : Nat]

PipesType ==
    /\ toServer \in Seq(Requests) /\ fromServer \in Seq(Message)
    /\ server \in ServerState

GatewayType == MainType /\ ReaderType /\ CatalogType /\ CallsType /\ PipesType

-----------------------------------------------------------------------------
\* The steps keep the types, component by component.

LEMMA MainTypeNext == GatewayType /\ [Next]_vars => MainType'
<1>. SUFFICES ASSUME GatewayType, [Next]_vars PROVE MainType'
  OBVIOUS
<1>. USE DEF GatewayType, MainType, Handling, Requests
<1>1. CASE UNCHANGED main
  BY <1>1
<1>2. CASE \E k \in Calls : ReceiveCall(k)
  BY <1>2 DEF ReceiveCall
<1>3. CASE Authorize
  BY <1>3 DEF Authorize, Ready, GoTo
<1>4. CASE Register
  BY <1>4 DEF Register, GoTo
<1>5. CASE Forward
  BY <1>5 DEF Forward, Ready, GoTo
<1>6. CASE WriteCall \/ ReportFailure
  BY <1>6 DEF WriteCall, ReportFailure, Ready
<1>7. CASE WriteFails
  BY <1>7 DEF WriteFails, GoTo
<1>8. CASE \E l \in Lists, continues \in BOOLEAN : ReceiveList(l, continues)
  BY <1>8 DEF ReceiveList
<1>9. CASE WriteList
  BY <1>9 DEF WriteList, Ready, GoTo
<1>10. CASE Close \/ StopServer \/ LeaveRun \/ Exit
  BY <1>10 DEF Close, StopServer, LeaveRun, Exit, GoTo, NoRequest
<1>. QED BY <1>1, <1>2, <1>3, <1>4, <1>5, <1>6, <1>7, <1>8, <1>9, <1>10
         DEF Next, Agent, Ending, MainStep, Reader, Server, vars, Expire, WatchStop, StopServer, LeaveRun, Exit, ReadResult, ReadPage,
             CheckPage, ReadListChanged, DropCatalog, ReadGarbage, ReadEnd, Drain, SendHeld, ServerRead,
             ServerAnswer, ServerChanges, ServerGarbage, ServerDies, ServerClosesInput,
             ServerClosesOutput

LEMMA ReaderTypeNext == GatewayType /\ [Next]_vars => ReaderType'
<1>. SUFFICES ASSUME GatewayType, [Next]_vars PROVE ReaderType'
  OBVIOUS
<1>. USE DEF GatewayType, ReaderType
<1>1. CASE UNCHANGED reader
  BY <1>1
<1>2. CASE ReadPage
  <2>1. /\ fromServer # <<>> /\ Head(fromServer).kind = "page" /\ Head(fromServer).id \in DOMAIN scans
        /\ reader' = [pc |-> "check", msg |-> Head(fromServer), gen |-> scans[Head(fromServer).id]]
    BY <1>2 DEF ReadPage
  <2>2. Head(fromServer) \in Message
    BY <2>1 DEF PipesType
  <2>3. Head(fromServer) \in Page
    BY <2>1, <2>2 DEF Message, Page
  <2>. QED BY <2>1, <2>3 DEF CatalogType
<1>3. CASE CheckPage \/ DropCatalog
  BY <1>3 DEF CheckPage, DropCatalog
<1>4. CASE ReadListChanged \/ ReadGarbage \/ ReadEnd
  BY <1>4 DEF ReadListChanged, ReadGarbage, ReadEnd
<1>5. CASE ReadResult
  <2>1. /\ fromServer # <<>> /\ Head(fromServer).kind = "result"
        /\ reader' = reader \/ reader' = [pc |-> "result", calls |-> {Head(fromServer).id}]
    BY <1>5 DEF ReadResult
  <2>2. Head(fromServer) \in Message
    BY <2>1 DEF PipesType
  <2>3. Head(fromServer).id \in Calls
    BY <2>1, <2>2 DEF Message, Page
  <2>. QED BY <2>1, <2>3
<1>6. CASE Drain
  BY <1>6 DEF Drain, CallsType
<1>7. CASE SendHeld
  <2>1. PICK k \in reader.calls :
          reader' = IF reader.calls # {k} THEN [reader EXCEPT !.calls = @ \ {k}]
                    ELSE [pc |-> IF reader.pc = "result" THEN "read" ELSE "done"]
    BY <1>7 DEF SendHeld
  <2>2. reader.pc \in {"result", "stopped"} /\ reader.calls \subseteq Calls
    BY <1>7 DEF SendHeld
  <2>. DEFINE rest == [reader EXCEPT !.calls = @ \ {k}]
  <2>3. rest.pc = reader.pc /\ (rest.calls = reader.calls \ {k} \/ rest.calls = reader.calls)
    OBVIOUS
  <2>. HIDE DEF rest
  <2>. QED BY <2>1, <2>2, <2>3 DEF rest
<1>. QED BY <1>1, <1>2, <1>3, <1>4, <1>5, <1>6, <1>7
         DEF Next, Agent, Ending, MainStep, Reader, Server, vars, Expire, WatchStop, StopServer, LeaveRun, Exit, ReadResult, Authorize,
             Register, Forward, WriteCall, WriteFails, ReportFailure, WriteList, Close, ReceiveCall,
             ReceiveList, ServerRead, ServerAnswer, ServerChanges, ServerGarbage, ServerDies, ServerClosesInput,
             ServerClosesOutput

\* Where the reader is before and after it sends an answer.
LEMMA SendsOnly ==
    ASSUME SendHeld
    PROVE  reader.pc \in {"result", "stopped"} /\ reader'.pc \in {"result", "stopped", "read", "done"}
<1>1. PICK k \in reader.calls :
        reader' = IF reader.calls # {k} THEN [reader EXCEPT !.calls = @ \ {k}]
                  ELSE [pc |-> IF reader.pc = "result" THEN "read" ELSE "done"]
  BY DEF SendHeld
<1>2. reader.pc \in {"result", "stopped"}
  BY DEF SendHeld
<1>. DEFINE rest == [reader EXCEPT !.calls = @ \ {k}]
<1>3. rest.pc = reader.pc
  OBVIOUS
<1>. HIDE DEF rest
<1>. QED BY <1>1, <1>2, <1>3 DEF rest

LEMMA CatalogTypeNext == GatewayType /\ [Next]_vars => CatalogType'
<1>. SUFFICES ASSUME GatewayType, [Next]_vars PROVE CatalogType'
  OBVIOUS
<1>. USE DEF GatewayType, CatalogType
<1>1. CASE UNCHANGED <<scans, catalog>>
  BY <1>1 DEF catalog
<1>2. ASSUME NEW l \in Lists, NEW continues \in BOOLEAN, ReceiveList(l, continues)
      PROVE  CatalogType'
  <2>1. CASE continues
    BY <1>2, <2>1 DEF ReceiveList, catalog
  <2>2. CASE ~continues
    BY <1>2, <2>2 DEF ReceiveList, Invalidate, NoGen
  <2>. QED BY <2>1, <2>2
<1>3. CASE ReadPage
  BY <1>3 DEF ReadPage, Without, catalog
<1>4. CASE CheckPage
  <2>1. CASE UNCHANGED catalog
    BY <1>4, <2>1 DEF CheckPage, catalog
  <2>2. CASE Invalidate
    BY <1>4, <2>2 DEF CheckPage, Invalidate, NoGen
  <2>3. CASE /\ trusted' = trusted \cup reader.msg.shown
             /\ cursor' = IF reader.msg.more THEN reader.gen ELSE cursor
             /\ UNCHANGED generation
    <3>1. reader.msg \in Page /\ reader.gen \in Int /\ UNCHANGED scans
      BY <1>4 DEF CheckPage, ReaderType
    <3>. QED BY <2>3, <3>1 DEF Page
  <2>. QED BY <1>4, <2>1, <2>2, <2>3 DEF CheckPage
<1>5. CASE DropCatalog
  BY <1>5 DEF DropCatalog, Invalidate, NoGen
<1>. QED BY <1>1, <1>2, <1>3, <1>4, <1>5
         DEF Next, Agent, Ending, MainStep, Reader, Server, vars, Expire, WatchStop, StopServer, LeaveRun, Exit, ReadResult, Authorize,
             Register, Forward, WriteCall, WriteFails, ReportFailure, WriteList, Close, ReceiveCall,
             ReadListChanged, ReadGarbage, ReadEnd, Drain, SendHeld,
             ServerRead, ServerAnswer, ServerChanges, ServerGarbage, ServerDies, ServerClosesInput,
             ServerClosesOutput, catalog

LEMMA CallsTypeNext == GatewayType /\ [Next]_vars => CallsType'
<1>. SUFFICES ASSUME GatewayType, [Next]_vars PROVE CallsType'
  OBVIOUS
<1>. USE DEF GatewayType, CallsType, Outcomes, Answer
<1>1. CASE UNCHANGED <<pending, expired, answers>>
  BY <1>1
<1>2. CASE Authorize \/ Register \/ Forward \/ ReportFailure
  BY <1>2 DEF Authorize, Register, Forward, ReportFailure, MainType
<1>3. ASSUME NEW k \in Calls, Expire(k) PROVE CallsType'
  BY <1>3 DEF Expire
<1>4. CASE ReadResult
  <2>1. fromServer # <<>> /\ Head(fromServer).kind = "result"
    BY <1>4 DEF ReadResult
  <2>2. Head(fromServer) \in Message
    BY <2>1 DEF PipesType
  <2>3. Head(fromServer).id \in Calls
    BY <2>1, <2>2 DEF Message, Page
  <2>. QED BY <1>4, <2>3 DEF ReadResult
<1>5. CASE Drain
  BY <1>5 DEF Drain
<1>6. CASE SendHeld
  <2>1. PICK k \in reader.calls : Answer(k, reader.pc)
    BY <1>6 DEF SendHeld
  <2>2. reader.pc \in {"result", "stopped"} /\ UNCHANGED <<pending, expired>>
    BY <1>6 DEF SendHeld
  <2>3. k \in Calls
    BY <2>2 DEF ReaderType
  <2>4. answers' \in [Calls -> SUBSET Outcomes]
    BY <2>1, <2>2, <2>3
  <2>. QED BY <2>2, <2>4
<1>. QED BY <1>1, <1>2, <1>3, <1>4, <1>5, <1>6
         DEF Next, Agent, Ending, MainStep, Reader, Server, vars, WatchStop, StopServer, LeaveRun, Exit, WriteCall, WriteFails,
             WriteList, Close, ReceiveCall, ReceiveList, ReadPage, CheckPage, ReadListChanged,
             DropCatalog, ReadGarbage, ReadEnd,
             ServerRead, ServerAnswer, ServerChanges, ServerGarbage, ServerDies, ServerClosesInput,
             ServerClosesOutput, catalog

\* What a step of the server may do to its record.
LEMMA ServerUpdates ==
    ASSUME server \in ServerState
    PROVE  /\ Terminated \in ServerState
           /\ \A works \in SUBSET Work : [server EXCEPT !.work = works] \in ServerState
           /\ \A c \in SUBSET Pinned :
                [server EXCEPT !.changes = @ + 1, !.changed = c] \in ServerState
           /\ Dead \in ServerState
           /\ [server EXCEPT !.reads = FALSE] \in ServerState
           /\ [server EXCEPT !.writes = FALSE] \in ServerState
<1>1. Terminated \in ServerState
  BY DEF ServerState, Terminated
<1>2. ASSUME NEW works \in SUBSET Work PROVE [server EXCEPT !.work = works] \in ServerState
  BY DEF ServerState
<1>3. ASSUME NEW c \in SUBSET Pinned
      PROVE  [server EXCEPT !.changes = @ + 1, !.changed = c] \in ServerState
  <2>1. server.changes + 1 \in Nat
    BY DEF ServerState
  <2>. QED BY <2>1 DEF ServerState
<1>4. Dead \in ServerState
  BY DEF ServerState, Dead
<1>5. [server EXCEPT !.reads = FALSE] \in ServerState /\ [server EXCEPT !.writes = FALSE] \in ServerState
  BY DEF ServerState
<1>. QED BY <1>1, <1>2, <1>3, <1>4, <1>5

LEMMA PipesTypeNext == GatewayType /\ [Next]_vars => PipesType'
<1>. SUFFICES ASSUME GatewayType, [Next]_vars PROVE PipesType'
  OBVIOUS
<1>. USE DEF PipesType
<1>0. toServer \in Seq(Requests) /\ fromServer \in Seq(Message) /\ server \in ServerState
      /\ server.work \subseteq Work /\ server.changed \subseteq Pinned
  BY DEF GatewayType, ServerState
<1>1. CASE UNCHANGED <<toServer, fromServer>> /\ UNCHANGED server
  BY <1>0, <1>1
<1>2. CASE UNCHANGED <<toServer, fromServer>> /\ server' = Terminated
  BY <1>0, <1>2, ServerUpdates
<1>3. CASE WriteCall \/ WriteList
  <2>1. UNCHANGED <<fromServer, server>>
    BY <1>3 DEF WriteCall, WriteList
  <2>2. main.req \in Requests
    BY <1>3 DEF WriteCall, WriteList, GatewayType, MainType
  <2>3. toServer' = toServer \/ toServer' = Append(toServer, main.req)
    BY <1>3 DEF WriteCall, WriteList
  <2>4. toServer' \in Seq(Requests)
    BY <1>0, <2>2, <2>3
  <2>. QED BY <1>0, <2>1, <2>4
<1>4. CASE ReadResult \/ ReadPage \/ ReadListChanged \/ ReadGarbage
  <2>1. fromServer # <<>> /\ fromServer' = Tail(fromServer) /\ toServer' = toServer
        /\ (server' = server \/ server' = Terminated)
    BY <1>4 DEF ReadResult, ReadPage, ReadListChanged, ReadGarbage
  <2>2. Tail(fromServer) \in Seq(Message)
    BY <1>0, <2>1
  <2>. QED BY <1>0, <2>1, <2>2, ServerUpdates
<1>6. CASE ServerRead
  <2>. DEFINE w == [id |-> Head(toServer),
                    good |-> IF Head(toServer) \in Lists THEN Pinned \ server.changed ELSE {}]
  <2>1. /\ toServer # <<>> /\ toServer' = Tail(toServer) /\ fromServer' = fromServer
        /\ server' = [server EXCEPT !.work = @ \cup {w}]
    BY <1>6 DEF ServerRead
  <2>2. Head(toServer) \in Requests /\ Tail(toServer) \in Seq(Requests)
    BY <1>0, <2>1
  <2>3. w \in Work
    BY <2>2 DEF Work, Requests
  <2>. HIDE DEF w
  <2>4. server.work \cup {w} \in SUBSET Work
    BY <1>0, <2>3
  <2>. QED BY <1>0, <2>1, <2>2, <2>4, ServerUpdates
<1>7. CASE ServerAnswer
  <2>1. PICK w \in server.work :
          /\ IF w.id \in Calls
              THEN ServerSends([kind |-> "result", id |-> w.id])
              ELSE \E shown \in SUBSET Pinned, more \in BOOLEAN :
                     ServerSends([kind |-> "page", id |-> w.id, shown |-> shown,
                                  good |-> w.good, more |-> more])
          /\ server' = [server EXCEPT !.work = @ \ {w}]
          /\ UNCHANGED toServer
    BY <1>7 DEF ServerAnswer
  <2>2. w.id \in Requests /\ w.good \subseteq Pinned
    BY <1>0 DEF Work, Requests
  <2>3. \E m \in Message : ServerSends(m)
    BY <2>1, <2>2 DEF Message, Page, Requests
  <2>4. fromServer' \in Seq(Message)
    BY <1>0, <2>3 DEF ServerSends
  <2>5. server.work \ {w} \in SUBSET Work
    BY <1>0
  <2>. QED BY <1>0, <2>1, <2>4, <2>5, ServerUpdates
<1>8. ASSUME NEW t \in Pinned, ServerChanges(t) PROVE PipesType'
  <2>1. [kind |-> "list_changed"] \in Message
    BY DEF Message
  <2>2. fromServer' = Append(fromServer, [kind |-> "list_changed"]) /\ toServer' = toServer
    BY <1>8 DEF ServerChanges, ServerSends
  <2>3. fromServer' \in Seq(Message)
    BY <1>0, <2>1, <2>2
  <2>4. \E c \in SUBSET Pinned : server' = [server EXCEPT !.changes = @ + 1, !.changed = c]
    <3>. DEFINE c == IF t \in server.changed THEN server.changed \ {t} ELSE server.changed \cup {t}
    <3>1. c \in SUBSET Pinned
      BY <1>0
    <3>2. server' = [server EXCEPT !.changes = @ + 1, !.changed = c]
      BY <1>8 DEF ServerChanges
    <3>. QED BY <3>1, <3>2
  <2>. QED BY <1>0, <2>2, <2>3, <2>4, ServerUpdates
<1>9. CASE ServerGarbage
  <2>1. [kind |-> "garbage"] \in Message
    BY DEF Message
  <2>2. fromServer' = Append(fromServer, [kind |-> "garbage"]) /\ UNCHANGED <<toServer, server>>
    BY <1>9 DEF ServerGarbage, ServerSends
  <2>3. fromServer' \in Seq(Message)
    BY <1>0, <2>1, <2>2
  <2>. QED BY <1>0, <2>2, <2>3
<1>10. CASE ServerDies \/ ServerClosesInput \/ ServerClosesOutput \/ StopServer
  <2>1. (toServer' = <<>> \/ toServer' = toServer) /\ fromServer' = fromServer
        /\ \/ server' = Dead
           \/ server' = [server EXCEPT !.reads = FALSE]
           \/ server' = [server EXCEPT !.writes = FALSE]
           \/ server' = Terminated
           \/ server' = server
    BY <1>10 DEF ServerDies, ServerClosesInput, ServerClosesOutput, StopServer
  <2>0. <<>> \in Seq(Requests)
    OBVIOUS
  <2>2. toServer' \in Seq(Requests)
    BY <1>0, <2>0, <2>1
  <2>3. server' \in ServerState
    BY <1>0, <2>1, ServerUpdates
  <2>. QED BY <1>0, <2>1, <2>2, <2>3
<1>. QED BY <1>1, <1>2, <1>3, <1>4, <1>6, <1>7, <1>8, <1>9, <1>10
         DEF Next, Agent, Ending, MainStep, Reader, Server, vars, Expire, WatchStop, StopServer, LeaveRun, Exit, Authorize,
             Register, Forward, WriteFails, ReportFailure, Close, ReceiveCall, ReceiveList,
             CheckPage, DropCatalog, ReadEnd, Drain, SendHeld

LEMMA GatewayTypeInit == Init => GatewayType
BY DEF Init, GatewayType, MainType, ReaderType, CatalogType, CallsType, PipesType, ServerState,
       Handling, Requests, NoGen, Outcomes

-----------------------------------------------------------------------------
\* Where a request is.

Carries(m, id) == m.kind \in {"page", "result"} /\ m.id = id

InPipe(id) == \E i \in 1 .. Len(toServer) : toServer[i] = id
InWork(id) == \E w \in server.work : w.id = id
InAnswer(id) == \E i \in 1 .. Len(fromServer) : Carries(fromServer[i], id)

Flying(id) == InPipe(id) \/ InWork(id) \/ InAnswer(id)

PipeOnce == \A i, j \in 1 .. Len(toServer) : toServer[i] = toServer[j] => i = j
WorkOnce == \A w, v \in server.work : w.id = v.id => w = v
AnswerOnce ==
    \A i, j \in 1 .. Len(fromServer) : \A id \in Requests :
        Carries(fromServer[i], id) /\ Carries(fromServer[j], id) => i = j
OnePlace ==
    \A id \in Requests :
        ~(InPipe(id) /\ InWork(id)) /\ ~(InPipe(id) /\ InAnswer(id)) /\ ~(InWork(id) /\ InAnswer(id))

OneCopy == PipeOnce /\ WorkOnce /\ AnswerOnce /\ OnePlace

\* Nothing is in flight that was not before, but those in new; those in gone have landed.
Flight(new, gone) ==
    /\ OneCopy'
    /\ \A id \in Requests : Flying(id)' => (Flying(id) \/ id \in new) /\ id \notin gone

\* Nothing moves, or a pipe or the work of the server is lost.
LEMMA FlightStays ==
    ASSUME OneCopy, toServer' = toServer \/ toServer' = <<>>, fromServer' = fromServer,
           server'.work \subseteq server.work
    PROVE  Flight({}, {})
<1>1. \A id : (InPipe(id)' => InPipe(id)) /\ (InWork(id)' => InWork(id)) /\ (InAnswer(id)' <=> InAnswer(id))
  BY DEF InPipe, InWork, InAnswer
<1>2. PipeOnce' /\ WorkOnce' /\ AnswerOnce'
  BY DEF OneCopy, PipeOnce, WorkOnce, AnswerOnce
<1>. QED BY <1>1, <1>2 DEF Flight, OneCopy, OnePlace, Flying

LEMMA FlightOf ==
    ASSUME NEW x \in Requests, GatewayType, OneCopy, ~Flying(x),
           toServer' = Append(toServer, x), UNCHANGED <<fromServer, server>>
    PROVE  Flight({x}, {})
<1>0. toServer \in Seq(Requests)
  BY DEF GatewayType, PipesType
<1>1. Len(toServer') = Len(toServer) + 1 /\ Len(toServer) \in Nat
      /\ \A i \in 1 .. Len(toServer') : toServer'[i] = IF i = Len(toServer) + 1 THEN x ELSE toServer[i]
  BY <1>0
<1>2. \A i \in 1 .. Len(toServer') : i \in 1 .. Len(toServer) \/ i = Len(toServer) + 1
  BY <1>1
<1>3. \A i \in 1 .. Len(toServer) : toServer[i] # x
  BY DEF Flying, InPipe
<1>4. PipeOnce'
  BY <1>1, <1>2, <1>3 DEF OneCopy, PipeOnce
<1>5. \A id : InPipe(id)' => InPipe(id) \/ id = x
  BY <1>1, <1>2 DEF InPipe
<1>6. \A id : (InWork(id)' <=> InWork(id)) /\ (InAnswer(id)' <=> InAnswer(id))
  BY DEF InWork, InAnswer
<1>7. WorkOnce' /\ AnswerOnce'
  BY DEF OneCopy, WorkOnce, AnswerOnce
<1>8. OnePlace'
  BY <1>5, <1>6 DEF OneCopy, OnePlace, Flying
<1>. QED BY <1>4, <1>5, <1>6, <1>7, <1>8 DEF Flight, OneCopy, Flying

LEMMA FlightRead ==
    ASSUME GatewayType, OneCopy, ServerRead
    PROVE  Flight({}, {})
<1>. DEFINE x == Head(toServer)
            w == [id |-> x, good |-> IF x \in Lists THEN Pinned \ server.changed ELSE {}]
<1>0. toServer \in Seq(Requests) /\ toServer # <<>> /\ toServer' = Tail(toServer)
      /\ fromServer' = fromServer
  BY DEF GatewayType, PipesType, ServerRead
<1>1. server'.work = server.work \cup {w}
  BY DEF GatewayType, PipesType, ServerState, ServerRead
<1>2. Len(toServer') = Len(toServer) - 1 /\ Len(toServer) \in Nat /\ Len(toServer) > 0
      /\ \A i \in 1 .. Len(toServer') : toServer'[i] = toServer[i + 1]
  BY <1>0
<1>3. toServer[1] = x /\ w.id = x
  BY <1>0
<1>4. \A i \in 1 .. Len(toServer') : i + 1 \in 1 .. Len(toServer) /\ i + 1 # 1 /\ 1 \in 1 .. Len(toServer)
  BY <1>2
<1>5. 1 \in 1 .. Len(toServer)
  BY <1>2
<1>. HIDE DEF w, x
<1>6. InPipe(x)
  BY <1>3, <1>5 DEF InPipe
<1>7. x \in Requests
  BY <1>0, <1>3, <1>5
<1>8. PipeOnce'
  <2>. SUFFICES ASSUME NEW i \in 1 .. Len(toServer'), NEW j \in 1 .. Len(toServer'),
                       toServer'[i] = toServer'[j]
                PROVE  i = j
    BY DEF PipeOnce
  <2>1. toServer[i + 1] = toServer[j + 1]
    BY <1>2
  <2>2. i + 1 = j + 1
    BY <1>4, <2>1 DEF OneCopy, PipeOnce
  <2>. QED BY <2>2
<1>9. \A id : InPipe(id)' => InPipe(id) /\ id # x
  BY <1>2, <1>3, <1>4 DEF InPipe, OneCopy, PipeOnce
<1>10. \A id : InWork(id)' => InWork(id) \/ id = x
  BY <1>1, <1>3 DEF InWork
<1>11. \A id : InAnswer(id)' <=> InAnswer(id)
  BY <1>0 DEF InAnswer
<1>12. ~InWork(x) /\ ~InAnswer(x)
  BY <1>6, <1>7 DEF OneCopy, OnePlace
<1>13. WorkOnce'
  BY <1>1, <1>3, <1>12 DEF OneCopy, WorkOnce, InWork
<1>14. AnswerOnce'
  BY <1>0 DEF OneCopy, AnswerOnce
<1>15. OnePlace'
  BY <1>9, <1>10, <1>11, <1>12 DEF OneCopy, OnePlace
<1>. QED BY <1>6, <1>8, <1>9, <1>10, <1>11, <1>13, <1>14, <1>15 DEF Flight, OneCopy, Flying

LEMMA FlightSend ==
    ASSUME NEW m \in Message, GatewayType, OneCopy,
           fromServer' = Append(fromServer, m), toServer' = toServer,
           NEW done \in SUBSET server.work, server'.work = server.work \ done,
           \A id \in Requests : Carries(m, id) => \E w \in done : w.id = id
    PROVE  Flight({}, {})
<1>0. fromServer \in Seq(Message)
  BY DEF GatewayType, PipesType
<1>1. Len(fromServer') = Len(fromServer) + 1 /\ Len(fromServer) \in Nat
      /\ \A i \in 1 .. Len(fromServer') :
            fromServer'[i] = IF i = Len(fromServer) + 1 THEN m ELSE fromServer[i]
  BY <1>0
<1>2. \A i \in 1 .. Len(fromServer') : i \in 1 .. Len(fromServer) \/ i = Len(fromServer) + 1
  BY <1>1
<1>3. \A id \in Requests : Carries(m, id) => InWork(id) /\ ~InAnswer(id) /\ ~InPipe(id)
  BY DEF InWork, OneCopy, OnePlace
<1>4. \A id \in Requests : Carries(m, id) => ~InWork(id)'
  BY DEF InWork, OneCopy, WorkOnce
<1>5. \A id : (InPipe(id)' <=> InPipe(id)) /\ (InWork(id)' => InWork(id))
  BY DEF InPipe, InWork
<1>6. \A id \in Requests : InAnswer(id)' => InAnswer(id) \/ Carries(m, id)
  BY <1>1, <1>2 DEF InAnswer
<1>7. AnswerOnce'
  BY <1>1, <1>2, <1>3 DEF OneCopy, AnswerOnce, InAnswer
<1>8. PipeOnce' /\ WorkOnce'
  BY DEF OneCopy, PipeOnce, WorkOnce
<1>9. OnePlace'
  BY <1>3, <1>4, <1>5, <1>6 DEF OneCopy, OnePlace
<1>. QED BY <1>3, <1>5, <1>6, <1>7, <1>8, <1>9 DEF Flight, OneCopy, Flying

\* The reader takes the first message: what it carries has landed.
LEMMA FlightLands ==
    ASSUME GatewayType, OneCopy, fromServer # <<>>, fromServer' = Tail(fromServer),
           toServer' = toServer, server'.work = server.work
    PROVE  Flight({}, {id \in Requests : Carries(Head(fromServer), id)})
<1>0. fromServer \in Seq(Message)
  BY DEF GatewayType, PipesType
<1>1. Len(fromServer') = Len(fromServer) - 1 /\ Len(fromServer) \in Nat /\ Len(fromServer) > 0
      /\ \A i \in 1 .. Len(fromServer') : fromServer'[i] = fromServer[i + 1]
  BY <1>0
<1>2. fromServer[1] = Head(fromServer)
  BY <1>0
<1>3. \A i \in 1 .. Len(fromServer') : i + 1 \in 1 .. Len(fromServer) /\ i + 1 # 1
  BY <1>1
<1>4. 1 \in 1 .. Len(fromServer)
  BY <1>1
<1>5. \A id \in Requests : InAnswer(id)' => InAnswer(id) /\ ~Carries(Head(fromServer), id)
  BY <1>1, <1>2, <1>3, <1>4 DEF InAnswer, OneCopy, AnswerOnce
<1>6. \A id \in Requests : Carries(Head(fromServer), id) => InAnswer(id)
  BY <1>2, <1>4 DEF InAnswer
<1>7. \A id : (InPipe(id)' <=> InPipe(id)) /\ (InWork(id)' <=> InWork(id))
  BY DEF InPipe, InWork
<1>8. AnswerOnce'
  <2>. SUFFICES ASSUME NEW i \in 1 .. Len(fromServer'), NEW j \in 1 .. Len(fromServer'),
                       NEW id \in Requests,
                       Carries(fromServer'[i], id), Carries(fromServer'[j], id)
                PROVE  i = j
    BY DEF AnswerOnce, Carries
  <2>1. Carries(fromServer[i + 1], id) /\ Carries(fromServer[j + 1], id)
    BY <1>1
  <2>2. i + 1 = j + 1
    BY <1>3, <2>1 DEF OneCopy, AnswerOnce
  <2>. QED BY <2>2
<1>9. PipeOnce' /\ WorkOnce'
  BY DEF OneCopy, PipeOnce, WorkOnce
<1>10. OnePlace'
  BY <1>5, <1>7 DEF OneCopy, OnePlace
<1>. QED BY <1>5, <1>6, <1>7, <1>8, <1>9, <1>10 DEF Flight, OneCopy, OnePlace, Flying

-----------------------------------------------------------------------------
\* What each step does to the requests in flight.

Handled(id) == main.req = id /\ main.pc \in Handling

Grounded == \A id \in Requests : Handled(id) => ~Flying(id)

Landing == {id \in Requests : Carries(Head(fromServer), id)}

LEMMA FlightWrite ==
    ASSUME GatewayType, OneCopy, Grounded, WriteCall \/ (WriteList /\ ~Broken)
    PROVE  Flight({main.req}, {})
<1>1. main.req \in Requests /\ Handled(main.req)
      /\ toServer' = Append(toServer, main.req) /\ UNCHANGED <<fromServer, server>>
  BY DEF WriteCall, WriteList, GatewayType, MainType, Handled, Handling, Requests
<1>2. ~Flying(main.req)
  BY <1>1 DEF Grounded
<1>. QED BY <1>1, <1>2, FlightOf

LEMMA FlightTake ==
    ASSUME GatewayType, OneCopy, ReadResult \/ ReadPage \/ ReadListChanged \/ ReadGarbage
    PROVE  Flight({}, Landing)
<1>1. fromServer # <<>> /\ fromServer' = Tail(fromServer) /\ toServer' = toServer
      /\ server'.work = server.work
  BY DEF ReadResult, ReadPage, ReadListChanged, ReadGarbage, Terminated, GatewayType,
         PipesType, ServerState
<1>. QED BY <1>1, FlightLands DEF Landing

\* What the server puts into its output, and what of its work that ends.
LEMMA Sends ==
    ASSUME GatewayType, ServerAnswer
    PROVE  \E w \in server.work, m \in Message :
              /\ fromServer' = Append(fromServer, m)
              /\ server' = [server EXCEPT !.work = @ \ {w}]
              /\ m.kind \in {"result", "page"} /\ m.id = w.id
              /\ m.kind = "page" => m.good = w.good
<1>1. PICK w \in server.work :
        /\ IF w.id \in Calls
            THEN ServerSends([kind |-> "result", id |-> w.id])
            ELSE \E shown \in SUBSET Pinned, more \in BOOLEAN :
                   ServerSends([kind |-> "page", id |-> w.id, shown |-> shown,
                                good |-> w.good, more |-> more])
        /\ server' = [server EXCEPT !.work = @ \ {w}]
  BY DEF ServerAnswer
<1>2. w.id \in Requests /\ w.good \subseteq Pinned
  BY DEF Work, Requests, GatewayType, PipesType, ServerState
<1>3. CASE w.id \in Calls
  <2>. DEFINE m == [kind |-> "result", id |-> w.id]
  <2>1. m \in Message /\ m.kind = "result" /\ m.id = w.id
    BY <1>3 DEF Message
  <2>2. fromServer' = Append(fromServer, m)
    BY <1>1, <1>3 DEF ServerSends
  <2>. HIDE DEF m
  <2>. QED BY <1>1, <2>1, <2>2
<1>4. CASE w.id \notin Calls
  <2>1. PICK shown \in SUBSET Pinned, more \in BOOLEAN :
          ServerSends([kind |-> "page", id |-> w.id, shown |-> shown, good |-> w.good, more |-> more])
    BY <1>1, <1>4
  <2>. DEFINE m == [kind |-> "page", id |-> w.id, shown |-> shown, good |-> w.good, more |-> more]
  <2>2. m \in Message /\ m.kind = "page" /\ m.id = w.id /\ m.good = w.good
    BY <1>2, <1>4 DEF Message, Page, Requests
  <2>3. fromServer' = Append(fromServer, m)
    BY <2>1 DEF ServerSends
  <2>. HIDE DEF m
  <2>. QED BY <1>1, <2>2, <2>3
<1>. QED BY <1>3, <1>4

LEMMA FlightServer ==
    ASSUME GatewayType, OneCopy, Server
    PROVE  Flight({}, {})
<1>1. CASE ServerRead
  BY <1>1, FlightRead
<1>5. CASE ServerDies \/ ServerClosesInput \/ ServerClosesOutput
  <2>1. (toServer' = toServer \/ toServer' = <<>>) /\ fromServer' = fromServer
        /\ server'.work \subseteq server.work
    BY <1>5 DEF ServerDies, ServerClosesInput, ServerClosesOutput, Dead, GatewayType, PipesType, ServerState
  <2>. QED BY <2>1, FlightStays
<1>2. CASE ServerAnswer
  <2>1. PICK w \in server.work, m \in Message :
              /\ fromServer' = Append(fromServer, m)
              /\ server' = [server EXCEPT !.work = @ \ {w}]
              /\ m.id = w.id
    BY <1>2, Sends
  <2>2. server'.work = server.work \ {w} /\ toServer' = toServer
    BY <1>2, <2>1 DEF ServerAnswer, GatewayType, PipesType, ServerState
  <2>3. {w} \in SUBSET server.work /\ \A id \in Requests : Carries(m, id) => \E v \in {w} : v.id = id
    BY <2>1 DEF Carries
  <2>. QED BY <2>1, <2>2, <2>3, FlightSend
<1>3. ASSUME NEW m \in {[kind |-> "list_changed"], [kind |-> "garbage"]},
             fromServer' = Append(fromServer, m), toServer' = toServer,
             server'.work = server.work
      PROVE  Flight({}, {})
  <2>1. m \in Message /\ \A id : ~Carries(m, id)
    BY DEF Message, Carries
  <2>2. server'.work = server.work \ {}
    BY <1>3
  <2>. QED BY <1>3, <2>1, <2>2, FlightSend
<1>4. CASE (\E t \in Pinned : ServerChanges(t)) \/ ServerGarbage
  <2>1. server'.work = server.work /\ toServer' = toServer
    BY <1>4 DEF ServerChanges, ServerGarbage, GatewayType, PipesType, ServerState
  <2>2. \/ fromServer' = Append(fromServer, [kind |-> "list_changed"])
        \/ fromServer' = Append(fromServer, [kind |-> "garbage"])
    BY <1>4 DEF ServerChanges, ServerGarbage, ServerSends
  <2>. QED BY <1>3, <2>1, <2>2
<1>. QED BY <1>1, <1>2, <1>4, <1>5 DEF Server

\* The steps that move nothing in flight.
LEMMA FlightQuiet ==
    ASSUME GatewayType, OneCopy,
           \/ Agent \/ Authorize \/ Register \/ Forward \/ WriteFails \/ ReportFailure
           \/ (WriteList /\ Broken) \/ Ending
           \/ (\E k \in Calls : Expire(k)) \/ WatchStop
           \/ SendHeld \/ CheckPage \/ DropCatalog \/ ReadEnd \/ Drain \/ UNCHANGED vars
    PROVE  Flight({}, {})
<1>1. CASE StopServer
  <2>1. (toServer' = toServer \/ toServer' = <<>>) /\ fromServer' = fromServer
        /\ server'.work \subseteq server.work
    BY <1>1 DEF StopServer, Dead, Terminated, GatewayType, PipesType, ServerState
  <2>. QED BY <2>1, FlightStays
<1>2. CASE ~StopServer
  <2>1. UNCHANGED <<toServer, fromServer>> /\ server'.work = server.work
    BY <1>2 DEF Agent, vars, Expire, WatchStop, Ending, LeaveRun, Exit, Authorize,
           Register, Forward, WriteFails, ReportFailure, WriteList, Close, ReceiveCall, ReceiveList,
           SendHeld, CheckPage, DropCatalog, ReadEnd, Drain, Terminated, GatewayType, PipesType, ServerState
  <2>. QED BY <2>1, FlightStays
<1>. QED BY <1>1, <1>2

-----------------------------------------------------------------------------
\* Who may still answer a call.

Refusals == {"denied", "revoked", "unavailable"}
Endings == {"result", "timeout", "stopped"}

At(k, places) == main.req = k /\ main.pc \in places

\* Somebody has answered the call, or is about to.
Taken(k) == answers[k] # {} \/ k \in Held

CallInv(k) ==
    /\ k \in pending => ~Taken(k)
    /\ k \in Held => answers[k] \subseteq Refusals
    /\ k \in Held /\ reader.pc = "result" => answers[k] = {} /\ ~Flying(k) /\ ~At(k, Handling)
    /\ k \in expired => "timeout" \in answers[k]
    /\ At(k, {"authorize", "register"}) => k \notin pending /\ ~Taken(k)
    /\ At(k, {"forward", "write", "failed"}) => k \in pending \/ Taken(k)
    /\ At(k, Handling) => ~Flying(k)
    /\ At(k, Handling) \/ Flying(k) => answers[k] \cap (Refusals \cup {"result"}) = {}
    /\ Flying(k) => k \in pending \/ Taken(k)
    /\ "timeout" \in answers[k] /\ (Flying(k) \/ At(k, {"forward", "write"})) => k \in expired
    /\ "stopped" \in answers[k] => reader.pc \in {"stopped", "done"}
    /\ answers[k] \cap Refusals # {} => "result" \notin answers[k] /\ ~Flying(k)
    /\ \A x, y \in answers[k] \cap Endings : x = y

\* A step that neither answers the call nor moves it forward.
LEMMA CallIdle ==
    ASSUME NEW k \in Calls, CallInv(k),
           answers'[k] = answers[k], k \in pending' <=> k \in pending, k \in expired' <=> k \in expired,
           Flying(k)' => Flying(k),
           main' = main \/ main'.req # k \/ main'.pc \notin Handling,
           \/ reader' = reader
           \/ /\ reader.pc \in {"stopped", "done"} => reader'.pc \in {"stopped", "done"}
              /\ (k \in Held)' <=> k \in Held
              /\ k \in Held => reader'.pc = reader.pc
    PROVE  CallInv(k)'
<1>1. (k \in Held)' <=> k \in Held
  BY DEF Held
<1>. QED BY <1>1 DEF CallInv, Taken, At, Handling

LEMMA CallNext ==
    ASSUME GatewayType, OneCopy, Grounded, [Next]_vars, NEW k \in Calls, CallInv(k)
    PROVE  CallInv(k)'
<1>0. GatewayAssumption /\ k \in Requests /\ answers[k] \subseteq Outcomes /\ k # NoRequest
  BY GatewayAssumption DEF Requests, GatewayType, CallsType, GatewayAssumption, NoRequest
<1>h. reader' = reader => Held' = Held
  BY DEF Held
<1>1. ASSUME NEW c \in Calls, ReceiveCall(c) PROVE CallInv(k)'
  <2>1. Flying(k)' => Flying(k)
    BY <1>0, <1>1, FlightQuiet DEF Agent, Flight
  <2>2. CASE c # k
    BY <1>1, <2>1, <2>2, CallIdle DEF ReceiveCall
  <2>3. CASE c = k
    BY <1>1, <1>h, <2>1, <2>3 DEF ReceiveCall, CallInv, Taken, At, Handling
  <2>. QED BY <2>2, <2>3
<1>2. CASE Authorize
  <2>1. Flying(k)' => Flying(k)
    BY <1>0, <1>2, FlightQuiet DEF Flight
  <2>2. CASE main.req # k
    BY <1>0, <1>2, <2>1, <2>2, CallIdle
       DEF Authorize, GoTo, Ready, Answer, GatewayType, MainType, CallsType
  <2>3. CASE main.req = k
    <3>1. answers[k] = {} /\ k \notin pending /\ k \notin Held /\ ~Flying(k) /\ k \notin expired
      BY <1>2, <2>3 DEF Authorize, CallInv, Taken, At, Handling
    <3>2. UNCHANGED <<pending, expired, reader>>
      BY <1>2 DEF Authorize
    <3>3. CASE GoTo("register") /\ UNCHANGED answers
      BY <1>h, <2>1, <2>3, <3>1, <3>2, <3>3 DEF GoTo, CallInv, Taken, At, Handling, GatewayType, MainType
    <3>4. CASE Answer(main.req, "denied") /\ Ready
      <4>1. answers'[k] = {"denied"} /\ main'.pc = "ready"
        BY <2>3, <3>1, <3>4 DEF Answer, Ready, GatewayType, CallsType
      <4>. QED BY <1>h, <2>1, <3>1, <3>2, <4>1 DEF CallInv, Taken, At, Handling, Refusals, Endings
    <3>. QED BY <1>2, <3>3, <3>4 DEF Authorize
  <2>. QED BY <2>2, <2>3
<1>3. CASE Register
  <2>1. Flying(k)' => Flying(k)
    BY <1>0, <1>3, FlightQuiet DEF Flight
  <2>2. CASE main.req # k
    BY <1>3, <2>1, <2>2, CallIdle DEF Register, GoTo, GatewayType, MainType
  <2>3. CASE main.req = k
    <3>1. answers[k] = {} /\ k \notin Held /\ ~Flying(k) /\ k \notin expired
      BY <1>3, <2>3 DEF Register, CallInv, Taken, At, Handling
    <3>2. /\ k \in pending' /\ answers' = answers /\ expired' = expired /\ reader' = reader
          /\ main'.pc = "forward" /\ main'.req = k
      BY <1>3, <2>3 DEF Register, GoTo, GatewayType, MainType
    <3>. QED BY <1>h, <2>1, <3>1, <3>2 DEF CallInv, Taken, At, Handling
  <2>. QED BY <2>2, <2>3
<1>4. CASE Forward \/ ReportFailure
  <2>1. Flying(k)' => Flying(k)
    BY <1>0, <1>4, FlightQuiet DEF Flight
  <2>2. CASE main.req # k
    BY <1>0, <1>4, <2>1, <2>2, CallIdle
       DEF Forward, ReportFailure, GoTo, Ready, Answer, GatewayType, MainType, CallsType
  <2>3. CASE main.req = k
    <3>1. /\ ~Flying(k) /\ answers[k] \cap (Refusals \cup {"result"}) = {}
          /\ At(k, {"forward", "failed"}) /\ UNCHANGED <<expired, reader>>
      BY <1>4, <2>3 DEF Forward, ReportFailure, CallInv, At, Handling
    <3>2. CASE (GoTo("write") \/ GoTo("failed")) /\ UNCHANGED <<pending, answers>> /\ main.pc = "forward"
      BY <1>h, <2>1, <2>3, <3>1, <3>2 DEF GoTo, CallInv, Taken, At, Handling, GatewayType, MainType
    <3>3. CASE pending' = pending \ {k} /\ Ready
               /\ (Answer(k, "revoked") \/ Answer(k, "unavailable"))
      <4>1. PICK o \in Refusals : answers'[k] = answers[k] \cup {o}
        BY <3>3 DEF Answer, Refusals, GatewayType, CallsType
      <4>2. main'.pc = "ready" /\ k \notin pending'
        BY <3>3 DEF Ready
      <4>3. o \notin Endings /\ o # "result" /\ o # "timeout" /\ o # "stopped"
        BY DEF Refusals, Endings
      <4>4. "result" \notin answers'[k] /\ answers'[k] # {}
        BY <3>1, <4>1, <4>3
      <4>5. \A x, y \in answers'[k] \cap Endings : x = y
        BY <4>1, <4>3 DEF CallInv
      <4>6. "stopped" \in answers'[k] => "stopped" \in answers[k]
        BY <4>1, <4>3
      <4>7. k \in Held' => k \in Held /\ reader.pc # "result" /\ answers'[k] \subseteq Refusals
        BY <1>h, <2>3, <3>1, <4>1 DEF CallInv, At, Handling
      <4>. QED BY <1>h, <2>1, <3>1, <4>1, <4>2, <4>3, <4>4, <4>5, <4>6, <4>7
               DEF CallInv, Taken, At, Handling
    <3>. QED BY <1>4, <2>3, <3>2, <3>3 DEF Forward, ReportFailure
  <2>. QED BY <2>2, <2>3
<1>5. CASE WriteCall
  <2>1. Flying(k)' => Flying(k) \/ k = main.req
    BY <1>0, <1>5, FlightWrite DEF Flight
  <2>2. CASE main.req # k
    BY <1>5, <2>1, <2>2, CallIdle DEF WriteCall, Ready, Handling
  <2>3. CASE main.req = k
    <3>1. UNCHANGED <<pending, expired, answers, reader>> /\ main'.pc = "ready" /\ At(k, {"write"})
      BY <1>5, <2>3 DEF WriteCall, Ready, At
    <3>. QED BY <1>h, <3>1 DEF CallInv, Taken, At, Handling
  <2>. QED BY <2>2, <2>3
<1>6. CASE WriteFails
  <2>1. Flying(k)' => Flying(k)
    BY <1>0, <1>6, FlightQuiet DEF Flight
  <2>2. CASE main.req # k
    BY <1>6, <2>1, <2>2, CallIdle DEF WriteFails, GoTo, GatewayType, MainType
  <2>3. CASE main.req = k
    <3>1. UNCHANGED <<pending, expired, answers, reader>> /\ main'.pc = "failed" /\ At(k, {"write"})
      BY <1>6, <2>3 DEF WriteFails, GoTo, At, GatewayType, MainType
    <3>. QED BY <1>h, <2>1, <3>1 DEF CallInv, Taken, At, Handling
  <2>. QED BY <2>2, <2>3
<1>7. ASSUME NEW l \in Lists, NEW continues \in BOOLEAN, ReceiveList(l, continues) PROVE CallInv(k)'
  <2>1. Flying(k)' => Flying(k)
    BY <1>0, <1>7, FlightQuiet DEF Flight, Agent
  <2>2. main'.req # k /\ UNCHANGED <<pending, expired, answers, reader>>
    BY <1>0, <1>7 DEF ReceiveList, GatewayAssumption
  <2>. QED BY <2>1, <2>2, CallIdle
<1>8. CASE WriteList
  <2>1. main.req # k
    BY <1>0, <1>8 DEF WriteList, GatewayAssumption
  <2>2. Flying(k)' => Flying(k)
    BY <1>0, <1>8, <2>1, FlightQuiet, FlightWrite DEF Flight
  <2>3. main'.req # k /\ UNCHANGED <<pending, expired, answers, reader>>
    BY <1>0, <1>8, <2>1 DEF WriteList, Ready, GoTo, GatewayType, MainType
  <2>. QED BY <2>2, <2>3, CallIdle
<1>9. CASE Close \/ WatchStop \/ Ending
  <2>1. Flying(k)' => Flying(k)
    BY <1>0, <1>9, FlightQuiet DEF Flight, Agent
  <2>2. (main' = main \/ main'.pc \notin Handling) /\ UNCHANGED <<pending, expired, answers, reader>>
    BY <1>9 DEF Close, WatchStop, Ending, StopServer, LeaveRun, Exit, GoTo, Handling, GatewayType, MainType
  <2>. QED BY <2>1, <2>2, CallIdle
<1>10. ASSUME NEW c \in Calls, Expire(c) PROVE CallInv(k)'
  <2>1. Flying(k)' => Flying(k)
    BY <1>0, <1>10, FlightQuiet DEF Flight
  <2>2. CASE c # k
    BY <1>10, <2>1, <2>2, CallIdle DEF Expire, Answer, GatewayType, CallsType
  <2>3. CASE c = k
    <3>1. answers[k] = {} /\ k \notin Held /\ ~At(k, {"authorize", "register"})
      BY <1>10, <2>3 DEF Expire, CallInv, Taken
    <3>2. /\ answers'[k] = {"timeout"} /\ k \notin pending' /\ k \in expired'
          /\ main' = main /\ reader' = reader
      BY <1>10, <2>3, <3>1 DEF Expire, Answer, GatewayType, CallsType
    <3>. QED BY <1>h, <2>1, <3>1, <3>2 DEF CallInv, Taken, At, Handling, Refusals, Endings
  <2>. QED BY <2>2, <2>3
<1>11. CASE ReadResult
  <2>. DEFINE c == Head(fromServer).id
  <2>1. /\ reader.pc = "read" /\ UNCHANGED <<main, answers>>
        /\ fromServer # <<>> /\ Head(fromServer).kind = "result"
        /\ pending' = pending \ {c} /\ expired' = expired \ {c}
        /\ IF c \notin pending /\ c \in expired THEN reader' = reader
           ELSE reader' = [pc |-> "result", calls |-> {c}]
    BY <1>11 DEF ReadResult, Reading
  <2>2. Flight({}, Landing)
    BY <1>11, FlightTake
  <2>3. Held = {} /\ (Held' = {} \/ Held' = {c}) /\ reader'.pc \in {"read", "result"}
    BY <2>1 DEF Held
  <2>4. CASE c # k
    BY <1>0, <2>1, <2>2, <2>3, <2>4, CallIdle DEF Flight
  <2>5. CASE c = k
    <3>1. k \in Landing
      BY <1>0, <2>1, <2>5 DEF Landing, Carries
    <3>2. ~Flying(k)'
      BY <1>0, <2>2, <3>1 DEF Flight
    <3>3. Flying(k)
      <4>1. fromServer \in Seq(Message)
        BY DEF GatewayType, PipesType
      <4>2. 1 \in 1 .. Len(fromServer) /\ fromServer[1] = Head(fromServer)
        BY <2>1, <4>1
      <4>. QED BY <3>1, <4>2 DEF Landing, Flying, InAnswer
    <3>4. ~At(k, Handling) /\ ~At(k, Handling)' /\ answers[k] \cap (Refusals \cup {"result"}) = {}
      BY <2>1, <3>3 DEF CallInv, At
    <3>5. k \notin pending' /\ k \notin expired' /\ "stopped" \notin answers[k]
      BY <2>1, <2>5 DEF CallInv
    <3>6. CASE k \notin pending /\ k \in expired
      <4>1. reader' = reader
        BY <2>1, <2>5, <3>6
      <4>. QED BY <1>h, <2>1, <3>2, <3>4, <3>5, <4>1 DEF CallInv, Taken, At, Handling
    <3>7. CASE ~(k \notin pending /\ k \in expired)
      <4>1. reader'.pc = "result" /\ k \in Held'
        BY <2>1, <2>5, <3>7 DEF Held
      <4>2. "timeout" \notin answers[k]
        BY <3>3, <3>7 DEF CallInv, Taken
      <4>3. answers[k] = {}
        BY <1>0, <3>4, <3>5, <4>2 DEF Refusals, Outcomes
      <4>. QED BY <2>1, <3>2, <3>4, <3>5, <4>1, <4>3 DEF CallInv, Taken, At, Handling
    <3>. QED BY <3>6, <3>7
  <2>. QED BY <2>4, <2>5
<1>12. CASE ReadPage \/ ReadListChanged \/ ReadGarbage
  <2>1. Flight({}, Landing)
    BY <1>12, FlightTake
  <2>2. UNCHANGED <<main, pending, expired, answers>> /\ reader.pc = "read"
        /\ reader'.pc \in {"check", "changed", "drain"}
    BY <1>12 DEF ReadPage, ReadListChanged, ReadGarbage, Reading
  <2>. QED BY <1>0, <2>1, <2>2, CallIdle DEF Flight, Held
<1>13. CASE CheckPage \/ DropCatalog \/ ReadEnd
  <2>1. Flight({}, {})
    BY <1>13, FlightQuiet
  <2>2. UNCHANGED <<main, pending, expired, answers>> /\ reader.pc \in {"check", "changed", "read"}
        /\ reader'.pc \in {"read", "drain"}
    BY <1>13 DEF CheckPage, DropCatalog, ReadEnd
  <2>. QED BY <1>0, <2>1, <2>2, CallIdle DEF Flight, Held
<1>14. CASE Drain
  <2>1. Flying(k)' => Flying(k)
    BY <1>0, <1>14, FlightQuiet DEF Flight
  <2>2. /\ reader.pc = "drain" /\ pending' = {} /\ UNCHANGED <<main, expired, answers>>
        /\ reader'.pc \in {"stopped", "done"} /\ Held' = pending /\ Held = {}
    BY <1>14 DEF Drain, Held
  <2>3. CASE k \in pending
    <3>1. answers[k] = {} /\ k \in Held' /\ reader'.pc \in {"stopped", "done"} /\ reader'.pc # "result"
          /\ ~At(k, {"authorize", "register"})
      BY <2>2, <2>3 DEF CallInv, Taken
    <3>. QED BY <2>1, <2>2, <3>1 DEF CallInv, Taken, At, Handling
  <2>4. CASE k \notin pending
    <3>1. answers'[k] = answers[k] /\ k \notin pending' /\ k \notin Held' /\ k \notin Held
      BY <2>2, <2>4
    <3>. QED BY <2>1, <2>2, <2>4, <3>1 DEF CallInv, Taken, At, Handling
  <2>. QED BY <2>3, <2>4
<1>17. CASE SendHeld
  <2>1. Flying(k)' => Flying(k)
    BY <1>0, <1>17, FlightQuiet DEF Flight
  <2>2. PICK c \in reader.calls :
          /\ Answer(c, reader.pc)
          /\ reader' = IF reader.calls # {c} THEN [reader EXCEPT !.calls = @ \ {c}]
                       ELSE [pc |-> IF reader.pc = "result" THEN "read" ELSE "done"]
    BY <1>17 DEF SendHeld
  <2>3. /\ reader.pc \in {"result", "stopped"} /\ UNCHANGED <<main, pending, expired>>
        /\ Held = reader.calls /\ c \in Calls /\ c \in Held
    BY <1>17, <2>2 DEF SendHeld, Held, GatewayType, ReaderType
  <2>4. /\ reader.pc = "stopped" => reader'.pc \in {"stopped", "done"}
        /\ reader'.pc # reader.pc => reader.calls = {c}
    BY <2>2, <2>3
  <2>5. k # c => ((k \in Held)' <=> k \in Held)
    <3>1. CASE reader.calls = {c}
      <4>1. reader'.pc \notin {"result", "stopped"}
        BY <2>2, <3>1
      <4>. QED BY <2>3, <3>1, <4>1 DEF Held
    <3>2. CASE reader.calls # {c}
      <4>1. reader' = [reader EXCEPT !.calls = @ \ {c}]
        BY <2>2, <3>2
      <4>. QED BY <2>3, <4>1 DEF Held
    <3>. QED BY <3>1, <3>2
  <2>6. CASE k # c
    <3>1. answers'[k] = answers[k] /\ (k \in Held => reader'.pc = reader.pc)
      BY <2>2, <2>3, <2>4, <2>6 DEF Answer, GatewayType, CallsType
    <3>. QED BY <2>1, <2>3, <2>4, <2>5, <2>6, <3>1, CallIdle
  <2>7. CASE k = c
    <3>1. answers'[k] = answers[k] \cup {reader.pc}
      BY <2>2, <2>3, <2>7 DEF Answer, GatewayType, CallsType
    <3>2. k \notin pending /\ k \notin expired /\ answers[k] \subseteq Refusals
          /\ ~At(k, {"authorize", "register"})
      BY <2>3, <2>7 DEF CallInv, Taken, Refusals
    <3>5. k \notin Held'
      <4>1. CASE reader.calls = {c}
        <5>1. reader'.pc \notin {"result", "stopped"}
          BY <2>2, <4>1
        <5>. QED BY <5>1 DEF Held
      <4>2. CASE reader.calls # {c}
        <5>1. reader' = [reader EXCEPT !.calls = @ \ {c}]
          BY <2>2, <4>2
        <5>. DEFINE rest == [reader EXCEPT !.calls = @ \ {c}]
        <5>2. "calls" \in DOMAIN reader => rest.calls = reader.calls \ {c}
          OBVIOUS
        <5>3. rest.calls = reader.calls \ {c}
          BY <5>2 DEF GatewayType, ReaderType
        <5>. QED BY <2>7, <5>1, <5>3 DEF Held
      <4>. QED BY <4>1, <4>2
    <3>3. CASE reader.pc = "result"
      <4>1. answers'[k] = {"result"} /\ ~Flying(k) /\ ~At(k, Handling)
        BY <2>3, <2>7, <3>1, <3>3 DEF CallInv
      <4>. QED BY <2>1, <2>3, <3>2, <3>5, <4>1 DEF CallInv, Taken, At, Handling, Refusals, Endings
    <3>4. CASE reader.pc = "stopped"
      <4>1. answers'[k] = answers[k] \cup {"stopped"} /\ reader'.pc \in {"stopped", "done"}
        BY <2>4, <3>1, <3>4
      <4>2. \A x, y \in answers'[k] \cap Endings : x = y
        BY <3>2, <4>1 DEF Refusals, Endings
      <4>3. "result" \notin answers'[k] /\ "timeout" \notin answers'[k]
            /\ (answers'[k] \cap Refusals # {} => answers[k] \cap Refusals # {})
            /\ answers'[k] \cap (Refusals \cup {"result"}) = answers[k] \cap (Refusals \cup {"result"})
        BY <3>2, <4>1 DEF Refusals
      <4>. QED BY <2>1, <2>3, <3>2, <3>5, <4>1, <4>2, <4>3 DEF CallInv, Taken, At, Handling
    <3>. QED BY <2>3, <3>3, <3>4
  <2>. QED BY <2>6, <2>7
<1>15. CASE Server
  <2>1. Flight({}, {})
    BY <1>15, FlightServer
  <2>2. UNCHANGED <<main, pending, expired, answers, reader>>
    BY <1>15 DEF Server, ServerRead, ServerAnswer, ServerChanges, ServerGarbage, ServerDies, ServerClosesInput,
             ServerClosesOutput
  <2>. QED BY <1>0, <2>1, <2>2, CallIdle DEF Flight
<1>16. CASE UNCHANGED vars
  <2>1. Flight({}, {})
    BY <1>16, FlightQuiet
  <2>. QED BY <1>0, <1>16, <2>1, CallIdle DEF Flight, vars
<1>. QED BY <1>1, <1>2, <1>3, <1>4, <1>5, <1>6, <1>7, <1>8, <1>9, <1>10, <1>11, <1>12, <1>13,
            <1>14, <1>15, <1>16, <1>17 DEF Next, Agent, MainStep, Reader

-----------------------------------------------------------------------------
\* Which pages may still be believed.

Announced ==
    (\E i \in 1 .. Len(fromServer) : fromServer[i].kind = "list_changed") \/ reader.pc = "changed"

Current(l) == l \in DOMAIN scans /\ scans[l] = generation

\* A set of tools that were good when the server answered, but are not now.
Outdated(good) == good \cap server.changed # {}

GenerationsInv ==
    /\ \A l \in DOMAIN scans : scans[l] <= generation
    /\ cursor <= generation
    /\ reader.pc = "check" => reader.gen <= generation

ListsFly ==
    /\ main.pc = "write" /\ main.req \in Lists => main.req \in DOMAIN scans /\ ~Flying(main.req)
    /\ \A l \in Lists : Flying(l) => l \in DOMAIN scans

WorkTold == \A w \in server.work : Current(w.id) /\ Outdated(w.good) => Announced
PagesTold ==
    \A i \in 1 .. Len(fromServer) :
        fromServer[i].kind = "page" /\ Current(fromServer[i].id) /\ Outdated(fromServer[i].good)
            => Announced
CheckTold == reader.pc = "check" /\ reader.gen = generation /\ Outdated(reader.msg.good) => Announced
TrustTold == Outdated(trusted) => Announced

ListInv == GenerationsInv /\ ListsFly /\ WorkTold /\ PagesTold /\ CheckTold /\ TrustTold

LEMMA GenerationsNext ==
    ASSUME GatewayType, GenerationsInv, [Next]_vars
    PROVE  GenerationsInv'
<1>. USE DEF GenerationsInv
<1>1. CASE UNCHANGED <<scans, catalog, reader>>
  BY <1>1 DEF catalog
<1>2. ASSUME NEW l \in Lists, NEW continues \in BOOLEAN, ReceiveList(l, continues)
      PROVE  GenerationsInv'
  <2>1. CASE continues
    BY <1>2, <2>1 DEF ReceiveList, catalog, GatewayType, CatalogType
  <2>2. CASE ~continues
    BY <1>2, <2>2 DEF ReceiveList, Invalidate, NoGen, GatewayType, CatalogType, ReaderType
  <2>. QED BY <2>1, <2>2
<1>3. CASE ReadPage
  BY <1>3 DEF ReadPage, Without, catalog
<1>4. CASE CheckPage
  <2>1. UNCHANGED scans /\ reader'.pc = "read" /\ reader.gen <= generation
    BY <1>4 DEF CheckPage
  <2>2. \/ UNCHANGED <<generation, cursor>>
        \/ Invalidate
        \/ generation' = generation /\ (cursor' = reader.gen \/ cursor' = cursor)
    BY <1>4 DEF CheckPage, catalog
  <2>. QED BY <2>1, <2>2 DEF Invalidate, NoGen, GatewayType, CatalogType
<1>5. CASE DropCatalog
  BY <1>5 DEF DropCatalog, Invalidate, NoGen, GatewayType, CatalogType
<1>6. CASE ReadListChanged \/ ReadGarbage \/ ReadEnd \/ Drain
  BY <1>6 DEF ReadListChanged, ReadGarbage, ReadEnd, Drain, catalog
<1>7. CASE ReadResult \/ SendHeld
  <2>1. UNCHANGED <<scans, catalog>>
    BY <1>7 DEF ReadResult, SendHeld, catalog
  <2>2. reader' = reader \/ reader'.pc # "check"
    BY <1>7, SendsOnly DEF ReadResult
  <2>. QED BY <2>1, <2>2 DEF catalog
<1>. QED BY <1>1, <1>2, <1>3, <1>4, <1>5, <1>6, <1>7
         DEF Next, Agent, Ending, MainStep, Reader, Server, vars, Expire, WatchStop, StopServer, LeaveRun, Exit, ReadResult, Authorize,
             Register, Forward, WriteCall, WriteFails, ReportFailure, WriteList, Close, ReceiveCall,
             ServerRead, ServerAnswer, ServerChanges, ServerGarbage, ServerDies, ServerClosesInput,
             ServerClosesOutput, catalog

LEMMA ListsFlyNext ==
    ASSUME GatewayType, OneCopy, Grounded, ListsFly, [Next]_vars
    PROVE  ListsFly'
<1>. USE DEF ListsFly
<1>0. Lists \subseteq Requests /\ Calls \cap Lists = {} /\ NoRequest \notin Lists
  BY GatewayAssumption DEF Requests, GatewayAssumption, NoRequest
<1>1. ASSUME Flight({}, {}), UNCHANGED scans,
             main' = main \/ main'.pc # "write" \/ main'.req \notin Lists
      PROVE  ListsFly'
  BY <1>0, <1>1 DEF Flight
<1>2. CASE (\E k \in Calls : ReceiveCall(k)) \/ Authorize \/ Register \/ Forward \/ WriteFails
           \/ ReportFailure \/ Close \/ Ending
  <2>1. Flight({}, {})
    BY <1>2, FlightQuiet DEF Agent
  <2>2. UNCHANGED scans /\ (main'.pc # "write" \/ main'.req \notin Lists)
    BY <1>0, <1>2 DEF ReceiveCall, Authorize, Register, Forward, WriteFails, ReportFailure, Close,
                      Ending, StopServer, LeaveRun, Exit, Ready, GoTo, GatewayType, MainType
  <2>. QED BY <1>1, <2>1, <2>2
<1>3. ASSUME NEW l \in Lists, NEW continues \in BOOLEAN, ReceiveList(l, continues) PROVE ListsFly'
  <2>1. Flight({}, {})
    BY <1>3, FlightQuiet DEF Agent
  <2>2. main'.req = l /\ l \notin DOMAIN scans /\ DOMAIN scans' = DOMAIN scans \cup {l}
    BY <1>3 DEF ReceiveList
  <2>. QED BY <1>0, <2>1, <2>2 DEF Flight
<1>4. CASE WriteCall \/ (WriteList /\ ~Broken)
  <2>1. Flight({main.req}, {})
    BY <1>4, FlightWrite
  <2>2. UNCHANGED scans /\ main'.pc = "ready" /\ main.pc = "write"
    BY <1>4 DEF WriteCall, WriteList, Ready
  <2>. QED BY <1>0, <2>1, <2>2 DEF Flight
<1>5. CASE WriteList /\ Broken
  <2>1. Flight({}, {})
    BY <1>5, FlightQuiet
  <2>2. UNCHANGED scans /\ main'.pc # "write"
    BY <1>5 DEF WriteList, GoTo, GatewayType, MainType
  <2>. QED BY <1>1, <2>1, <2>2
<1>6. CASE (\E k \in Calls : Expire(k)) \/ WatchStop \/ CheckPage \/ DropCatalog \/ ReadEnd \/ Drain
           \/ SendHeld \/ UNCHANGED vars
  <2>1. Flight({}, {})
    BY <1>6, FlightQuiet
  <2>2. UNCHANGED <<scans, main>>
    BY <1>6 DEF Expire, WatchStop, CheckPage, DropCatalog, ReadEnd, Drain, SendHeld, vars
  <2>. QED BY <1>1, <2>1, <2>2
<1>7. CASE ReadResult \/ ReadListChanged \/ ReadGarbage
  <2>1. Flight({}, Landing)
    BY <1>7, FlightTake
  <2>2. UNCHANGED <<scans, main>>
    BY <1>7 DEF ReadResult, ReadListChanged, ReadGarbage
  <2>. QED BY <1>0, <2>1, <2>2 DEF Flight
<1>8. CASE ReadPage
  <2>. DEFINE id == Head(fromServer).id
  <2>1. Flight({}, Landing)
    BY <1>8, FlightTake
  <2>2. main' = main /\ DOMAIN scans' = DOMAIN scans \ {id} /\ Head(fromServer).kind = "page"
    BY <1>8 DEF ReadPage, Without
  <2>3. id \in Requests => id \in Landing
    BY <2>2 DEF Landing, Carries
  <2>4. \A l \in Lists : Flying(l)' => Flying(l) /\ l # id
    BY <1>0, <2>1, <2>3 DEF Flight
  <2>5. Flying(id)
    <3>1. fromServer \in Seq(Message) /\ fromServer # <<>>
      BY <1>8 DEF GatewayType, PipesType, ReadPage
    <3>2. 1 \in 1 .. Len(fromServer) /\ fromServer[1] = Head(fromServer)
      BY <3>1
    <3>. QED BY <2>2, <3>2 DEF Flying, InAnswer, Carries
  <2>6. main.pc = "write" /\ main.req \in Lists => main.req # id
    BY <2>5
  <2>. QED BY <2>2, <2>4, <2>6
<1>9. CASE Server
  <2>1. Flight({}, {})
    BY <1>9, FlightServer
  <2>2. UNCHANGED <<scans, main>>
    BY <1>9 DEF Server, ServerRead, ServerAnswer, ServerChanges, ServerGarbage, ServerDies, ServerClosesInput,
             ServerClosesOutput
  <2>. QED BY <1>1, <2>1, <2>2
<1>. QED BY <1>2, <1>3, <1>4, <1>5, <1>6, <1>7, <1>8, <1>9 DEF Next, Agent, Ending, MainStep, Reader

Told == WorkTold /\ PagesTold /\ CheckTold /\ TrustTold

\* Steps that leave the catalog, the pages and what the reader has of them alone.
LEMMA ToldQuiet ==
    ASSUME Told, UNCHANGED <<scans, catalog, fromServer>>,
           server'.work \subseteq server.work, server'.changed = server.changed,
           reader' = reader \/ (reader'.pc # "check" /\ reader.pc # "changed")
    PROVE  Told'
<1>1. Announced => Announced'
  BY DEF Announced
<1>2. \A l : Current(l)' <=> Current(l)
  BY DEF Current, catalog
<1>3. \A g : Outdated(g)' <=> Outdated(g)
  BY DEF Outdated
<1>4. WorkTold'
  BY <1>1, <1>2, <1>3 DEF Told, WorkTold, Outdated
<1>5. PagesTold'
  BY <1>1, <1>2 DEF Told, PagesTold, Outdated
<1>6. CheckTold' /\ TrustTold'
  BY <1>1 DEF Told, CheckTold, TrustTold, Outdated, catalog
<1>. QED BY <1>4, <1>5, <1>6 DEF Told

\* After an invalidation no page and no trust is of the current generation.
LEMMA ToldInvalidated ==
    ASSUME GatewayType, GenerationsInv, Invalidate, reader'.pc # "check" \/ reader' = reader,
           \A l \in DOMAIN scans' : Current(l)' => ~Flying(l),
           UNCHANGED <<toServer, fromServer>>, server'.work = server.work
    PROVE  Told'
<1>1. fromServer \in Seq(Message) /\ server.work \subseteq Work
  BY DEF GatewayType, PipesType, ServerState
<1>2. ASSUME NEW w \in server'.work, Current(w.id)' PROVE FALSE
  <2>1. Flying(w.id) /\ w.id \in DOMAIN scans'
    BY <1>2 DEF Flying, InWork, Current
  <2>. QED BY <1>2, <2>1
<1>3. ASSUME NEW i \in 1 .. Len(fromServer), fromServer[i].kind = "page", NEW l,
             fromServer[i].id = l, Current(l)'
      PROVE  FALSE
  <2>1. Flying(l) /\ l \in DOMAIN scans'
    BY <1>3 DEF Flying, InAnswer, Carries, Current
  <2>. QED BY <1>3, <2>1
<1>4. trusted' = {} /\ generation' = generation + 1
  BY DEF Invalidate
<1>5. ~(reader'.pc = "check" /\ reader'.gen = generation')
  BY <1>4 DEF GenerationsInv, GatewayType, ReaderType, CatalogType
<1>6. WorkTold'
  BY <1>2 DEF WorkTold
<1>7. PagesTold'
  <2>1. fromServer' = fromServer
    OBVIOUS
  <2>. QED BY <1>3, <2>1 DEF PagesTold, Current
<1>8. CheckTold' /\ TrustTold'
  BY <1>4, <1>5 DEF CheckTold, TrustTold, Outdated
<1>. QED BY <1>6, <1>7, <1>8 DEF Told

LEMMA ToldList ==
    ASSUME GatewayType, GenerationsInv, ListsFly, Told,
           NEW l \in Lists, NEW continues \in BOOLEAN, ReceiveList(l, continues)
    PROVE  Told'
<1>1. ~Flying(l) /\ l \notin DOMAIN scans
  BY DEF ReceiveList, ListsFly
<1>2. UNCHANGED <<toServer, fromServer, server, reader>>
  BY DEF ReceiveList
<1>3. CASE continues
  <2>1. UNCHANGED catalog /\ \A x : x # l => (Current(x)' <=> Current(x))
    BY <1>3 DEF ReceiveList, Current, catalog
  <2>2. Announced => Announced'
    BY <1>2 DEF Announced
  <2>3. \A w \in server.work : w.id # l
    BY <1>1 DEF Flying, InWork
  <2>4. \A i \in 1 .. Len(fromServer) : fromServer[i].kind = "page" => fromServer[i].id # l
    BY <1>1 DEF Flying, InAnswer, Carries
  <2>5. WorkTold'
    BY <1>2, <2>1, <2>2, <2>3 DEF Told, WorkTold, Outdated
  <2>6. PagesTold'
    BY <1>2, <2>1, <2>2, <2>4 DEF Told, PagesTold, Outdated
  <2>7. CheckTold' /\ TrustTold'
    BY <1>2, <2>1, <2>2 DEF Told, CheckTold, TrustTold, Outdated, catalog
  <2>. QED BY <2>5, <2>6, <2>7 DEF Told
<1>4. CASE ~continues
  <2>1. Invalidate /\ \A x \in DOMAIN scans' : x # l => x \in DOMAIN scans /\ scans'[x] = scans[x]
    BY <1>4 DEF ReceiveList
  <2>2. \A x \in DOMAIN scans' : Current(x)' => x = l
    BY <2>1 DEF Current, Invalidate, GenerationsInv, GatewayType, CatalogType
  <2>. QED BY <1>1, <1>2, <2>1, <2>2, ToldInvalidated
<1>. QED BY <1>3, <1>4

\* The reader takes a message and keeps its announcement.
LEMMA ToldTake ==
    ASSUME GatewayType, Told, ReadResult \/ ReadPage \/ ReadListChanged \/ ReadGarbage
    PROVE  Told'
<1>0. /\ fromServer \in Seq(Message) /\ fromServer # <<>> /\ fromServer' = Tail(fromServer)
      /\ reader.pc = "read" /\ UNCHANGED catalog
      /\ server'.work = server.work /\ server'.changed = server.changed
  BY DEF Reading, ReadResult, ReadPage, ReadListChanged, ReadGarbage, Terminated, GatewayType,
         PipesType, ServerState
<1>1. Len(fromServer') = Len(fromServer) - 1 /\ Len(fromServer) \in Nat
      /\ \A i \in 1 .. Len(fromServer') : fromServer'[i] = fromServer[i + 1]
  BY <1>0
<1>2. \A i \in 1 .. Len(fromServer') : i + 1 \in 1 .. Len(fromServer)
  BY <1>1
<1>3. fromServer[1] = Head(fromServer) /\ 1 \in 1 .. Len(fromServer)
  BY <1>0
<1>4. \A l : Current(l)' => Current(l)
  BY <1>0 DEF ReadResult, ReadPage, ReadListChanged, ReadGarbage, Current, catalog, Without
<1>5. Announced => Announced'
  <2>. SUFFICES ASSUME Announced PROVE Announced'
    OBVIOUS
  <2>1. PICK i \in 1 .. Len(fromServer) : fromServer[i].kind = "list_changed"
    BY <1>0 DEF Announced
  <2>2. CASE i = 1
    <3>1. Head(fromServer).kind = "list_changed"
      BY <1>3, <2>1, <2>2
    <3>2. reader'.pc = "changed"
      BY <3>1 DEF ReadResult, ReadPage, ReadListChanged, ReadGarbage
    <3>. QED BY <3>2 DEF Announced
  <2>3. CASE i # 1
    <3>1. i - 1 \in 1 .. Len(fromServer') /\ (i - 1) + 1 = i
      BY <1>1, <2>3
    <3>2. fromServer'[i - 1].kind = "list_changed"
      BY <1>1, <2>1, <3>1
    <3>. QED BY <3>1, <3>2 DEF Announced
  <2>. QED BY <2>2, <2>3
<1>6. WorkTold'
  BY <1>0, <1>4, <1>5 DEF Told, WorkTold, Outdated
<1>7. PagesTold'
  BY <1>0, <1>1, <1>2, <1>4, <1>5 DEF Told, PagesTold, Outdated
<1>8. TrustTold'
  BY <1>0, <1>5 DEF Told, TrustTold, Outdated, catalog
<1>9. CheckTold'
  <2>1. CASE ReadPage
    <3>1. /\ reader'.msg = fromServer[1] /\ reader'.gen = scans[fromServer[1].id]
          /\ fromServer[1].kind = "page" /\ fromServer[1].id \in DOMAIN scans
      BY <1>3, <2>1 DEF ReadPage
    <3>. QED BY <1>0, <1>3, <1>5, <3>1 DEF Told, PagesTold, CheckTold, Outdated, Current, catalog
  <2>2. CASE ~ReadPage
    <3>1. reader'.pc # "check"
      BY <1>0, <2>2 DEF ReadResult, ReadListChanged, ReadGarbage
    <3>. QED BY <3>1 DEF CheckTold
  <2>. QED BY <2>1, <2>2
<1>. QED BY <1>6, <1>7, <1>8, <1>9 DEF Told

LEMMA ToldCheck ==
    ASSUME GatewayType, GenerationsInv, Told, CheckPage
    PROVE  Told'
<1>1. /\ reader.pc = "check" /\ reader'.pc = "read" /\ UNCHANGED <<scans, toServer, fromServer, server>>
      /\ reader.msg \in Page /\ reader.gen \in Int
  BY DEF CheckPage, GatewayType, ReaderType
<1>2. CASE UNCHANGED catalog
  BY <1>1, <1>2, ToldQuiet
<1>3. CASE Invalidate
  <2>1. \A l \in DOMAIN scans' : ~Current(l)'
    BY <1>1, <1>3 DEF Current, Invalidate, GenerationsInv, GatewayType, CatalogType
  <2>. QED BY <1>1, <1>3, <2>1, ToldInvalidated
<1>4. CASE /\ ~Stale(reader.gen) /\ ~Rejected(reader.msg)
           /\ trusted' = trusted \cup reader.msg.shown /\ UNCHANGED generation
  <2>1. reader.gen = generation /\ reader.msg.shown \subseteq reader.msg.good
    BY <1>4 DEF Stale, Rejected
  <2>2. Announced => Announced'
    BY <1>1 DEF Announced
  <2>3. TrustTold'
    BY <1>1, <1>4, <2>1, <2>2 DEF Told, TrustTold, CheckTold, Outdated
  <2>4. CheckTold'
    BY <1>1 DEF CheckTold
  <2>5. \A l : Current(l)' <=> Current(l)
    BY <1>1, <1>4 DEF Current
  <2>6. WorkTold'
    BY <1>1, <2>2, <2>5 DEF Told, WorkTold, Outdated
  <2>7. PagesTold'
    BY <1>1, <2>2, <2>5 DEF Told, PagesTold, Outdated
  <2>. QED BY <2>3, <2>4, <2>6, <2>7 DEF Told
<1>. QED BY <1>2, <1>3, <1>4 DEF CheckPage

LEMMA ToldDrop ==
    ASSUME GatewayType, GenerationsInv, Told, DropCatalog
    PROVE  Told'
<1>1. Invalidate /\ reader'.pc = "read" /\ UNCHANGED <<scans, toServer, fromServer, server>>
  BY DEF DropCatalog
<1>2. \A l \in DOMAIN scans' : ~Current(l)'
  BY <1>1 DEF Current, Invalidate, GenerationsInv, GatewayType, CatalogType
<1>. QED BY <1>1, <1>2, ToldInvalidated

LEMMA ToldServer ==
    ASSUME GatewayType, Told, Server
    PROVE  Told'
<1>0. UNCHANGED <<scans, catalog, reader>> /\ fromServer \in Seq(Message)
      /\ server \in ServerState
  BY DEF Server, ServerRead, ServerAnswer, ServerChanges, ServerGarbage, ServerDies, ServerClosesInput,
             ServerClosesOutput, GatewayType, PipesType
<1>1. \A l : Current(l)' <=> Current(l)
  BY <1>0 DEF Current, catalog
<1>2. CASE ServerDies \/ ServerClosesInput \/ ServerClosesOutput
  <2>1. server'.work \subseteq server.work /\ server'.changed = server.changed /\ fromServer' = fromServer
    BY <1>0, <1>2 DEF ServerDies, ServerClosesInput, ServerClosesOutput, Dead, ServerState
  <2>. QED BY <1>0, <2>1, ToldQuiet
<1>3. CASE ServerRead
  <2>. DEFINE w == [id |-> Head(toServer),
                    good |-> IF Head(toServer) \in Lists THEN Pinned \ server.changed ELSE {}]
  <2>1. server'.work = server.work \cup {w} /\ server'.changed = server.changed /\ fromServer' = fromServer
    BY <1>0, <1>3 DEF ServerRead, ServerState
  <2>2. ~Outdated(w.good)
    BY DEF Outdated
  <2>. HIDE DEF w
  <2>3. Announced => Announced'
    BY <1>0, <2>1 DEF Announced
  <2>4. WorkTold'
    BY <1>1, <2>1, <2>2, <2>3 DEF Told, WorkTold, Outdated
  <2>5. PagesTold'
    BY <1>1, <2>1, <2>3 DEF Told, PagesTold, Outdated
  <2>6. CheckTold' /\ TrustTold'
    BY <1>0, <2>1, <2>3 DEF Told, CheckTold, TrustTold, Outdated, catalog
  <2>. QED BY <2>4, <2>5, <2>6 DEF Told
\* A message is added to the output of the server.
<1>4. ASSUME NEW m, fromServer' = Append(fromServer, m), server'.work \subseteq server.work,
             \/ /\ server'.changed = server.changed
                /\ m.kind = "page" /\ Current(m.id) /\ Outdated(m.good) => Announced
             \/ m.kind = "list_changed"
      PROVE  Told'
  <2>1. Len(fromServer') = Len(fromServer) + 1 /\ Len(fromServer) \in Nat
        /\ \A i \in 1 .. Len(fromServer') :
              fromServer'[i] = IF i = Len(fromServer) + 1 THEN m ELSE fromServer[i]
    BY <1>0, <1>4
  <2>2. \A i \in 1 .. Len(fromServer') : i \in 1 .. Len(fromServer) \/ i = Len(fromServer) + 1
    BY <2>1
  <2>3. \A i \in 1 .. Len(fromServer) : i \in 1 .. Len(fromServer') /\ fromServer'[i] = fromServer[i]
    BY <2>1
  <2>4. CASE m.kind = "list_changed"
    <3>1. Len(fromServer) + 1 \in 1 .. Len(fromServer') /\ fromServer'[Len(fromServer) + 1] = m
      BY <2>1
    <3>2. Announced'
      BY <2>4, <3>1 DEF Announced
    <3>. QED BY <3>2 DEF Told, WorkTold, PagesTold, CheckTold, TrustTold
  <2>5. CASE /\ server'.changed = server.changed
             /\ m.kind = "page" /\ Current(m.id) /\ Outdated(m.good) => Announced
    <3>1. Announced => Announced'
      BY <1>0, <2>3 DEF Announced
    <3>2. WorkTold'
      BY <1>1, <1>4, <2>5, <3>1 DEF Told, WorkTold, Outdated
    <3>3. PagesTold'
      BY <1>1, <2>1, <2>2, <2>5, <3>1 DEF Told, PagesTold, Outdated
    <3>4. CheckTold' /\ TrustTold'
      BY <1>0, <2>5, <3>1 DEF Told, CheckTold, TrustTold, Outdated, catalog
    <3>. QED BY <3>2, <3>3, <3>4 DEF Told
  <2>. QED BY <1>4, <2>4, <2>5
<1>5. CASE ServerAnswer
  <2>1. PICK w \in server.work, m \in Message :
              /\ fromServer' = Append(fromServer, m)
              /\ server' = [server EXCEPT !.work = @ \ {w}]
              /\ m.kind \in {"result", "page"} /\ m.id = w.id
              /\ m.kind = "page" => m.good = w.good
    BY <1>5, Sends
  <2>2. server'.work \subseteq server.work /\ server'.changed = server.changed
    BY <1>0, <2>1 DEF ServerState
  <2>3. m.kind = "page" /\ Current(m.id) /\ Outdated(m.good) => Announced
    BY <2>1 DEF Told, WorkTold
  <2>. QED BY <1>4, <2>1, <2>2, <2>3
<1>6. CASE \E t \in Pinned : ServerChanges(t)
  <2>1. fromServer' = Append(fromServer, [kind |-> "list_changed"]) /\ server'.work = server.work
    BY <1>0, <1>6 DEF ServerChanges, ServerSends, ServerState
  <2>. QED BY <1>4, <2>1
<1>7. CASE ServerGarbage
  <2>1. fromServer' = Append(fromServer, [kind |-> "garbage"]) /\ server' = server
    BY <1>7 DEF ServerGarbage, ServerSends
  <2>. QED BY <1>4, <2>1
<1>. QED BY <1>2, <1>3, <1>5, <1>6, <1>7 DEF Server

LEMMA ToldNext ==
    ASSUME GatewayType, GenerationsInv, ListsFly, Told, [Next]_vars
    PROVE  Told'
<1>1. CASE MainStep \/ Close \/ Ending \/ (\E k \in Calls : ReceiveCall(k)) \/ (\E k \in Calls : Expire(k))
           \/ WatchStop \/ ReadEnd \/ Drain \/ SendHeld \/ UNCHANGED vars
  <2>. USE DEF MainStep, Authorize, Register, Forward, WriteCall, WriteFails, ReportFailure, WriteList,
               Close, Ending, StopServer, LeaveRun, Exit, ReceiveCall, Expire, WatchStop, ReadEnd,
               Drain, SendHeld, vars, catalog
  <2>1. UNCHANGED <<scans, catalog, fromServer>>
    BY <1>1
  <2>2. reader' = reader \/ (reader'.pc # "check" /\ reader.pc # "changed")
    <3>1. CASE SendHeld
      BY <3>1, SendsOnly
    <3>2. CASE Drain \/ ReadEnd
      BY <3>2
    <3>3. CASE ~SendHeld /\ ~Drain /\ ~ReadEnd
      BY <1>1, <3>3
    <3>. QED BY <3>1, <3>2, <3>3
  <2>3. server' = server \/ server' = Terminated \/ server' = Dead
    BY <1>1
  <2>4. server'.work \subseteq server.work /\ server'.changed = server.changed
    BY <2>3 DEF Terminated, Dead, GatewayType, PipesType, ServerState
  <2>. QED BY <2>1, <2>2, <2>4, ToldQuiet
<1>. QED BY <1>1, ToldList, ToldTake, ToldCheck, ToldDrop, ToldServer DEF Next, Agent, Reader

-----------------------------------------------------------------------------
GatewayInv == GatewayType /\ OneCopy /\ (\A k \in Calls : CallInv(k)) /\ ListInv

LEMMA InvGrounds ==
    ASSUME GatewayInv
    PROVE  Grounded
<1>. SUFFICES ASSUME NEW id \in Requests, Handled(id) PROVE ~Flying(id)
  BY DEF Grounded
<1>1. CASE id \in Calls
  BY <1>1 DEF GatewayInv, CallInv, At, Handled
<1>2. CASE id \in Lists
  <2>1. main.pc = "write"
    BY <1>2, GatewayAssumption
       DEF Handled, Handling, GatewayInv, GatewayType, MainType, GatewayAssumption
  <2>. QED BY <1>2, <2>1 DEF Handled, GatewayInv, ListInv, ListsFly
<1>. QED BY <1>1, <1>2 DEF Requests

LEMMA GatewayInit == Init => GatewayInv
<1>. SUFFICES ASSUME Init PROVE GatewayInv
  OBVIOUS
<1>1. /\ main.pc = "ready" /\ reader.pc = "read" /\ pending = {} /\ expired = {}
      /\ DOMAIN scans = {} /\ generation = 0 /\ trusted = {} /\ cursor = -1
      /\ answers = [k \in Calls |-> {}] /\ Len(toServer) = 0 /\ Len(fromServer) = 0
      /\ server.work = {}
  BY DEF Init, NoGen
<1>2. Held = {} /\ \A id : ~Flying(id) /\ ~InPipe(id) /\ ~InWork(id) /\ ~InAnswer(id)
  BY <1>1 DEF Held, Flying, InPipe, InWork, InAnswer
<1>3. OneCopy
  BY <1>1, <1>2 DEF OneCopy, PipeOnce, WorkOnce, AnswerOnce, OnePlace
<1>4. \A k \in Calls : CallInv(k)
  BY <1>1, <1>2 DEF CallInv, Taken, At, Handling, Refusals, Endings
<1>5. ListInv
  BY <1>1, <1>2 DEF ListInv, GenerationsInv, ListsFly, WorkTold, PagesTold, CheckTold, TrustTold, Outdated
<1>. QED BY <1>3, <1>4, <1>5, GatewayTypeInit DEF GatewayInv

LEMMA OneCopyNext ==
    ASSUME GatewayType, OneCopy, Grounded, [Next]_vars
    PROVE  OneCopy'
<1>1. \E new, gone \in SUBSET Requests : Flight(new, gone)
  <2>1. {} \in SUBSET Requests /\ Landing \in SUBSET Requests
    BY DEF Landing
  <2>2. WriteCall \/ WriteList => {main.req} \in SUBSET Requests
    BY DEF WriteCall, WriteList, Requests
  <2>. QED BY <2>1, <2>2, FlightWrite, FlightTake, FlightServer, FlightQuiet
           DEF Next, Agent, Ending, MainStep, Reader
<1>. QED BY <1>1 DEF Flight

LEMMA GatewayNext == GatewayInv /\ [Next]_vars => GatewayInv'
<1>. SUFFICES ASSUME GatewayInv, [Next]_vars PROVE GatewayInv'
  OBVIOUS
<1>1. GatewayType /\ OneCopy /\ Grounded /\ GenerationsInv /\ ListsFly /\ Told
  BY InvGrounds DEF GatewayInv, ListInv, Told
<1>2. GatewayType'
  BY <1>1, MainTypeNext, ReaderTypeNext, CatalogTypeNext, CallsTypeNext, PipesTypeNext DEF GatewayType
<1>3. OneCopy'
  BY <1>1, OneCopyNext
<1>4. \A k \in Calls : CallInv(k)'
  BY <1>1, CallNext DEF GatewayInv
<1>5. ListInv'
  BY <1>1, GenerationsNext, ListsFlyNext, ToldNext DEF ListInv, Told
<1>. QED BY <1>2, <1>3, <1>4, <1>5 DEF GatewayInv

LEMMA GatewaySafe == Spec => []GatewayInv
BY GatewayInit, GatewayNext, PTL DEF Spec

(* No stale page brings back the trust in a tool that has changed, with any
   number of scans under way (mcp_gateway.py, _validate_tool_catalog). *)
THEOREM StaleTrustIsAnnounced == Spec => []TrustIsCurrent
<1>1. GatewayInv => TrustIsCurrent
  BY DEF GatewayInv, ListInv, TrustTold, Outdated, Announced, TrustIsCurrent
<1>. QED BY <1>1, GatewaySafe, PTL

(* The reader, the timer and the end of the stream never answer one call twice,
   and a refused call never reached the server (mcp_gateway.py, _read_upstream,
   _expired, _forward_upstream). *)
THEOREM CallsEndOnce == Spec => []OneOutcome
<1>1. GatewayInv => OneOutcome
  <2>. SUFFICES ASSUME GatewayInv, NEW k \in Calls
                PROVE  /\ Cardinality(answers[k] \cap {"result", "timeout", "stopped"}) <= 1
                       /\ answers[k] \cap {"denied", "revoked", "unavailable"} # {}
                            => /\ "result" \notin answers[k]
                               /\ \A i \in 1 .. Len(toServer) : toServer[i] # k
                               /\ \A w \in server.work : w.id # k
    BY DEF OneOutcome
  <2>. DEFINE E == answers[k] \cap {"result", "timeout", "stopped"}
  <2>1. \A x, y \in E : x = y
    BY DEF GatewayInv, CallInv, Endings
  <2>2. E = {} \/ \E x : E = {x}
    BY <2>1
  <2>3. Cardinality(E) <= 1
    <3>1. CASE E = {}
      BY <3>1, FS_EmptySet
    <3>2. ASSUME NEW x, E = {x} PROVE Cardinality(E) <= 1
      <4>1. Cardinality({x}) = 1
        BY FS_Singleton
      <4>. QED BY <3>2, <4>1
    <3>. HIDE DEF E
    <3>. QED BY <2>2, <3>1, <3>2
  <2>4. answers[k] \cap Refusals # {} => "result" \notin answers[k] /\ ~Flying(k)
    BY DEF GatewayInv, CallInv
  <2>. QED BY <2>3, <2>4 DEF Refusals, Flying, InPipe, InWork
<1>. QED BY <1>1, GatewaySafe, PTL

-----------------------------------------------------------------------------
\* The lock of the catalog over a write.

WriteTrusted == main.pc = "write" /\ main.req \in Calls => Verified(ToolOf[main.req])

LEMMA WriteTrustedNext == GatewayType /\ WriteTrusted /\ [Next]_vars => WriteTrusted'
<1>. SUFFICES ASSUME GatewayType, WriteTrusted, [Next]_vars PROVE WriteTrusted'
  OBVIOUS
<1>. USE DEF WriteTrusted, Verified
<1>1. CASE UNCHANGED trusted /\ main' = main
  BY <1>1
<1>2. CASE CheckPage \/ DropCatalog
  <2>1. main' = main /\ ~(main.pc = "write" /\ main.req \in Calls)
    BY <1>2 DEF CheckPage, DropCatalog, CatalogLocked
  <2>. QED BY <2>1
<1>3. CASE Forward
  <2>1. CASE main'.pc # "write"
    BY <2>1
  <2>2. CASE main'.pc = "write"
    BY <1>3, <2>2 DEF Forward, GoTo, Ready, GatewayType, MainType, catalog
  <2>. QED BY <2>1, <2>2
<1>4. ASSUME NEW l \in Lists, NEW continues \in BOOLEAN, ReceiveList(l, continues) PROVE WriteTrusted'
  BY <1>4, GatewayAssumption DEF ReceiveList, GatewayAssumption
<1>5. CASE (\E k \in Calls : ReceiveCall(k)) \/ Authorize \/ Register \/ WriteCall \/ WriteFails
           \/ ReportFailure \/ WriteList \/ Close \/ LeaveRun \/ Exit
  <2>1. main'.pc # "write"
    BY <1>5 DEF ReceiveCall, Authorize, Register, WriteCall, WriteFails, ReportFailure, WriteList,
                Close, LeaveRun, Exit, Ready, GoTo, GatewayType, MainType
  <2>. QED BY <2>1
<1>6. CASE (\E k \in Calls : Expire(k)) \/ WatchStop \/ ReadResult \/ ReadPage \/ ReadListChanged
           \/ ReadGarbage \/ ReadEnd \/ Drain \/ SendHeld \/ Server \/ UNCHANGED vars
  BY <1>1, <1>6 DEF Expire, WatchStop, ReadResult, ReadPage, ReadListChanged, ReadGarbage, ReadEnd,
                    Drain, SendHeld, Server, ServerRead, ServerAnswer, ServerChanges, ServerGarbage, ServerDies, ServerClosesInput,
             ServerClosesOutput,
                    catalog, vars
<1>7. CASE StopServer
  <2>1. UNCHANGED trusted /\ (main' = main \/ main'.pc = "leaving")
    BY <1>7 DEF StopServer, GoTo, catalog, GatewayType, MainType
  <2>. QED BY <1>1, <2>1
<1>. QED BY <1>2, <1>3, <1>4, <1>5, <1>6, <1>7 DEF Next, Agent, Ending, MainStep, Reader

(* A call on a pinned tool reaches the pipe only while the tool is trusted,
   however long the write waits (mcp_gateway.py, _forward_upstream). *)
THEOREM WritesAreTrusted == Spec => WrittenUnderTrust
<1>. DEFINE Trusted == \A k \in Calls : toServer' = Append(toServer, k) => Verified(ToolOf[k])
<1>1. Init => WriteTrusted
  BY DEF Init, WriteTrusted
<1>2. GatewayType /\ WriteTrusted /\ [Next]_vars => [Trusted]_vars
  <2>. SUFFICES ASSUME GatewayType, WriteTrusted, [Next]_vars, NEW k \in Calls,
                       toServer' = Append(toServer, k)
                PROVE  Verified(ToolOf[k])
    OBVIOUS
  <2>1. toServer \in Seq(Requests)
    BY DEF GatewayType, PipesType
  <2>2. Len(toServer') = Len(toServer) + 1 /\ toServer'[Len(toServer) + 1] = k /\ Len(toServer) \in Nat
    BY <2>1
  <2>3. toServer' # toServer /\ toServer' # <<>>
    BY <2>1, <2>2
  <2>4. ~ServerRead
    BY <2>1, <2>2 DEF ServerRead
  <2>5. WriteCall \/ WriteList
    BY <2>3, <2>4
       DEF Next, Agent, Ending, MainStep, Reader, Server, vars, Expire, WatchStop, StopServer, LeaveRun, Exit, ReadResult, Authorize,
           Register, Forward, WriteFails, ReportFailure, Close, ReceiveCall, ReceiveList,
           ReadPage, CheckPage, ReadListChanged, DropCatalog, ReadGarbage, ReadEnd, Drain, SendHeld,
           ServerAnswer, ServerChanges, ServerGarbage, ServerDies, ServerClosesInput,
             ServerClosesOutput
  <2>6. toServer' = Append(toServer, main.req) /\ main.pc = "write"
    BY <2>3, <2>5 DEF WriteCall, WriteList
  <2>7. main.req = k
    BY <2>1, <2>2, <2>6
  <2>. QED BY <2>6, <2>7 DEF WriteTrusted
<1>3. GatewayInv => GatewayType
  BY DEF GatewayInv
<1>4. Spec => []WriteTrusted
  BY <1>1, <1>3, GatewaySafe, WriteTrustedNext, PTL DEF Spec
<1>. QED BY <1>2, <1>3, <1>4, GatewaySafe, PTL DEF Spec, WrittenUnderTrust
=============================================================================
