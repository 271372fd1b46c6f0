---------------------------- MODULE BrokerProofs ----------------------------
(***************************************************************************)
(* Proofs about Broker, for any number of brokers, clients and admitted    *)
(* handlers.  Two arguments, and one invariant for each: the lock file     *)
(* serialises the lives of the brokers, from the probe to the unlink; and  *)
(* the slot of a broker names the request whose thread is running.         *)
(***************************************************************************)
EXTENDS Broker, TLAPS

-----------------------------------------------------------------------------
\* The life of the brokers on one path.

\* The phases in which a broker holds the flock.
Holding == {"locked", "probed", "serving", "closing", "unlinked"}

LifeInv ==
    /\ phase \in [Brokers -> Phases]
    /\ \A b \in Brokers : phase[b] \in Holding => lock = b
    /\ \A b \in Brokers : phase[b] = "serving" => path = b

LEMMA LifeInit == Init => LifeInv
BY DEF Init, LifeInv, Phases, Holding

LEMMA LifeNext == LifeInv /\ [Next]_vars => LifeInv'
<1>. SUFFICES ASSUME LifeInv, [Next]_vars PROVE LifeInv'
  OBVIOUS
<1>. USE BrokerAssumption DEF LifeInv, Phases, Holding
<1>1. ASSUME NEW b \in Brokers, Lock(b) PROVE LifeInv'
  BY <1>1 DEF Lock
<1>2. ASSUME NEW b \in Brokers, Probe(b) PROVE LifeInv'
  BY <1>2 DEF Probe
<1>3. ASSUME NEW b \in Brokers, Bind(b) PROVE LifeInv'
  BY <1>3 DEF Bind
<1>4. ASSUME NEW b \in Brokers, StopServing(b) PROVE LifeInv'
  BY <1>4 DEF StopServing
<1>5. ASSUME NEW b \in Brokers, Unlink(b) PROVE LifeInv'
  BY <1>5 DEF Unlink
<1>6. ASSUME NEW b \in Brokers, Release(b) PROVE LifeInv'
  BY <1>6 DEF Release
<1>7. ASSUME NEW b \in Brokers, Exit(b) \/ Crash(b) PROVE LifeInv'
  <2>1. /\ phase' = [phase EXCEPT ![b] = "off"] /\ path' = path
        /\ lock' = IF lock = b THEN Nobody ELSE lock
    BY <1>7 DEF Exit, Crash, Gone
  <2>2. \A x \in Brokers : phase'[x] \in {"locked", "probed", "serving", "closing", "unlinked"}
                            => x # b /\ phase'[x] = phase[x]
    BY <2>1
  <2>. QED BY <2>1, <2>2
<1>8. CASE OtherListens
  BY <1>8 DEF OtherListens
<1>9. ASSUME NEW c \in Clients, Handle(c) \/ Work(c) \/ Client(c) PROVE LifeInv'
  <2>1. UNCHANGED life
    BY <1>9 DEF Handle, Busy, Reject, StartWorker, Resume, Timeout, Cancel, Finish,
                Work, EnterGateway, CallAPI, WorkerEnds, Client, Connect, NoBroker, Receive, GiveUp
  <2>. QED BY <2>1 DEF life
<1>10. CASE UNCHANGED vars
  BY <1>10 DEF vars
<1>. QED BY <1>1, <1>2, <1>3, <1>4, <1>5, <1>6, <1>7, <1>8, <1>9, <1>10 DEF Next, Life

(* The socket of a broker that serves is its own and is under its lock, for any
   number of brokers that start, fail to start, stop and crash
   (broker.py, BrokerServer.run). *)
THEOREM ServerOwnsItsSocket == Spec => []SocketIsServed
<1>1. LifeInv => SocketIsServed
  BY DEF LifeInv, SocketIsServed, Holding
<1>. QED BY <1>1, LifeInit, LifeNext, PTL DEF Spec

-----------------------------------------------------------------------------
\* The worker threads and the slot.

HandlerType ==
    [pc : {"none", "accepted", "waiting", "replying", "closed"}, at : Brokers \cup {Nobody},
     future : {"none", "ok", "bad"}, reply : Replies, api : Int]

SlotInv ==
    /\ handler \in [Clients -> HandlerType]
    /\ worker \in [Clients -> Workers]
    /\ slot \in [Brokers -> Clients \cup {Nobody}]
    /\ count \in [Brokers -> Int]
    /\ \A c \in Clients : handler[c].pc # "none" => handler[c].at \in Brokers
    /\ \A c \in Clients : Running(c) => handler[c].pc # "none"
    /\ \A c \in Clients : Running(c) => slot[handler[c].at] = c

LEMMA SlotInit == Init => SlotInv
BY DEF Init, SlotInv, HandlerType, Workers, Replies, Running

\* A reply changes nothing that the invariant is about but the record's fields.
LEMMA ReplyKeeps ==
    ASSUME SlotInv, NEW c \in Clients, NEW r \in Replies, NEW n \in Int, Reply(c, r, n),
           handler[c].pc # "none", UNCHANGED <<slot, worker, count>>
    PROVE  SlotInv'
<1>1. handler' \in [Clients -> HandlerType]
  <2>. DEFINE new == [handler[c] EXCEPT !.pc = "replying", !.reply = r, !.api = n]
  <2>1. handler[c] \in HandlerType
    BY DEF SlotInv
  <2>2. new \in HandlerType
    BY <2>1 DEF HandlerType
  <2>3. handler' = [handler EXCEPT ![c] = new]
    BY DEF Reply
  <2>. HIDE DEF new
  <2>. QED BY <2>2, <2>3 DEF SlotInv
<1>2. \A d \in Clients : handler'[d].at = handler[d].at /\ (handler'[d].pc = "none" <=> handler[d].pc = "none")
  BY DEF SlotInv, Reply, HandlerType
<1>. QED BY <1>1, <1>2 DEF SlotInv, Running

\* The other steps of a handler that leave its broker, its slot and its thread.
LEMMA PcKeeps ==
    ASSUME SlotInv, NEW c \in Clients, handler[c].pc # "none",
           NEW place \in {"replying", "closed"}, handler' = [handler EXCEPT ![c].pc = place],
           UNCHANGED <<slot, worker, count>>
    PROVE  SlotInv'
<1>1. handler' \in [Clients -> HandlerType]
  <2>. DEFINE new == [handler[c] EXCEPT !.pc = place]
  <2>1. handler[c] \in HandlerType
    BY DEF SlotInv
  <2>2. new \in HandlerType
    BY <2>1 DEF HandlerType
  <2>3. handler' = [handler EXCEPT ![c] = new]
    OBVIOUS
  <2>. HIDE DEF new
  <2>. QED BY <2>2, <2>3 DEF SlotInv
<1>2. \A d \in Clients : handler'[d].at = handler[d].at /\ (handler'[d].pc = "none" <=> handler[d].pc = "none")
  BY DEF SlotInv, HandlerType
<1>. QED BY <1>1, <1>2 DEF SlotInv, Running

LEMMA GoneKeeps ==
    ASSUME SlotInv, NEW b \in Brokers, Gone(b)
    PROVE  SlotInv'
<1>1. handler' \in [Clients -> HandlerType]
  <2>1. ASSUME NEW d \in Clients
        PROVE  [handler[d] EXCEPT !.pc = "closed", !.reply = "none"] \in HandlerType
    <3>1. handler[d] \in HandlerType
      BY DEF SlotInv
    <3>. QED BY <3>1 DEF HandlerType, Replies
  <2>2. handler' = [d \in Clients |-> IF d \in Open(b)
                        THEN [handler[d] EXCEPT !.pc = "closed", !.reply = "none"] ELSE handler[d]]
    BY DEF Gone
  <2>. QED BY <2>1, <2>2 DEF SlotInv
<1>2. \A d \in Clients : handler'[d].at = handler[d].at /\ (handler[d].pc # "none" => handler'[d].pc # "none")
                        /\ (handler[d].pc = "none" => handler'[d] = handler[d])
  BY DEF SlotInv, Gone, HandlerType, Open
<1>3. \A d \in Clients : Running(d)' => Running(d) /\ handler[d].at # b
  BY DEF SlotInv, Gone, Running
<1>4. worker' \in [Clients -> Workers] /\ slot' \in [Brokers -> Clients \cup {Nobody}]
      /\ count' \in [Brokers -> Int]
  <2>1. "none" \in Workers
    BY DEF Workers
  <2>2. worker' \in [Clients -> Workers]
    BY <2>1 DEF SlotInv, Gone
  <2>3. slot' \in [Brokers -> Clients \cup {Nobody}]
    BY DEF SlotInv, Gone
  <2>4. count' \in [Brokers -> Int]
    <3>1. count \in [Brokers -> Int] /\ count' = [count EXCEPT ![b] = 0]
      BY DEF SlotInv, Gone
    <3>. QED BY <3>1
  <2>. QED BY <2>2, <2>3, <2>4
<1>5. \A x \in Brokers : x # b => slot'[x] = slot[x]
  BY DEF SlotInv, Gone
<1>. QED BY <1>1, <1>2, <1>3, <1>4, <1>5 DEF SlotInv

LEMMA SlotNext == SlotInv /\ [Next]_vars => SlotInv'
<1>. SUFFICES ASSUME SlotInv, [Next]_vars PROVE SlotInv'
  OBVIOUS
<1>1. ASSUME NEW b \in Brokers, Life(b) PROVE SlotInv'
  <2>1. CASE UNCHANGED service
    BY <2>1 DEF service, SlotInv, Running
  <2>2. CASE Gone(b)
    BY <2>2, GoneKeeps
  <2>. QED BY <1>1, <2>1, <2>2
           DEF Life, Lock, Probe, Bind, StopServing, Unlink, Release, Exit, Crash
<1>2. CASE OtherListens
  BY <1>2 DEF OtherListens, service, SlotInv, Running
<1>3. ASSUME NEW c \in Clients, Busy(c) \/ Reject(c) \/ Resume(c) \/ Timeout(c) \/ Cancel(c)
      PROVE  SlotInv'
  <2>1. UNCHANGED <<slot, worker, count>> /\ handler[c].pc # "none"
    BY <1>3 DEF Busy, Reject, Resume, Timeout, Cancel
  <2>2. count[handler[c].at] \in Int
    BY <2>1 DEF SlotInv
  <2>3. \E r \in Replies, n \in Int : Reply(c, r, n)
    BY <1>3, <2>2 DEF Busy, Reject, Resume, Timeout, Cancel, Replies
  <2>. QED BY <2>1, <2>3, ReplyKeeps
<1>4. ASSUME NEW c \in Clients, Finish(c) PROVE SlotInv'
  BY <1>4, PcKeeps DEF Finish
<1>5. ASSUME NEW c \in Clients, StartWorker(c) PROVE SlotInv'
  <2>. DEFINE b == handler[c].at
  <2>1. /\ handler[c].pc = "accepted" /\ b \in Brokers /\ slot[b] = Nobody
        /\ slot' = [slot EXCEPT ![b] = c] /\ worker' = [worker EXCEPT ![c] = "started"]
        /\ handler' = [handler EXCEPT ![c].pc = "waiting"] /\ count' = count
    BY <1>5 DEF StartWorker, SlotInv
  <2>2. handler' \in [Clients -> HandlerType]
    <3>. DEFINE new == [handler[c] EXCEPT !.pc = "waiting"]
    <3>1. handler[c] \in HandlerType
      BY DEF SlotInv
    <3>2. new \in HandlerType
      BY <3>1 DEF HandlerType
    <3>3. handler' = [handler EXCEPT ![c] = new]
      BY <2>1
    <3>. HIDE DEF new
    <3>. QED BY <3>2, <3>3 DEF SlotInv
  <2>3. \A d \in Clients : handler'[d].at = handler[d].at /\ (handler[d].pc # "none" => handler'[d].pc # "none")
    BY <2>1 DEF SlotInv, HandlerType
  <2>4. handler'[c].pc = "waiting" /\ slot'[b] = c
    BY <2>1 DEF SlotInv, HandlerType
  <2>5. ASSUME NEW d \in Clients, d # c, Running(d)' PROVE slot'[handler[d].at] = d
    <3>1. Running(d) /\ slot[handler[d].at] = d /\ handler[d].at \in Brokers
      BY <2>1, <2>5 DEF SlotInv, Running
    <3>2. handler[d].at # b
      BY <2>1, <3>1, BrokerAssumption
    <3>. QED BY <2>1, <3>1, <3>2 DEF SlotInv
  <2>6. worker' \in [Clients -> Workers] /\ slot' \in [Brokers -> Clients \cup {Nobody}]
    BY <2>1 DEF SlotInv, Workers
  <2>7. \A d \in Clients : d # c /\ Running(d)' => Running(d)
    BY <2>1 DEF SlotInv, Running
  <2>. QED BY <2>1, <2>2, <2>3, <2>4, <2>5, <2>6, <2>7 DEF SlotInv
<1>6. ASSUME NEW c \in Clients, Work(c) PROVE SlotInv'
  <2>1. CASE EnterGateway(c)
    BY <2>1 DEF EnterGateway, SlotInv, Running, Workers
  <2>2. CASE CallAPI(c)
    BY <2>2 DEF CallAPI, SlotInv, Running, Workers
  <2>3. CASE WorkerEnds(c)
    <3>. DEFINE b == handler[c].at
    <3>1. /\ Running(c) /\ b \in Brokers /\ slot[b] = c /\ count' = count
          /\ slot' = [slot EXCEPT ![b] = Nobody] /\ worker' = [worker EXCEPT ![c] = "none"]
      BY <2>3 DEF WorkerEnds, SlotInv
    <3>2. PICK value \in {"bad", "ok"} :
            handler' = [handler EXCEPT ![c].future = IF handler[c].pc = "waiting" THEN value ELSE @]
      BY <2>3 DEF WorkerEnds
    <3>3. handler' \in [Clients -> HandlerType]
      <4>. DEFINE new == [handler[c] EXCEPT !.future = IF handler[c].pc = "waiting" THEN value ELSE @]
      <4>1. handler[c] \in HandlerType
        BY DEF SlotInv
      <4>2. new \in HandlerType
        BY <4>1 DEF HandlerType
      <4>3. handler' = [handler EXCEPT ![c] = new]
        BY <3>2
      <4>. HIDE DEF new
      <4>. QED BY <4>2, <4>3 DEF SlotInv
    <3>4. \A d \in Clients : handler'[d].at = handler[d].at /\ handler'[d].pc = handler[d].pc
      BY <3>2 DEF SlotInv, HandlerType
    <3>5. \A d \in Clients : Running(d)' => d # c /\ Running(d)
      BY <3>1 DEF SlotInv, Running
    <3>6. worker' \in [Clients -> Workers] /\ slot' \in [Brokers -> Clients \cup {Nobody}]
      BY <3>1 DEF SlotInv, Workers
    <3>7. ASSUME NEW d \in Clients, Running(d)' PROVE slot'[handler[d].at] = d
      <4>1. d # c /\ slot[handler[d].at] = d /\ handler[d].at \in Brokers
        BY <3>5, <3>7 DEF SlotInv
      <4>2. handler[d].at # b
        BY <3>1, <4>1
      <4>. QED BY <3>1, <4>1, <4>2 DEF SlotInv
    <3>. QED BY <3>1, <3>3, <3>4, <3>5, <3>6, <3>7 DEF SlotInv
  <2>. QED BY <1>6, <2>1, <2>2, <2>3 DEF Work
<1>7. ASSUME NEW c \in Clients, Connect(c) PROVE SlotInv'
  <2>. DEFINE answer == IF clients[path] < MaxClients THEN "accepted" ELSE "replying"
              said == IF clients[path] < MaxClients THEN "none" ELSE "busy"
  <2>1. /\ path \in Brokers /\ handler[c].pc = "none"
        /\ handler' = [handler EXCEPT ![c] = [@ EXCEPT !.at = path, !.pc = answer, !.reply = said]]
        /\ UNCHANGED <<slot, worker, count>>
    BY <1>7 DEF Connect
  <2>6. answer \in {"accepted", "replying"} /\ said \in Replies
    BY DEF Replies
  <2>. HIDE DEF answer, said
  <2>2. handler' \in [Clients -> HandlerType]
    <3>. DEFINE new == [handler[c] EXCEPT !.at = path, !.pc = answer, !.reply = said]
    <3>1. handler[c] \in HandlerType
      BY DEF SlotInv
    <3>2. new \in HandlerType
      BY <2>1, <2>6, <3>1 DEF HandlerType
    <3>3. handler' = [handler EXCEPT ![c] = new]
      BY <2>1
    <3>. HIDE DEF new
    <3>. QED BY <3>2, <3>3 DEF SlotInv
  <2>3. handler'[c].pc \in {"accepted", "replying"} /\ handler'[c].at = path
    BY <2>1, <2>6 DEF SlotInv, HandlerType
  <2>4. \A d \in Clients : d # c => handler'[d] = handler[d]
    BY <2>1 DEF SlotInv
  <2>5. ~Running(c) /\ \A d \in Clients : Running(d)' <=> Running(d)
    BY <2>1 DEF SlotInv, Running
  <2>. QED BY <2>1, <2>2, <2>3, <2>4, <2>5 DEF SlotInv
<1>8. ASSUME NEW c \in Clients, NoBroker(c) \/ Receive(c) \/ GiveUp(c) PROVE SlotInv'
  BY <1>8 DEF NoBroker, Receive, GiveUp, service, SlotInv, Running
<1>9. CASE UNCHANGED vars
  BY <1>9 DEF vars, SlotInv, Running
<1>. QED BY <1>1, <1>2, <1>3, <1>4, <1>5, <1>6, <1>7, <1>8, <1>9 DEF Next, Handle, Client

(* A worker thread that runs holds the slot of its broker, so a broker never
   has two, however many requests have timed out
   (broker.py, BrokerServer.evaluate). *)
THEOREM SlotNamesTheWorker == Spec => []OneWorker
<1>1. SlotInv => OneWorker
  BY DEF SlotInv, OneWorker
<1>. QED BY <1>1, SlotInit, SlotNext, PTL DEF Spec
=============================================================================
