------------------------------- MODULE Broker -------------------------------
(***************************************************************************)
(* The host broker: `jrx broker run' owns a Unix socket and the only       *)
(* worker that calls the semantic API; checks, hooks and execs are its     *)
(* clients.  Each broker is an asyncio loop (run, handle, evaluate) plus   *)
(* one worker thread, and brokers follow each other on one socket path     *)
(* under a lock file.  A client that gets no live signals is degraded.     *)
(***************************************************************************)
EXTENDS Integers, FiniteSets

CONSTANTS
    Brokers,      \* processes that are started on the same socket path
    Clients,      \* evaluate requests; health and stop requests never wait
    MaxClients    \* handlers admitted at a time: 16 in the code

VARIABLES
    phase,     \* run() of each broker
    lock,      \* who holds the flock of the lock file
    path,      \* whose socket the path names
    clients,   \* self.clients
    slot,      \* self.worker_lock: the request it was acquired for
    worker,    \* the worker threads: where each request's thread is
    count,     \* evaluator.gateway.last_api_requests
    handler,   \* the handle() of each request and the future it waits for
    result     \* what each client ends up with

vars == <<phase, lock, path, clients, slot, worker, count, handler, result>>
life == <<phase, lock, path>>
service == <<clients, slot, worker, count, handler>>

Nobody == "nobody"
Other == "other"      \* a listener that is not one of the brokers
Unknown == -1         \* last_api_requests is None

ASSUME BrokerAssumption ==
    /\ MaxClients \in Nat \ {0} /\ IsFiniteSet(Clients)
    /\ {Nobody, Other} \cap Brokers = {} /\ Nobody \notin Clients

Phases == {"off", "locked", "probed", "serving", "closing", "unlinked", "ending"}
Workers == {"none", "started", "entered", "called"}
Replies == {"none", "ok", "busy", "timeout", "unavailable"}

Init ==
    /\ phase = [b \in Brokers |-> "off"]
    /\ lock = Nobody
    /\ path \in {Nobody, Other}
    /\ clients = [b \in Brokers |-> 0]
    /\ slot = [b \in Brokers |-> Nobody]
    /\ worker = [c \in Clients |-> "none"]
    /\ count = [b \in Brokers |-> 0]
    /\ handler = [c \in Clients |-> [pc |-> "none", at |-> Nobody, future |-> "none",
                                     reply |-> "none", api |-> 0]]
    /\ result = [c \in Clients |-> [signals |-> "none", api |-> 0]]

-----------------------------------------------------------------------------
(* run(): the life of a broker. *)

(* Requests whose handle() is running on b. *)
Open(b) == {c \in Clients : handler[c].at = b /\ handler[c].pc \in {"accepted", "waiting", "replying"}}

Alive(b) == phase[b] # "off"

(* flock(LOCK_EX | LOCK_NB): a second broker gives up here. *)
Lock(b) ==
    /\ phase[b] = "off" /\ lock = Nobody
    /\ lock' = b
    /\ phase' = [phase EXCEPT ![b] = "locked"]
    /\ UNCHANGED <<path, service, result>>

Listening(p) == p = Other \/ (p \in Brokers /\ phase[p] = "serving")

(* A socket nobody listens on is removed; a listener makes the start fail. *)
Probe(b) ==
    /\ phase[b] = "locked"
    /\ IF path # Nobody /\ Listening(path)
         THEN /\ phase' = [phase EXCEPT ![b] = "off"]
              /\ lock' = Nobody
              /\ UNCHANGED path
         ELSE /\ phase' = [phase EXCEPT ![b] = "probed"]
              /\ path' = Nobody
              /\ UNCHANGED lock
    /\ UNCHANGED <<service, result>>

(* start_unix_server replaces whatever socket the path names by now. *)
Bind(b) ==
    /\ phase[b] = "probed"
    /\ path' = b
    /\ phase' = [phase EXCEPT ![b] = "serving"]
    /\ UNCHANGED <<lock, service, result>>

(* Mutant of StopServing: the lock is given back before the unlink. *)
StopAndRelease(b) ==
    /\ phase[b] = "serving"
    /\ phase' = [phase EXCEPT ![b] = "closing"]
    /\ lock' = Nobody
    /\ UNCHANGED <<path, service, result>>

(* A stop request or a signal sets stop_event and the server is closed. *)
StopServing(b) ==
    /\ phase[b] = "serving"
    /\ phase' = [phase EXCEPT ![b] = "closing"]
    /\ UNCHANGED <<lock, path, service, result>>

(* finally: path.unlink(missing_ok=True) ... *)
Unlink(b) ==
    /\ phase[b] = "closing"
    /\ path' = Nobody
    /\ phase' = [phase EXCEPT ![b] = "unlinked"]
    /\ UNCHANGED <<lock, service, result>>

(* A process that ends takes its loop, its threads and its flock with it. *)
Gone(b) ==
    /\ phase' = [phase EXCEPT ![b] = "off"]
    /\ lock' = IF lock = b THEN Nobody ELSE lock
    /\ clients' = [clients EXCEPT ![b] = 0]
    /\ slot' = [slot EXCEPT ![b] = Nobody]
    /\ count' = [count EXCEPT ![b] = 0]
    /\ worker' = [c \in Clients |-> IF handler[c].at = b THEN "none" ELSE worker[c]]
    /\ handler' = [c \in Clients |-> IF c \in Open(b)
                                       THEN [handler[c] EXCEPT !.pc = "closed", !.reply = "none"]
                                       ELSE handler[c]]

(* ... then os.close(lock_fd) ... *)
Release(b) ==
    /\ phase[b] = "unlinked"
    /\ lock' = Nobody
    /\ phase' = [phase EXCEPT ![b] = "ending"]
    /\ UNCHANGED <<path, service, result>>

(* ... and asyncio.run cancels what is left before the process ends. *)
Exit(b) == phase[b] = "ending" /\ Gone(b) /\ UNCHANGED <<path, result>>

Crash(b) == Alive(b) /\ Gone(b) /\ UNCHANGED <<path, result>>

(* A program that knows nothing of the lock file listens on the free path. *)
OtherListens ==
    /\ path = Nobody
    /\ path' = Other
    /\ UNCHANGED <<phase, lock, service, result>>

-----------------------------------------------------------------------------
(* handle() and evaluate() on the event loop. *)

Reply(c, reply, more) ==
    handler' = [handler EXCEPT ![c] = [@ EXCEPT !.pc = "replying", !.reply = reply, !.api = more]]

(* The client connects; handle() counts it, and is BUSY with too many before *)
(* it reads anything.                                                        *)
Connect(c) ==
    LET admitted == clients[path] < MaxClients IN
    /\ handler[c].pc = "none" /\ result[c].signals = "none"
    /\ path \in Brokers /\ Listening(path)
    /\ clients' = [clients EXCEPT ![path] = @ + 1]
    /\ handler' = [handler EXCEPT ![c] = [@ EXCEPT !.at = path,
                                        !.pc = IF admitted THEN "accepted" ELSE "replying",
                                        !.reply = IF admitted THEN "none" ELSE "busy"]]
    /\ UNCHANGED <<life, slot, worker, count, result>>

(* A worker is running: BUSY as well, no API request made. *)
Busy(c) ==
    /\ handler[c].pc = "accepted" /\ slot[handler[c].at] # Nobody
    /\ Reply(c, "busy", 0)
    /\ UNCHANGED <<life, clients, slot, worker, count, result>>

(* The message is too large, malformed or of another version. *)
Reject(c) ==
    /\ handler[c].pc = "accepted"
    /\ Reply(c, "unavailable", 0)
    /\ UNCHANGED <<life, clients, slot, worker, count, result>>

(* evaluate() takes the slot and starts the worker thread. *)
StartWorker(c) ==
    LET b == handler[c].at IN
    /\ handler[c].pc = "accepted"
    /\ slot[b] = Nobody
    /\ slot' = [slot EXCEPT ![b] = c]
    /\ worker' = [worker EXCEPT ![c] = "started"]
    /\ handler' = [handler EXCEPT ![c].pc = "waiting"]
    /\ UNCHANGED <<life, clients, count, result>>

(* The worker has delivered; the handler reads the count only now. *)
Resume(c) ==
    /\ handler[c].pc = "waiting" /\ handler[c].future # "none"
    /\ Reply(c, IF handler[c].future = "ok" THEN "ok" ELSE "unavailable", count[handler[c].at])
    /\ UNCHANGED <<life, clients, slot, worker, count, result>>

(* Mutant of Timeout: the slot is released with the thread still running. *)
TimeoutReleases(c) ==
    /\ handler[c].pc = "waiting"
    /\ Reply(c, "timeout", count[handler[c].at])
    /\ slot' = [slot EXCEPT ![handler[c].at] = Nobody]
    /\ UNCHANGED <<life, clients, worker, count, result>>

(* Mutant of Timeout: the future is awaited without a limit. *)
TimeoutNever(c) == FALSE

(* wait_for gives up after api_timeout; the thread goes on in its slot. *)
Timeout(c) ==
    /\ handler[c].pc = "waiting"
    /\ Reply(c, "timeout", count[handler[c].at])
    /\ UNCHANGED <<life, clients, slot, worker, count, result>>

(* The task is cancelled at the end of the loop: a reply without a status. *)
Cancel(c) ==
    LET b == handler[c].at IN
    /\ handler[c].pc \in {"accepted", "waiting"} /\ phase[b] = "ending"
    /\ Reply(c, "unavailable", IF handler[c].pc = "waiting" THEN count[b] ELSE 0)
    /\ UNCHANGED <<life, clients, slot, worker, count, result>>

(* finally: the reply is written, the connection closed, the count undone. *)
Finish(c) ==
    LET b == handler[c].at IN
    /\ handler[c].pc = "replying"
    /\ handler' = [handler EXCEPT ![c].pc = "closed"]
    /\ clients' = [clients EXCEPT ![b] = @ - 1]
    /\ UNCHANGED <<life, slot, worker, count, result>>

-----------------------------------------------------------------------------
(* The worker thread: JEVSemanticEvaluator over TypeSafeIntegration. *)

Running(c) == worker[c] # "none"

(* system_one resets the gateway's count once redaction has succeeded ... *)
EnterGateway(c) ==
    /\ worker[c] = "started"
    /\ worker' = [worker EXCEPT ![c] = "entered"]
    /\ count' = [count EXCEPT ![handler[c].at] = 0]
    /\ UNCHANGED <<life, clients, slot, handler, result>>

(* ... and sets it when a key and a client are there and the call is made. *)
CallAPI(c) ==
    /\ worker[c] = "entered"
    /\ worker' = [worker EXCEPT ![c] = "called"]
    /\ count' = [count EXCEPT ![handler[c].at] = 1]
    /\ UNCHANGED <<life, clients, slot, handler, result>>

(* The slot is released first, then the value is delivered, unless the *)
(* handler has given up.                                               *)
WorkerEnds(c) ==
    LET b == handler[c].at IN
    /\ Running(c)
    /\ slot' = [slot EXCEPT ![b] = Nobody]
    /\ worker' = [worker EXCEPT ![c] = "none"]
    /\ \E value \in {"bad"} \cup (IF worker[c] = "called" THEN {"ok"} ELSE {}) :
         handler' = [handler EXCEPT ![c].future = IF handler[c].pc = "waiting" THEN value ELSE @]
    /\ UNCHANGED <<life, clients, count, result>>

-----------------------------------------------------------------------------
(* BrokerClient.evaluate. *)

End(c, signals, api) == result' = [result EXCEPT ![c] = [signals |-> signals, api |-> api]]

(* The socket is missing, unsafe, refuses, or is not a broker's. *)
NoBroker(c) ==
    /\ handler[c].pc = "none" /\ result[c].signals = "none"
    /\ End(c, "degraded", 0)
    /\ UNCHANGED <<life, service>>

(* The reply arrives with its request count. *)
Receive(c) ==
    /\ handler[c].pc = "closed" /\ handler[c].reply # "none" /\ result[c].signals = "none"
    /\ End(c, IF handler[c].reply = "ok" THEN "live" ELSE "degraded", handler[c].api)
    /\ UNCHANGED <<life, service>>

(* request_timeout passes or the connection breaks: the count is unknown. *)
GiveUp(c) ==
    /\ handler[c].pc # "none" /\ result[c].signals = "none"
    /\ End(c, "degraded", Unknown)
    /\ UNCHANGED <<life, service>>

-----------------------------------------------------------------------------
Life(b) == Lock(b) \/ Probe(b) \/ Bind(b) \/ StopServing(b) \/ Unlink(b) \/ Release(b) \/ Exit(b) \/ Crash(b)
Handle(c) == Busy(c) \/ Reject(c) \/ StartWorker(c) \/ Resume(c) \/ Timeout(c)
             \/ Cancel(c) \/ Finish(c)
Work(c) == EnterGateway(c) \/ CallAPI(c) \/ WorkerEnds(c)
Client(c) == Connect(c) \/ NoBroker(c) \/ Receive(c) \/ GiveUp(c)

Next ==
    \/ \E b \in Brokers : Life(b)
    \/ OtherListens
    \/ \E c \in Clients : Handle(c) \/ Work(c) \/ Client(c)

(* The event loop serves every ready handler and its wait_for fires; a      *)
(* client waits no longer than request_timeout.  The worker may never end.  *)
Fairness == \A c \in Clients : WF_vars(Handle(c)) /\ WF_vars(Client(c))

Spec == Init /\ [][Next]_vars /\ Fairness

-----------------------------------------------------------------------------
(* Properties. *)

(* A broker that serves owns the path: no broker that starts, fails to      *)
(* start, stops or crashes ever removes or replaces its socket.             *)
SocketIsServed == \A b \in Brokers : phase[b] = "serving" => path = b /\ lock = b

(* Timed-out evaluations do not pile up: one worker thread per broker, and  *)
(* as long as it runs it holds the slot.                                    *)
OneWorker ==
    \A c \in Clients : Running(c) => slot[handler[c].at] = c

(* With a worker that never returns, a broker that dies or no broker at     *)
(* all, every request ends and leaves no handler behind.                    *)
EveryRequestEnds ==
    \A c \in Clients : <>[](result[c].signals # "none" /\ handler[c].pc \in {"none", "closed"})
=============================================================================
