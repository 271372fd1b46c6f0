----------------------------- MODULE MCPGateway -----------------------------
(***************************************************************************)
(* `jrx mcp serve': the stdio gateway between one agent and one upstream   *)
(* MCP server.  Three kinds of threads share its state: the main thread    *)
(* (run, _handle) reads the agent, the reader thread (_read_upstream)      *)
(* reads the server, and a timer thread per forwarded call (_expired).     *)
(* The server itself is external: it may read, answer in any order, change *)
(* its catalog, write garbage, close one end of its pipes and live on,     *)
(* hang or die.                                                            *)
(***************************************************************************)
EXTENDS Integers, Sequences, FiniteSets

CONSTANTS
    Calls,       \* ids of tools/call requests, each used once by the agent
    Lists,       \* ids of tools/list requests
    Pinned,      \* tools whose rule has expected_input_schema_sha256
    ToolOf,      \* the tool each call names
    InRoom,      \* bound: requests the server's stdin pipe holds
    OutRoom,     \* bound: messages the server's stdout pipe holds
    MaxScans,    \* bound: the agent starts no scan from this generation on
    MaxChanges   \* bound: schema changes the server makes

ASSUME GatewayAssumption ==
    /\ Calls \cap Lists = {} /\ Pinned # {} /\ "none" \notin Calls \cup Lists
    /\ InRoom \in Nat \ {0} /\ OutRoom \in Nat \ {0}
    /\ MaxScans \in Nat /\ MaxChanges \in Nat

VARIABLES
    main,        \* the main thread: where it is and the request it handles
    reader,      \* the reader thread: where it is and the message it handles
    pending,     \* _pending: forwarded calls whose timer runs
    expired,     \* _expired_ids
    scans,       \* _catalog_requests: generation of each outstanding tools/list
    generation,  \* _catalog_generation
    trusted,     \* _validated_schemas
    cursor,      \* _catalog_cursors of the one continuation cursor
    answers,     \* what the agent received for each call
    toServer, fromServer,   \* the two pipes
    server       \* external: status, open ends, schemas as they are now, work, changes

vars == <<main, reader, pending, expired, scans, generation, trusted, cursor,
          answers, toServer, fromServer, server>>

catalog == <<generation, trusted, cursor>>

NoGen == -1      \* None: an unknown cursor
NoRequest == "none"

Page == [kind : {"page"}, id : Lists, shown : SUBSET Pinned, good : SUBSET Pinned, more : BOOLEAN]
Message == Page \cup [kind : {"result"}, id : Calls] \cup [kind : {"list_changed", "garbage"}]

Outcomes == {"denied", "revoked", "unavailable", "timeout", "stopped", "result"}

Work == [id : Calls \cup Lists, good : SUBSET Pinned]

Init ==
    /\ main = [pc |-> "ready", req |-> NoRequest]
    /\ reader = [pc |-> "read"]
    /\ pending = {} /\ expired = {}
    /\ scans = <<>>
    /\ generation = 0 /\ trusted = {} /\ cursor = NoGen
    /\ answers = [k \in Calls |-> {}]
    /\ toServer = <<>> /\ fromServer = <<>>
    /\ \E changed \in SUBSET Pinned :
         server = [status |-> "up", reads |-> TRUE, writes |-> TRUE,
                   changed |-> changed, work |-> {}, changes |-> 0]

-----------------------------------------------------------------------------
(* Helpers. *)

Up == server.status # "down"

(* With the server its ends of the pipes are gone: a write to its stdin    *)
(* fails at once, and its output comes to an end.  A live server may close *)
(* either itself.                                                          *)
Dead == [server EXCEPT !.status = "down", !.reads = FALSE, !.writes = FALSE, !.work = {}]

Broken == ~server.reads

(* What the reader has taken from _pending, its timer cancelled, and has   *)
(* not sent yet.                                                           *)
Held == IF reader.pc \in {"result", "stopped"} THEN reader.calls ELSE {}

(* process.terminate() *)
Terminated == [server EXCEPT !.status = IF @ = "up" THEN "stopping" ELSE @]

Answer(k, outcome) == answers' = [answers EXCEPT ![k] = @ \cup {outcome}]

(* Mutant of CatalogLocked: the lock is released before the write. *)
CheckedThenReleased == FALSE

(* The main thread holds _catalog_lock from the check of a call to the end *)
(* of its write; every other section under that lock is a single step.     *)
CatalogLocked == main.pc = "write" /\ main.req \in Calls

(* _invalidate_catalog_locked *)
Invalidate == generation' = generation + 1 /\ trusted' = {} /\ cursor' = NoGen

(* _schema_is_verified *)
Verified(tool) == tool \in Pinned => tool \in trusted

Ready == main' = [pc |-> "ready", req |-> NoRequest]
GoTo(pc) == main' = [main EXCEPT !.pc = pc]

Without(f, id) == [x \in DOMAIN f \ {id} |-> f[x]]

-----------------------------------------------------------------------------
(* The main thread: run, _handle, _forward_upstream. *)

(* The agent's next line is a tools/call. *)
ReceiveCall(k) ==
    /\ main.pc = "ready" /\ answers[k] = {} /\ k \notin pending \cup Held
    /\ main' = [pc |-> "authorize", req |-> k]
    /\ UNCHANGED <<reader, pending, expired, scans, catalog, answers, toServer, fromServer, server>>

(* _authorize_tool: the schema check comes first, then the policy decides. *)
Authorize ==
    /\ main.pc = "authorize"
    /\ \/ Verified(ToolOf[main.req]) /\ GoTo("register") /\ UNCHANGED answers
       \/ Answer(main.req, "denied") /\ Ready
    /\ UNCHANGED <<reader, pending, expired, scans, catalog, toServer, fromServer, server>>

(* The call becomes pending and its timer starts, before it is forwarded. *)
Register ==
    /\ main.pc = "register"
    /\ pending' = pending \cup {main.req}
    /\ GoTo("forward")
    /\ UNCHANGED <<reader, expired, scans, catalog, answers, toServer, fromServer, server>>

(* Under _catalog_lock: the pin is checked again, the evaluation took long, *)
(* and then check_liveness, which may raise.                                *)
Forward ==
    /\ main.pc = "forward"
    /\ IF Verified(ToolOf[main.req])
         THEN (GoTo("write") \/ GoTo("failed")) /\ UNCHANGED <<pending, answers>>
         ELSE /\ pending' = pending \ {main.req}
              /\ Answer(main.req, "revoked")
              /\ Ready
    /\ UNCHANGED <<reader, expired, scans, catalog, toServer, fromServer, server>>

(* process.stdin.write blocks while the pipe is full. *)
WriteCall ==
    /\ main.pc = "write" /\ main.req \in Calls
    /\ ~Broken /\ Len(toServer) < InRoom
    /\ toServer' = Append(toServer, main.req)
    /\ Ready
    /\ UNCHANGED <<reader, pending, expired, scans, catalog, answers, fromServer, server>>

(* ValueError or BrokenPipeError: the lock is released ... *)
WriteFails ==
    /\ main.pc = "write" /\ main.req \in Calls
    /\ Broken
    /\ GoTo("failed")
    /\ UNCHANGED <<reader, pending, expired, scans, catalog, answers, toServer, fromServer, server>>

(* ... and the error is answered, whoever has taken the call from _pending. *)
ReportFailure ==
    /\ main.pc = "failed"
    /\ pending' = pending \ {main.req}
    /\ Answer(main.req, "unavailable")
    /\ Ready
    /\ UNCHANGED <<reader, expired, scans, catalog, toServer, fromServer, server>>

(* tools/list without a cursor starts a scan; with one, it continues a scan *)
(* of the generation that issued the cursor.                                *)
ReceiveList(l, continues) ==
    /\ main.pc = "ready" /\ l \notin DOMAIN scans
    /\ IF continues
         THEN /\ scans' = [x \in DOMAIN scans \cup {l} |-> IF x = l THEN cursor ELSE scans[x]]
              /\ UNCHANGED catalog
         ELSE /\ generation < MaxScans
              /\ Invalidate
              /\ scans' = [x \in DOMAIN scans \cup {l} |-> IF x = l THEN generation' ELSE scans[x]]
    /\ main' = [pc |-> "write", req |-> l]
    /\ UNCHANGED <<reader, pending, expired, answers, toServer, fromServer, server>>

(* A list is forwarded without _catalog_lock, a timer or a try: when the   *)
(* write fails the exception leaves run().                                  *)
WriteList ==
    /\ main.pc = "write" /\ main.req \in Lists
    /\ \/ /\ ~Broken /\ Len(toServer) < InRoom
          /\ toServer' = Append(toServer, main.req)
          /\ Ready
       \/ Broken /\ GoTo("leaving") /\ UNCHANGED toServer
    /\ UNCHANGED <<reader, pending, expired, scans, catalog, answers, fromServer, server>>

(* The agent closes the gateway's stdin.  run() closes the server's, which  *)
(* raises when an earlier write has left its bytes in the buffer ...        *)
Close ==
    /\ main.pc = "ready"
    /\ \/ main' = [pc |-> "closing", req |-> NoRequest]
       \/ Broken /\ main' = [pc |-> "leaving", req |-> NoRequest]
    /\ UNCHANGED <<reader, pending, expired, scans, catalog, answers, toServer, fromServer, server>>

(* ... and waits for the server, terminates it, kills it. *)
StopServer ==
    /\ main.pc = "closing"
    /\ \/ server.status = "up" /\ server' = Terminated /\ UNCHANGED <<main, toServer>>
       \/ server.status = "stopping" /\ server' = Dead /\ toServer' = <<>> /\ UNCHANGED main
       \/ ~Up /\ GoTo("leaving") /\ UNCHANGED <<server, toServer>>
    /\ UNCHANGED <<reader, pending, expired, scans, catalog, answers, fromServer>>

(* Popen.__exit__ closes the stream the reader reads, once it has the lock  *)
(* the reader holds in readline, and waits for the server without a limit.  *)
LeaveRun ==
    /\ \/ main.pc = "leaving" /\ GoTo("closed")
       \/ main.pc = "closed" /\ ~Up /\ GoTo("ended")
    /\ UNCHANGED <<reader, pending, expired, scans, catalog, answers, toServer, fromServer, server>>

(* The interpreter exits once the timer threads have ended: a call in       *)
(* _pending has a timer that runs.  The reader is a daemon thread: it is    *)
(* cut off, whatever it holds.                                              *)
Exit ==
    /\ main.pc = "ended" /\ pending = {}
    /\ GoTo("exited")
    /\ UNCHANGED <<reader, pending, expired, scans, catalog, answers, toServer, fromServer, server>>

-----------------------------------------------------------------------------
(* The timer threads and the session watcher. *)

(* Mutant of Expire: the server is left running. *)
ExpireOnly(k) ==
    /\ k \in pending
    /\ pending' = pending \ {k} /\ expired' = expired \cup {k}
    /\ Answer(k, "timeout")
    /\ UNCHANGED <<main, reader, scans, catalog, toServer, fromServer, server>>

(* _expired: the call is taken from _pending, answered, the server stopped. *)
Expire(k) ==
    /\ k \in pending
    /\ pending' = pending \ {k}
    /\ expired' = expired \cup {k}
    /\ Answer(k, "timeout")
    /\ server' = Terminated
    /\ UNCHANGED <<main, reader, scans, catalog, toServer, fromServer>>

(* watch_stop: an administrator stopped the session. *)
WatchStop ==
    /\ server.status = "up"
    /\ server' = Terminated
    /\ UNCHANGED <<main, reader, pending, expired, scans, catalog, answers, toServer, fromServer>>

-----------------------------------------------------------------------------
(* The reader thread. *)

(* The reader in readline, of a stream run() has not closed. *)
Reading == reader.pc = "read" /\ main.pc \notin {"closed", "ended"}

(* Mutant of ReadResult: a late result is passed on. *)
ReadResultLate ==
    /\ Reading /\ fromServer # <<>> /\ Head(fromServer).kind = "result"
    /\ pending' = pending \ {Head(fromServer).id}
    /\ reader' = [pc |-> "result", calls |-> {Head(fromServer).id}]
    /\ fromServer' = Tail(fromServer)
    /\ UNCHANGED <<main, expired, scans, catalog, answers, toServer, server>>

(* A result is dropped when its call has expired; otherwise the call is     *)
(* taken from _pending, and its timer cancelled ...                         *)
ReadResult ==
    /\ Reading /\ fromServer # <<>>
    /\ LET msg == Head(fromServer) IN
       /\ msg.kind = "result"
       /\ pending' = pending \ {msg.id}
       /\ expired' = expired \ {msg.id}
       /\ reader' = IF msg.id \notin pending /\ msg.id \in expired
                      THEN reader
                      ELSE [pc |-> "result", calls |-> {msg.id}]
    /\ fromServer' = Tail(fromServer)
    /\ UNCHANGED <<main, scans, catalog, answers, toServer, server>>

(* ... before the result is sent, or the end of the stream is reported.     *)
SendHeld ==
    /\ reader.pc \in {"result", "stopped"}
    /\ \E k \in reader.calls :
         /\ Answer(k, reader.pc)
         /\ reader' = IF reader.calls # {k} THEN [reader EXCEPT !.calls = @ \ {k}]
                      ELSE [pc |-> IF reader.pc = "result" THEN "read" ELSE "done"]
    /\ UNCHANGED <<main, pending, expired, scans, catalog, toServer, fromServer, server>>

(* The generation of a page's request is taken under _pending_lock ... *)
ReadPage ==
    /\ Reading /\ fromServer # <<>>
    /\ LET msg == Head(fromServer) IN
       /\ msg.kind = "page" /\ msg.id \in DOMAIN scans
       /\ reader' = [pc |-> "check", msg |-> msg, gen |-> scans[msg.id]]
       /\ scans' = Without(scans, msg.id)
    /\ fromServer' = Tail(fromServer)
    /\ UNCHANGED <<main, pending, expired, catalog, answers, toServer, server>>

(* Mutant of Stale: the generation of the request is ignored. *)
StaleNever(gen) == FALSE

(* _validate_tool_catalog: a page is stale, breaks the scan or extends it. *)
Stale(gen) == gen # generation

Rejected(page) ==
    \/ page.shown \cap trusted # {}
    \/ ~(page.shown \subseteq page.good)
    \/ ~page.more /\ ~(Pinned \subseteq trusted \cup page.shown)

(* ... and the page is checked under _catalog_lock. *)
CheckPage ==
    /\ reader.pc = "check" /\ ~CatalogLocked
    /\ \/ Stale(reader.gen) /\ UNCHANGED catalog
       \/ ~Stale(reader.gen) /\ Rejected(reader.msg) /\ Invalidate
       \/ /\ ~Stale(reader.gen) /\ ~Rejected(reader.msg)
          /\ trusted' = trusted \cup reader.msg.shown
          /\ cursor' = IF reader.msg.more THEN reader.gen ELSE cursor
          /\ UNCHANGED generation
    /\ reader' = [pc |-> "read"]
    /\ UNCHANGED <<main, pending, expired, scans, answers, toServer, fromServer, server>>

(* notifications/tools/list_changed is read, then waits for _catalog_lock. *)
ReadListChanged ==
    /\ Reading /\ fromServer # <<>> /\ Head(fromServer).kind = "list_changed"
    /\ reader' = [pc |-> "changed", msg |-> Head(fromServer)]
    /\ fromServer' = Tail(fromServer)
    /\ UNCHANGED <<main, pending, expired, scans, catalog, answers, toServer, server>>

DropCatalog ==
    /\ reader.pc = "changed" /\ ~CatalogLocked
    /\ Invalidate
    /\ reader' = [pc |-> "read"]
    /\ UNCHANGED <<main, pending, expired, scans, answers, toServer, fromServer, server>>

(* A line the reader cannot take: too long, not JSON. *)
ReadGarbage ==
    /\ Reading /\ fromServer # <<>> /\ Head(fromServer).kind = "garbage"
    /\ server' = Terminated
    /\ reader' = [pc |-> "drain"]
    /\ fromServer' = Tail(fromServer)
    /\ UNCHANGED <<main, pending, expired, scans, catalog, answers, toServer>>

(* End of file, with the server dead or still alive, or run() has closed    *)
(* the stream.                                                              *)
ReadEnd ==
    /\ reader.pc = "read"
    /\ \/ fromServer = <<>> /\ ~server.writes
       \/ ~Reading
    /\ reader' = [pc |-> "drain"]
    /\ UNCHANGED <<main, pending, expired, scans, catalog, answers, toServer, fromServer, server>>

(* Mutant of Drain: _pending is cleared, its calls are not answered. *)
DrainSilently ==
    /\ reader.pc = "drain"
    /\ pending' = {}
    /\ reader' = [pc |-> "done"]
    /\ UNCHANGED <<main, expired, scans, catalog, answers, toServer, fromServer, server>>

(* finally: whatever is pending is taken, its timers are cancelled. *)
Drain ==
    /\ reader.pc = "drain"
    /\ reader' = IF pending = {} THEN [pc |-> "done"] ELSE [pc |-> "stopped", calls |-> pending]
    /\ pending' = {}
    /\ UNCHANGED <<main, expired, scans, catalog, answers, toServer, fromServer, server>>

-----------------------------------------------------------------------------
(* The upstream server (external). *)

ServerRead ==
    /\ server.reads /\ toServer # <<>>
    /\ server' = [server EXCEPT !.work = @ \cup
                    {[id |-> Head(toServer),
                      good |-> IF Head(toServer) \in Lists THEN Pinned \ server.changed ELSE {}]}]
    /\ toServer' = Tail(toServer)
    /\ UNCHANGED <<main, reader, pending, expired, scans, catalog, answers, fromServer>>

ServerSends(msg) ==
    server.writes /\ Len(fromServer) < OutRoom /\ fromServer' = Append(fromServer, msg)

ServerAnswer ==
    /\ \E w \in server.work :
         /\ IF w.id \in Calls
              THEN ServerSends([kind |-> "result", id |-> w.id])
              ELSE \E shown \in SUBSET Pinned, more \in BOOLEAN :
                     ServerSends([kind |-> "page", id |-> w.id, shown |-> shown,
                                  good |-> w.good, more |-> more])
         /\ server' = [server EXCEPT !.work = @ \ {w}]
    /\ UNCHANGED <<main, reader, pending, expired, scans, catalog, answers, toServer>>

(* A tool's schema moves away from its pin or back; the server announces it. *)
ServerChanges(tool) ==
    /\ server.changes < MaxChanges
    /\ ServerSends([kind |-> "list_changed"])
    /\ server' = [server EXCEPT !.changes = @ + 1,
                    !.changed = IF tool \in @ THEN @ \ {tool} ELSE @ \cup {tool}]
    /\ UNCHANGED <<main, reader, pending, expired, scans, catalog, answers, toServer>>

ServerGarbage ==
    /\ ServerSends([kind |-> "garbage"])
    /\ UNCHANGED <<main, reader, pending, expired, scans, catalog, answers, toServer, server>>

ServerDies ==
    /\ Up
    /\ server' = Dead
    /\ toServer' = <<>>
    /\ UNCHANGED <<main, reader, pending, expired, scans, catalog, answers, fromServer>>

ServerClosesInput ==
    /\ server.reads
    /\ server' = [server EXCEPT !.reads = FALSE]
    /\ toServer' = <<>>
    /\ UNCHANGED <<main, reader, pending, expired, scans, catalog, answers, fromServer>>

ServerClosesOutput ==
    /\ server.writes
    /\ server' = [server EXCEPT !.writes = FALSE]
    /\ UNCHANGED <<main, reader, pending, expired, scans, catalog, answers, toServer, fromServer>>

-----------------------------------------------------------------------------
MainStep == Authorize \/ Register \/ Forward \/ WriteCall \/ WriteFails
            \/ ReportFailure \/ WriteList

Agent == Close \/ (\E k \in Calls : ReceiveCall(k))
         \/ (\E l \in Lists, continues \in BOOLEAN : ReceiveList(l, continues))

Ending == StopServer \/ LeaveRun \/ Exit

Reader ==
    /\ main.pc # "exited"
    /\ \/ ReadResult \/ SendHeld \/ ReadPage \/ CheckPage \/ ReadListChanged \/ DropCatalog
       \/ ReadGarbage \/ ReadEnd \/ Drain

Server == ServerRead \/ ServerAnswer \/ (\E t \in Pinned : ServerChanges(t))
          \/ ServerGarbage \/ ServerDies \/ ServerClosesInput \/ ServerClosesOutput

Next == Agent \/ MainStep \/ Ending \/ (\E k \in Calls : Expire(k)) \/ WatchStop \/ Reader \/ Server

(* The interpreter runs every runnable thread, a timer fires once its delay *)
(* is over, and a server that was sent SIGTERM exits.  The agent and the    *)
(* server owe nothing else, and run() may hang on its way out.              *)
Fairness ==
    /\ WF_vars(MainStep)
    /\ WF_vars(Reader)
    /\ \A k \in Calls : WF_vars(Expire(k))
    /\ WF_vars(ServerDies /\ server.status = "stopping")

Spec == Init /\ [][Next]_vars /\ Fairness
-----------------------------------------------------------------------------
(* Properties. *)

(* A pinned tool is trusted only while its schema is the pinned one, or the *)
(* server's list_changed is still on its way to the gateway: no stale page, *)
(* checked late or answered to an older scan, brings a changed tool back.   *)
TrustIsCurrent ==
    \A t \in trusted \cap server.changed :
        \/ \E i \in 1 .. Len(fromServer) : fromServer[i].kind = "list_changed"
        \/ reader.pc = "changed"

(* The reader, the timer and the end of the stream compete for a call, and  *)
(* _pending lets one of them answer it; a call answered as denied, revoked  *)
(* or unavailable has never reached the server.                             *)
OneOutcome ==
    \A k \in Calls :
        /\ Cardinality(answers[k] \cap {"result", "timeout", "stopped"}) <= 1
        /\ answers[k] \cap {"denied", "revoked", "unavailable"} # {}
             => /\ "result" \notin answers[k]
                /\ \A i \in 1 .. Len(toServer) : toServer[i] # k
                /\ \A w \in server.work : w.id # k

(* A call on a pinned tool is written while the gateway trusts the tool,    *)
(* however long the write blocks and whatever the reader learns meanwhile.  *)
WrittenUnderTrust ==
    [][\A k \in Calls : toServer' = Append(toServer, k) => Verified(ToolOf[k])]_vars

(* Every call that was let through is answered, with a server that hangs,   *)
(* dies, closes its output or its input, or never reads: by its timer, as   *)
(* long as the call is in _pending.  A call the reader has taken from there *)
(* has no timer any more, and is lost if the interpreter exits first.       *)
EveryCallAnswered ==
    \A k \in Calls : (main.pc = "register" /\ main.req = k)
                       ~> (answers[k] # {} \/ (main.pc = "exited" /\ k \in Held))

(* A write to a server that does not read cannot hold the main thread, and  *)
(* the catalog lock, for ever: the call's own timer ends it.  Unless the    *)
(* reader came to the end of the server's output first: it answers the call *)
(* as stopped, cancels the timer, and lets the server run.                  *)
MainReturns ==
    \A k \in Calls : (main.pc = "write" /\ main.req = k)
                       ~> (main.pc = "ready" \/ "stopped" \in answers[k])
=============================================================================
