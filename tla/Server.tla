------------------------------- MODULE Server -------------------------------
(***************************************************************************)
(* The life of a Server object (src/server/server.cpp) and its listening   *)
(* socket (src/net/tcp_listen.cpp).  One thread, Main, calls serve(), maybe *)
(* again after it returned, and finally destroys the object; others, the   *)
(* Controllers, call shutdown().  serve() starts the accept loop in a      *)
(* thread of its own, which starts a detached thread per connection.       *)
(* Nothing here is locked: a step is one access to a shared member.        *)
(*                                                                         *)
(* A connection's thread is a slot of `worker`.  H1Pipeline shows that a   *)
(* plain one ends once it sees the exit flag, whatever the peer does, and  *)
(* that one with an upgraded connection need not.                          *)
(***************************************************************************)
EXTENDS Naturals

CONSTANTS
  Main,          \* the thread that owns the server
  Controllers,   \* threads that call shutdown()
  Slots,         \* bound: connections served at a time
  MaxServes,     \* bound: calls of serve()
  MaxStops,      \* bound: calls of shutdown() by each controller
  Faults,        \* what may fail: "bind", "address", "accept"
  EarlyStop      \* may shutdown() be called before serve() has started its loop?

ASSUME ServerAssumption ==
  /\ Main \notin Controllers
  /\ MaxServes \in Nat /\ MaxStops \in Nat
  /\ Faults \subseteq {"bind", "address", "accept"}
  /\ EarlyStop \in BOOLEAN

Threads == {Main} \cup Controllers

VARIABLES
  pc,          \* where each calling thread is
  loop,        \* where the accept loop's thread is
  m_active,
  m_exit,      \* the flag shared with every ServeContext
  m_sock,      \* the listener's m_sock and what became of its descriptor
  m_loop,      \* m_loop.valid()
  worker,      \* the connection's thread of each slot
  serves,      \* calls of serve() so far
  stops,       \* calls of shutdown() so far, by controller
  result       \* how the last call of each thread ended

callVars == <<serves, stops>>
vars == <<pc, loop, m_active, m_exit, m_sock, m_loop, worker, callVars, result>>

Goto(t, label) == pc' = [pc EXCEPT ![t] = label]
Return(t, how) == result' = [result EXCEPT ![t] = how]

Init ==
  /\ pc = [t \in Threads |-> "idle"]
  /\ loop = "none"
  /\ m_active = FALSE /\ m_exit = FALSE
  /\ m_sock = "uninit"            \* TcpListener() = default leaves it so
  /\ m_loop = FALSE
  /\ worker = [s \in Slots |-> "free"]
  /\ serves = 0 /\ stops = [t \in Controllers |-> 0]
  /\ result = [t \in Threads |-> "none"]

LoopRuns == loop \in {"check", "next", "accept"}

------------------------------------------------------------------------------
(* serve() *)

ServeRefused ==
  /\ pc[Main] = "idle" /\ serves < MaxServes
  /\ m_active
  /\ serves' = serves + 1
  /\ Return(Main, "already running")
  /\ UNCHANGED <<pc, loop, m_active, m_exit, m_sock, m_loop, worker, stops>>

ServeEnter ==
  /\ pc[Main] = "idle" /\ serves < MaxServes
  /\ ~m_active
  /\ serves' = serves + 1
  /\ m_active' = TRUE
  /\ Goto(Main, "serveExit") /\ Return(Main, "none")
  /\ UNCHANGED <<loop, m_exit, m_sock, m_loop, worker, stops>>

ServeResetExit ==
  /\ pc[Main] = "serveExit"
  /\ m_exit' = FALSE
  /\ Goto(Main, "serveBind")
  /\ UNCHANGED <<loop, m_active, m_sock, m_loop, worker, callVars, result>>

(* parse_bind_addr throws before the listener is touched; socket() fails   *)
(* with no descriptor; bind() or listen() fails and the descriptor is      *)
(* closed, but m_sock keeps its number.                                    *)
ServeBindFails ==
  /\ pc[Main] = "serveBind"
  /\ \/ "address" \in Faults /\ UNCHANGED m_sock
     \/ "bind" \in Faults /\ m_sock' \in {"invalid", "closed"}
  /\ Goto(Main, "idle") /\ Return(Main, "bind error")
  /\ UNCHANGED <<loop, m_active, m_exit, m_loop, worker, callVars>>

ServeBind ==
  /\ pc[Main] = "serveBind"
  /\ m_sock' = "live"
  /\ Goto(Main, "serveAsync")
  /\ UNCHANGED <<loop, m_active, m_exit, m_loop, worker, callVars, result>>

ServeAsync ==
  /\ pc[Main] = "serveAsync"
  /\ loop' = "check"
  /\ m_loop' = TRUE
  /\ Goto(Main, "serveGet")
  /\ UNCHANGED <<m_active, m_exit, m_sock, worker, callVars, result>>

(* future::get: throws on a future without a state, else waits for the loop *)
(* and lets go of the state                                                 *)
ServeGet ==
  /\ pc[Main] = "serveGet"
  /\ IF m_loop
     THEN Goto(Main, "serveWait") /\ UNCHANGED result
     ELSE Goto(Main, "idle") /\ Return(Main, "future error")
  /\ UNCHANGED <<loop, m_active, m_exit, m_sock, m_loop, worker, callVars>>

ServeReturns ==
  /\ pc[Main] = "serveWait" /\ ~LoopRuns
  /\ m_loop' = FALSE
  /\ Goto(Main, "idle") /\ Return(Main, "returned")
  /\ UNCHANGED <<loop, m_active, m_exit, m_sock, worker, callVars>>

------------------------------------------------------------------------------
(* The accept loop.  Its catch tests the pointer m_exit, never the flag, so *)
(* any exception ends it.                                                   *)

LoopCheck ==
  /\ loop = "check"
  /\ loop' = IF m_sock = "invalid" THEN "ended" ELSE "next"
  /\ UNCHANGED <<pc, m_active, m_exit, m_sock, m_loop, worker, callVars, result>>

LoopNext ==
  /\ loop = "next"
  /\ loop' = IF m_sock = "live" THEN "accept" ELSE "ended"
  /\ UNCHANGED <<pc, m_active, m_exit, m_sock, m_loop, worker, callVars, result>>

LoopAccept ==
  /\ loop = "accept" /\ m_sock = "live"
  /\ \E s \in Slots : worker[s] = "free" /\ worker' = [worker EXCEPT ![s] = "plain"]
  /\ loop' = "check"
  /\ UNCHANGED <<pc, m_active, m_exit, m_sock, m_loop, callVars, result>>

(* accept() returns an error once the socket is shut down; it may fail on a *)
(* live one too (a connection aborted, no descriptor left), and so may the  *)
(* start of the thread                                                      *)
LoopThrows ==
  /\ loop = "accept"
  /\ m_sock # "live" \/ "accept" \in Faults
  /\ loop' = "ended"
  /\ UNCHANGED <<pc, m_active, m_exit, m_sock, m_loop, worker, callVars, result>>

(* The handler keeps the thread to itself: it upgraded the connection, whose *)
(* reads wait for as long as the peer is silent, or it does not return.      *)
WorkerHeld(s) ==
  /\ worker[s] = "plain"
  /\ worker' = [worker EXCEPT ![s] = "held"]
  /\ UNCHANGED <<pc, loop, m_active, m_exit, m_sock, m_loop, callVars, result>>

(* serve_conn of a slot's connection returns *)
WorkerEnds(s) ==
  /\ worker[s] # "free"
  /\ worker' = [worker EXCEPT ![s] = "free"]
  /\ UNCHANGED <<pc, loop, m_active, m_exit, m_sock, m_loop, callVars, result>>

------------------------------------------------------------------------------
(* shutdown(), called by a controller or, in ~Server, by Main *)

ServeStarting == pc[Main] \in {"serveExit", "serveBind", "serveAsync"}

StopCall(c) ==
  /\ pc[c] = "idle" /\ stops[c] < MaxStops
  /\ ServeStarting \/ pc[Main] \in {"idle", "serveGet", "serveWait"}
  /\ EarlyStop \/ (m_active /\ ~ServeStarting)
  /\ stops' = [stops EXCEPT ![c] = @ + 1]
  /\ Goto(c, "stopEnter") /\ Return(c, "none")
  /\ UNCHANGED <<loop, m_active, m_exit, m_sock, m_loop, worker, serves>>

(* Main may only destroy the server when no one else is using it. *)
Destroy ==
  /\ \A t \in Threads : pc[t] = "idle"
  /\ serves > 0
  /\ Goto(Main, "stopEnter") /\ Return(Main, "destroying")
  /\ UNCHANGED <<loop, m_active, m_exit, m_sock, m_loop, worker, callVars>>

(* Where shutdown() returns to: ~Server sets the exit flag once more. *)
StopReturns(t, how) ==
  IF t = Main
  THEN /\ Goto(t, IF how = "returned" THEN "destroyExit" ELSE "terminated")
       /\ UNCHANGED result
  ELSE Goto(t, "idle") /\ Return(t, how)

StopEnter(t) ==
  /\ pc[t] = "stopEnter"
  /\ IF m_active THEN Goto(t, "stopExit") /\ UNCHANGED result
                 ELSE StopReturns(t, "returned")
  /\ UNCHANGED <<loop, m_active, m_exit, m_sock, m_loop, worker, callVars>>

StopSetExit(t) ==
  /\ pc[t] = "stopExit"
  /\ m_exit' = TRUE
  /\ Goto(t, "stopSock")
  /\ UNCHANGED <<loop, m_active, m_sock, m_loop, worker, callVars, result>>

(* Mutant: the listening socket is left alone *)
StopSockSkipped(t) ==
  /\ pc[t] = "stopSock"
  /\ Goto(t, "stopValid")
  /\ UNCHANGED <<loop, m_active, m_exit, m_sock, m_loop, worker, callVars, result>>

(* TcpListener::shutdown: shut the descriptor down, which fails on one that *)
(* is shut or closed already (an uninitialised m_sock may also happen to    *)
(* read as invalid), ...                                                    *)
StopSock(t) ==
  /\ pc[t] = "stopSock"
  /\ \/ m_sock \in {"invalid", "uninit"} /\ Goto(t, "stopValid") /\ UNCHANGED <<m_sock, result>>
     \/ m_sock = "live" /\ m_sock' = "shut" /\ Goto(t, "stopClose") /\ UNCHANGED result
     \/ m_sock \in {"shut", "closed", "uninit"} /\ StopReturns(t, "socket error") /\ UNCHANGED m_sock
  /\ UNCHANGED <<loop, m_active, m_exit, m_loop, worker, callVars>>

(* ... close it ... *)
StopClose(t) ==
  /\ pc[t] = "stopClose"
  /\ m_sock' = "closed"
  /\ Goto(t, "stopInvalid")
  /\ UNCHANGED <<loop, m_active, m_exit, m_loop, worker, callVars, result>>

(* ... and forget it *)
StopInvalidate(t) ==
  /\ pc[t] = "stopInvalid"
  /\ m_sock' = "invalid"
  /\ Goto(t, "stopValid")
  /\ UNCHANGED <<loop, m_active, m_exit, m_loop, worker, callVars, result>>

(* Mutants: the loop is never waited for; the future is not tested first *)
StopValidNever(t) ==
  /\ pc[t] = "stopValid"
  /\ Goto(t, "stopDone")
  /\ UNCHANGED <<loop, m_active, m_exit, m_sock, m_loop, worker, callVars, result>>

StopValidUntested(t) ==
  /\ pc[t] = "stopValid"
  /\ Goto(t, "stopGet")
  /\ UNCHANGED <<loop, m_active, m_exit, m_sock, m_loop, worker, callVars, result>>

StopValid(t) ==
  /\ pc[t] = "stopValid"
  /\ Goto(t, IF m_loop THEN "stopGet" ELSE "stopDone")
  /\ UNCHANGED <<loop, m_active, m_exit, m_sock, m_loop, worker, callVars, result>>

StopGet(t) ==
  /\ pc[t] = "stopGet"
  /\ IF m_loop THEN Goto(t, "stopWait") /\ UNCHANGED result
               ELSE StopReturns(t, "future error")
  /\ UNCHANGED <<loop, m_active, m_exit, m_sock, m_loop, worker, callVars>>

(* Mutant: get() does not wait *)
StopWaitNot(t) ==
  /\ pc[t] = "stopWait"
  /\ m_loop' = FALSE
  /\ Goto(t, "stopDone")
  /\ UNCHANGED <<loop, m_active, m_exit, m_sock, worker, callVars, result>>

StopWait(t) ==
  /\ pc[t] = "stopWait" /\ ~LoopRuns
  /\ m_loop' = FALSE
  /\ Goto(t, "stopDone")
  /\ UNCHANGED <<loop, m_active, m_exit, m_sock, worker, callVars, result>>

StopDone(t) ==
  /\ pc[t] = "stopDone"
  /\ m_active' = FALSE
  /\ StopReturns(t, "returned")
  /\ UNCHANGED <<loop, m_exit, m_sock, m_loop, worker, callVars>>

(* The rest of ~Server: the flag, then the members.  ~future waits for a    *)
(* loop that still runs.                                                    *)
DestroyExit ==
  /\ pc[Main] = "destroyExit"
  /\ ~LoopRuns
  /\ m_exit' = TRUE
  /\ m_sock' = "closed"
  /\ Goto(Main, "dead")
  /\ UNCHANGED <<loop, m_active, m_loop, worker, callVars, result>>

Serve == ServeRefused \/ ServeEnter \/ ServeResetExit \/ ServeBindFails \/ ServeBind
           \/ ServeAsync \/ ServeGet \/ ServeReturns
Loop == LoopCheck \/ LoopNext \/ LoopAccept \/ LoopThrows
Stop(t) == StopEnter(t) \/ StopSetExit(t) \/ StopSock(t) \/ StopClose(t) \/ StopInvalidate(t)
             \/ StopValid(t) \/ StopGet(t) \/ StopWait(t) \/ StopDone(t)

Next ==
  \/ Serve
  \/ Loop
  \/ \E s \in Slots : WorkerHeld(s) \/ WorkerEnds(s)
  \/ \E c \in Controllers : StopCall(c)
  \/ Destroy
  \/ \E t \in Threads : Stop(t)
  \/ DestroyExit

(* Every thread that has a step to make makes it.  Nobody has to call       *)
(* anything, and accept() waits for as long as no client comes.  The thread *)
(* of a plain connection ends when it sees the exit flag; one that its      *)
(* handler holds is promised nothing.                                       *)
Fairness ==
  /\ WF_vars(ServeResetExit \/ ServeBindFails \/ ServeBind \/ ServeAsync \/ ServeGet \/ ServeReturns)
  /\ WF_vars(LoopCheck \/ LoopNext \/ (LoopThrows /\ m_sock # "live"))
  /\ \A t \in Threads : WF_vars(Stop(t))
  /\ WF_vars(DestroyExit)
  /\ \A s \in Slots : WF_vars(WorkerEnds(s) /\ m_exit /\ worker[s] = "plain")

Spec == Init /\ [][Next]_vars /\ Fairness

------------------------------------------------------------------------------
(* Properties *)

(* The members hold values of their types. *)
TypeInv ==
  /\ pc \in [Threads -> {"idle", "serveExit", "serveBind", "serveAsync", "serveGet", "serveWait",
                         "stopEnter", "stopExit", "stopSock", "stopClose", "stopInvalid",
                         "stopValid", "stopGet", "stopWait", "stopDone",
                         "destroyExit", "dead", "terminated"}]
  /\ loop \in {"none", "check", "next", "accept", "ended"}
  /\ m_active \in BOOLEAN /\ m_exit \in BOOLEAN /\ m_loop \in BOOLEAN
  /\ m_sock \in {"uninit", "invalid", "live", "shut", "closed"}
  /\ worker \in [Slots -> {"free", "plain", "held"}]
  /\ serves \in 0 .. MaxServes
  /\ stops \in [Controllers -> 0 .. MaxStops]
  /\ result \in [Threads -> {"none", "returned", "already running", "bind error",
                             "future error", "socket error", "destroying"}]

(* A server that says it is not running has released everything: nothing    *)
(* listens, no accept loop is left behind and no result is uncollected, so  *)
(* that the next serve() starts from scratch.  (m_active is cleared last in *)
(* shutdown() and set first in serve().)                                    *)
InactiveIsQuiet == ~m_active => m_sock # "live" /\ ~LoopRuns /\ ~m_loop

(* serve() never starts a second accept loop beside one that still runs,    *)
(* even when shutdown() is called from several threads and at any moment.   *)
OneLoop == pc[Main] \in {"serveExit", "serveBind", "serveAsync"} => ~LoopRuns

(* ~Server is noexcept: an exception out of the shutdown() it calls ends    *)
(* the process.  That happens only over the descriptor a failed serve()     *)
(* has left in the listener, not after a shutdown() or an ended loop.       *)
NoTerminate == pc[Main] = "terminated" => result[Main] = "destroying" /\ m_sock \in {"uninit", "closed"}

(* shutdown() comes back, whatever the accept loop was doing. *)
StopEnds == \A c \in Controllers : pc[c] = "stopEnter" ~> pc[c] = "idle"

(* After shutdown() has set the flag, serve() returns to its caller. *)
ServeEnds == pc[Main] = "serveWait" /\ m_exit ~> pc[Main] = "idle"

(* After shutdown() has set the flag, no thread goes on serving plain       *)
(* connections, not even one that the loop accepted meanwhile: all end, but *)
(* for those their handlers hold (a silent peer's upgraded connection       *)
(* outlives the server).  Only a serve() that resets the flag before a      *)
(* thread has seen it spares others.                                        *)
WorkersDrain == m_exit ~> ~m_exit \/ \A s \in Slots : worker[s] # "plain"

(* serve() returns only because someone called shutdown(): an error on one  *)
(* connection does not end the server.                                      *)
ServeUntilStopped == result[Main] = "returned" => \E c \in Controllers : stops[c] > 0
==============================================================================
