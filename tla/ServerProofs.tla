---------------------------- MODULE ServerProofs ----------------------------
(***************************************************************************)
(* Proofs about the Server of module Server, for any number of threads     *)
(* that call shutdown(), of connections and of calls, with every fault and *)
(* with shutdown() at any moment (EarlyStop).                              *)
(***************************************************************************)
EXTENDS Server, TLAPS

(* The members keep the values of their types: first the flags, ...  *)
Flags == m_active \in BOOLEAN /\ m_exit \in BOOLEAN /\ m_loop \in BOOLEAN

LEMMA FlagsStep == Flags /\ [Next]_vars => Flags'
<1>1. SUFFICES ASSUME Flags, [Next]_vars PROVE Flags'
  OBVIOUS
<1> USE DEF Flags, callVars
<1>2. CASE Serve
  BY <1>1, <1>2, Zenon DEF Serve, ServeRefused, ServeEnter, ServeResetExit, ServeBindFails, ServeBind,
                    ServeAsync, ServeGet, ServeReturns
<1>3. CASE Loop
  BY <1>1, <1>3, Zenon DEF Loop, LoopCheck, LoopNext, LoopAccept, LoopThrows
<1>4. ASSUME NEW s \in Slots, WorkerHeld(s) \/ WorkerEnds(s) PROVE Flags'
  BY <1>1, <1>4, Zenon DEF WorkerHeld, WorkerEnds
<1>5. ASSUME NEW c \in Controllers, StopCall(c) PROVE Flags'
  BY <1>1, <1>5, Zenon DEF StopCall
<1>6. CASE Destroy \/ DestroyExit
  BY <1>1, <1>6, Zenon DEF Destroy, DestroyExit
<1>7. ASSUME NEW t \in Threads, Stop(t) PROVE Flags'
  BY <1>1, <1>7, Zenon DEF Stop, StopEnter, StopSetExit, StopSock, StopClose, StopInvalidate,
                    StopValid, StopGet, StopWait, StopDone
<1>8. CASE UNCHANGED vars
  BY <1>1, <1>8, Zenon DEF vars
<1> QED
  BY <1>1, <1>2, <1>3, <1>4, <1>5, <1>6, <1>7, <1>8 DEF Next

(* ... then the other members, for which a fact of arithmetic *)
LEMMA OneMore == ASSUME NEW m \in Nat, NEW n \in 0 .. m, n < m PROVE n + 1 \in 0 .. m
  OBVIOUS

Labels == {"idle", "serveExit", "serveBind", "serveAsync", "serveGet", "serveWait", "stopEnter",
           "stopExit", "stopSock", "stopClose", "stopInvalid", "stopValid", "stopGet", "stopWait",
           "stopDone", "destroyExit", "dead", "terminated"}
Results == {"none", "returned", "already running", "bind error", "future error", "socket error",
            "destroying"}

Typed ==
  /\ pc \in [Threads -> Labels]
  /\ loop \in {"none", "check", "next", "accept", "ended"}
  /\ m_sock \in {"uninit", "invalid", "live", "shut", "closed"}
  /\ worker \in [Slots -> {"free", "plain", "held"}]
  /\ serves \in 0 .. MaxServes
  /\ stops \in [Controllers -> 0 .. MaxStops]
  /\ result \in [Threads -> Results]

LEMMA TypeParts == TypeInv <=> Flags /\ Typed
  BY Zenon DEF TypeInv, Flags, Typed, Labels, Results

LEMMA TypeInit == Init => TypeInv
<1>1. SUFFICES ASSUME Init PROVE Flags /\ Typed
  BY TypeParts
<1>2. Flags
  BY <1>1, Zenon DEF Init, Flags
<1>3. pc \in [Threads -> Labels] /\ result \in [Threads -> Results]
  BY <1>1 DEF Init, Labels, Results
<1>4. /\ loop \in {"none", "check", "next", "accept", "ended"}
      /\ m_sock \in {"uninit", "invalid", "live", "shut", "closed"}
  BY <1>1 DEF Init
<1>5. /\ worker \in [Slots -> {"free", "plain", "held"}] /\ serves \in 0 .. MaxServes
      /\ stops \in [Controllers -> 0 .. MaxStops]
  BY <1>1, ServerAssumption DEF Init
<1> QED
  BY <1>2, <1>3, <1>4, <1>5 DEF Typed

LEMMA TypedStep == Typed /\ [Next]_vars => Typed'
<1>1. SUFFICES ASSUME Typed, [Next]_vars PROVE Typed'
  OBVIOUS
<1> USE ServerAssumption DEF Typed, Threads, Labels, Results, callVars, Goto, Return
<1>2. CASE Serve
  <2>1. Main \in Threads
    OBVIOUS
  <2>2. CASE ServeRefused
    <3>1. serves' \in 0 .. MaxServes
      BY <1>1, <2>2, OneMore, Zenon DEF ServeRefused
    <3>2. UNCHANGED <<worker, stops, loop, m_sock>>
      BY <2>2 DEF ServeRefused
    <3>3. pc' \in [Threads -> Labels] /\ result' \in [Threads -> Results]
      BY <1>1, <2>1, <2>2 DEF ServeRefused
    <3> QED
      BY <1>1, <3>1, <3>2, <3>3
  <2>3. CASE ServeEnter
    <3>1. serves' \in 0 .. MaxServes
      BY <1>1, <2>3, OneMore, Zenon DEF ServeEnter
    <3>2. UNCHANGED <<worker, stops, loop, m_sock>>
      BY <2>3 DEF ServeEnter
    <3>3. pc' \in [Threads -> Labels] /\ result' \in [Threads -> Results]
      BY <1>1, <2>1, <2>3 DEF ServeEnter
    <3> QED
      BY <1>1, <3>1, <3>2, <3>3
  <2>4. CASE ServeResetExit
    BY <1>1, <2>1, <2>4 DEF ServeResetExit
  <2>5. CASE ServeBindFails
    BY <1>1, <2>1, <2>5 DEF ServeBindFails
  <2>6. CASE ServeBind
    BY <1>1, <2>1, <2>6 DEF ServeBind
  <2>7. CASE ServeAsync
    BY <1>1, <2>1, <2>7 DEF ServeAsync
  <2>8. CASE ServeGet
    BY <1>1, <2>1, <2>8 DEF ServeGet
  <2>9. CASE ServeReturns
    BY <1>1, <2>1, <2>9 DEF ServeReturns
  <2> QED
    BY <1>2, <2>2, <2>3, <2>4, <2>5, <2>6, <2>7, <2>8, <2>9 DEF Serve
<1>3. CASE Loop
  <2>1. CASE LoopCheck
    BY <1>1, <2>1 DEF LoopCheck
  <2>2. CASE LoopNext
    BY <1>1, <2>2 DEF LoopNext
  <2>3. CASE LoopAccept
    BY <1>1, <2>3 DEF LoopAccept
  <2>4. CASE LoopThrows
    BY <1>1, <2>4 DEF LoopThrows
  <2> QED
    BY <1>3, <2>1, <2>2, <2>3, <2>4 DEF Loop
<1>4. ASSUME NEW s \in Slots, WorkerHeld(s) \/ WorkerEnds(s) PROVE Typed'
  <2>1. worker' \in [Slots -> {"free", "plain", "held"}]
    BY <1>1, <1>4 DEF WorkerHeld, WorkerEnds
  <2> QED
    BY <1>1, <1>4, <2>1 DEF WorkerHeld, WorkerEnds
<1>5. ASSUME NEW c \in Controllers, StopCall(c) PROVE Typed'
  <2>1. stops' \in [Controllers -> 0 .. MaxStops]
    <3>1. stops[c] + 1 \in 0 .. MaxStops
      BY <1>1, <1>5, OneMore, Zenon DEF StopCall
    <3> QED
      BY <1>1, <1>5, <3>1 DEF StopCall
  <2>2. pc' \in [Threads -> Labels] /\ result' \in [Threads -> Results]
    BY <1>1, <1>5 DEF StopCall
  <2>3. UNCHANGED <<loop, m_sock, worker, serves>>
    BY <1>5 DEF StopCall
  <2> QED
    BY <1>1, <2>1, <2>2, <2>3
<1>6. CASE Destroy
  BY <1>1, <1>6 DEF Destroy
<1>7. ASSUME NEW t \in Threads, Stop(t) PROVE Typed'
  <2>1. CASE StopEnter(t)
    BY <1>1, <2>1 DEF StopEnter, StopReturns
  <2>2. CASE StopSetExit(t)
    BY <1>1, <2>2 DEF StopSetExit
  <2>3. CASE StopSock(t)
    BY <1>1, <2>3 DEF StopSock, StopReturns
  <2>4. CASE StopClose(t)
    BY <1>1, <2>4 DEF StopClose
  <2>5. CASE StopInvalidate(t)
    BY <1>1, <2>5 DEF StopInvalidate
  <2>6. CASE StopValid(t)
    BY <1>1, <2>6 DEF StopValid
  <2>7. CASE StopGet(t)
    BY <1>1, <2>7 DEF StopGet, StopReturns
  <2>8. CASE StopWait(t)
    BY <1>1, <2>8 DEF StopWait
  <2>9. CASE StopDone(t)
    BY <1>1, <2>9 DEF StopDone, StopReturns
  <2> QED
    BY <1>7, <2>1, <2>2, <2>3, <2>4, <2>5, <2>6, <2>7, <2>8, <2>9 DEF Stop
<1>8. CASE DestroyExit
  BY <1>1, <1>8 DEF DestroyExit
<1>9. CASE UNCHANGED vars
  BY <1>1, <1>9 DEF vars
<1> QED
  BY <1>1, <1>2, <1>3, <1>4, <1>5, <1>6, <1>7, <1>8, <1>9 DEF Next

LEMMA TypeStep == TypeInv /\ [Next]_vars => TypeInv'
<1>1. TypeInv' <=> Flags' /\ Typed'
  BY Zenon DEF TypeInv, Flags, Typed, Labels, Results
<1> QED
  BY <1>1, TypeParts, FlagsStep, TypedStep

(* TypeInv holds in every state of every server. *)
THEOREM TypeCorrect == Spec => []TypeInv
  BY TypeInit, TypeStep, PTL DEF Spec

------------------------------------------------------------------------------
(* While the accept loop runs its future is valid and serve() has not       *)
(* returned: the result is only taken, by serve() or by shutdown(), from a  *)
(* loop that has ended.                                                     *)
LoopWaitedFor == LoopRuns => m_loop /\ pc[Main] \in {"serveGet", "serveWait"}

LEMMA WaitedInit == Init => LoopWaitedFor
  BY DEF Init, LoopWaitedFor, LoopRuns

LEMMA WaitedStep == TypeInv /\ LoopWaitedFor /\ [Next]_vars => LoopWaitedFor'
<1>1. SUFFICES ASSUME TypeInv, LoopWaitedFor, [Next]_vars PROVE LoopWaitedFor'
  OBVIOUS
<1>2. Main \in Threads /\ Main \notin Controllers /\ Controllers \subseteq Threads /\ DOMAIN pc = Threads
  BY <1>1, ServerAssumption DEF TypeInv, Threads
<1> USE <1>2 DEF LoopWaitedFor, LoopRuns, Goto, callVars
<1>3. CASE Serve
  BY <1>1, <1>3 DEF Serve, ServeRefused, ServeEnter, ServeResetExit, ServeBindFails, ServeBind,
                    ServeAsync, ServeGet, ServeReturns
<1>4. CASE Loop
  BY <1>1, <1>4 DEF Loop, LoopCheck, LoopNext, LoopAccept, LoopThrows
<1>5. ASSUME NEW s \in Slots, WorkerHeld(s) \/ WorkerEnds(s) PROVE LoopWaitedFor'
  BY <1>1, <1>5 DEF WorkerHeld, WorkerEnds
<1>6. ASSUME NEW c \in Controllers, StopCall(c) PROVE LoopWaitedFor'
  BY <1>1, <1>6 DEF StopCall
<1>7. CASE Destroy
  BY <1>1, <1>7 DEF Destroy
<1>8. ASSUME NEW t \in Threads, Stop(t) PROVE LoopWaitedFor'
  <2>1. loop' = loop /\ (m_loop' = m_loop \/ ~LoopRuns)
    BY <1>1, <1>8 DEF Stop, StopEnter, StopSetExit, StopSock, StopClose, StopInvalidate, StopValid,
                      StopGet, StopWait, StopDone
  <2>2. pc[t] \notin {"serveGet", "serveWait"}
    BY <1>1, <1>8 DEF Stop, StopEnter, StopSetExit, StopSock, StopClose, StopInvalidate, StopValid,
                      StopGet, StopWait, StopDone
  <2>3. CASE t = Main
    BY <1>1, <2>1, <2>2, <2>3
  <2>4. CASE t # Main
    <3>1. \E label : pc' = [pc EXCEPT ![t] = label]
      BY <1>1, <1>8, <2>4 DEF Stop, StopEnter, StopSetExit, StopSock, StopClose, StopInvalidate,
                        StopValid, StopGet, StopWait, StopDone, StopReturns
    <3>2. pc'[Main] = pc[Main]
      BY <2>4, <3>1
    <3> QED
      BY <1>1, <2>1, <3>2
  <2> QED
    BY <2>3, <2>4
<1>9. CASE DestroyExit
  BY <1>1, <1>9 DEF DestroyExit
<1>10. CASE UNCHANGED vars
  BY <1>1, <1>10 DEF vars
<1> QED
  BY <1>1, <1>3, <1>4, <1>5, <1>6, <1>7, <1>8, <1>9, <1>10 DEF Next

(* serve() never starts an accept loop beside one that still runs, whoever  *)
(* calls shutdown() and whenever.                                          *)
THEOREM NeverTwoLoops == Spec => []OneLoop
<1>1. TypeInv /\ LoopWaitedFor => OneLoop
  BY DEF LoopWaitedFor, OneLoop
<1> QED
  BY TypeInit, TypeStep, WaitedInit, WaitedStep, <1>1, PTL DEF Spec

------------------------------------------------------------------------------
(* While ~Server is at work no other thread is in the server, so that what  *)
(* shutdown() has tested stays true; and whoever has shut the socket down   *)
(* is about to close it.                                                    *)
StopLabels == {"stopEnter", "stopExit", "stopSock", "stopClose", "stopInvalid", "stopValid",
               "stopGet", "stopWait", "stopDone"}

Leaving == StopLabels \cup {"destroyExit", "dead", "terminated"}

Alone == pc[Main] \in Leaving => \A c \in Controllers : pc[c] = "idle"
Destroying == pc[Main] \in StopLabels \cup {"terminated"} => result[Main] = "destroying"
Collects == pc[Main] = "stopGet" => m_loop
ShutIsClosed == m_sock = "shut" => \E t \in Threads : pc[t] = "stopClose"

DestroyInv == Alone /\ Destroying /\ Collects /\ ShutIsClosed /\ NoTerminate

LEMMA DestroyInit == Init => DestroyInv
BY ServerAssumption
DEF Init, DestroyInv, Alone, Destroying, Collects, ShutIsClosed, NoTerminate, Leaving, StopLabels, Threads

LEMMA DestroyStep == TypeInv /\ DestroyInv /\ [Next]_vars => DestroyInv'
<1>1. SUFFICES ASSUME TypeInv, DestroyInv, [Next]_vars PROVE DestroyInv'
  OBVIOUS
<1>2. /\ Main \in Threads /\ Main \notin Controllers /\ Controllers \subseteq Threads
      /\ \A t \in Threads : t = Main \/ t \in Controllers
      /\ DOMAIN pc = Threads /\ DOMAIN result = Threads
  BY <1>1, ServerAssumption DEF TypeInv, Threads
<1> USE <1>2 DEF Goto, Return, callVars, DestroyInv, Alone, Destroying, Collects, ShutIsClosed,
                 NoTerminate, Leaving, StopLabels
<1>3. CASE Serve
  BY <1>1, <1>3 DEF Serve, ServeRefused, ServeEnter, ServeResetExit, ServeBindFails, ServeBind,
                    ServeAsync, ServeGet, ServeReturns
<1>4. CASE Loop
  BY <1>1, <1>4 DEF Loop, LoopCheck, LoopNext, LoopAccept, LoopThrows
<1>5. ASSUME NEW s \in Slots, WorkerHeld(s) \/ WorkerEnds(s) PROVE DestroyInv'
  BY <1>1, <1>5 DEF WorkerHeld, WorkerEnds
<1>6. ASSUME NEW c \in Controllers, StopCall(c) PROVE DestroyInv'
  BY <1>1, <1>6 DEF StopCall, ServeStarting
<1>7. CASE Destroy
  BY <1>1, <1>7 DEF Destroy
<1>8. ASSUME NEW t \in Threads, Stop(t) PROVE DestroyInv'
  <2> USE DEF StopReturns
  <2>1. CASE StopEnter(t)
    BY <1>1, <2>1 DEF StopEnter
  <2>2. CASE StopSetExit(t)
    BY <1>1, <2>2 DEF StopSetExit
  <2>3. CASE StopSock(t)
    BY <1>1, <2>3 DEF StopSock
  <2>4. CASE StopClose(t)
    BY <1>1, <2>4 DEF StopClose
  <2>5. CASE StopInvalidate(t)
    BY <1>1, <2>5 DEF StopInvalidate
  <2>6. CASE StopValid(t)
    BY <1>1, <2>6 DEF StopValid
  <2>7. CASE StopGet(t)
    BY <1>1, <2>7 DEF StopGet
  <2>8. CASE StopWait(t)
    BY <1>1, <2>8 DEF StopWait
  <2>9. CASE StopDone(t)
    BY <1>1, <2>9 DEF StopDone
  <2> QED
    BY <1>8, <2>1, <2>2, <2>3, <2>4, <2>5, <2>6, <2>7, <2>8, <2>9 DEF Stop
<1>9. CASE DestroyExit
  BY <1>1, <1>9 DEF DestroyExit
<1>10. CASE UNCHANGED vars
  BY <1>1, <1>10 DEF vars
<1> QED
  BY <1>1, <1>3, <1>4, <1>5, <1>6, <1>7, <1>8, <1>9, <1>10 DEF Next

(* ~Server ends the process only over a descriptor that a failed serve()    *)
(* left behind, for any number of callers of shutdown() and at any moment.  *)
THEOREM NeverTerminates == Spec => []NoTerminate
<1>1. DestroyInv => NoTerminate
  BY DEF DestroyInv
<1> QED
  BY TypeInit, TypeStep, DestroyInit, DestroyStep, <1>1, PTL DEF Spec

------------------------------------------------------------------------------
(* With one thread that calls shutdown(), after serve() has started its     *)
(* loop, m_active tells the truth: nobody clears it under a starting or a   *)
(* running server.                                                          *)
Closing == {"stopClose", "stopInvalid", "stopValid", "stopGet", "stopWait", "stopDone"}

StoppedWhileActive == \A c \in Controllers : pc[c] \in StopLabels => m_active /\ ~ServeStarting
SocketGone == \A t \in Threads : pc[t] \in Closing => m_sock # "live"
Collected == \A t \in Threads : pc[t] = "stopDone" => ~m_loop
StartsActive == ServeStarting => m_active
Released == ~m_active => m_sock # "live" /\ ~m_loop

QuietInv == StoppedWhileActive /\ SocketGone /\ Collected /\ StartsActive /\ Released

LEMMA QuietInit == Init => QuietInv
BY ServerAssumption
DEF Init, QuietInv, StoppedWhileActive, SocketGone, Collected, StartsActive, Released,
    StopLabels, Closing, Threads, ServeStarting

LEMMA QuietStep ==
  ASSUME EarlyStop = FALSE, \A c, d \in Controllers : c = d
  PROVE  TypeInv /\ Alone /\ QuietInv /\ [Next]_vars => QuietInv'
<1>1. SUFFICES ASSUME TypeInv, Alone, QuietInv, [Next]_vars PROVE QuietInv'
  OBVIOUS
<1>2. /\ Main \in Threads /\ Main \notin Controllers /\ Controllers \subseteq Threads
      /\ \A t \in Threads : t = Main \/ t \in Controllers
      /\ DOMAIN pc = Threads /\ DOMAIN result = Threads
  BY <1>1, ServerAssumption DEF TypeInv, Threads
<1>3. \A t, u \in Threads : pc[t] \in StopLabels /\ pc[u] \in StopLabels => t = u
  BY <1>1, <1>2 DEF Alone, Leaving, StopLabels
<1>4. \A t \in Threads : pc[t] \in StopLabels => ~ServeStarting
  BY <1>1, <1>2 DEF QuietInv, StoppedWhileActive, ServeStarting, StopLabels
<1> USE <1>2 DEF Goto, callVars, QuietInv, StoppedWhileActive, SocketGone, Collected, StartsActive,
                 Released, StopLabels, Closing, ServeStarting
<1>5. CASE Serve
  <2>1. CASE ServeRefused
    BY <1>1, <2>1 DEF ServeRefused
  <2>7. CASE ServeGet
    <3>1. pc' \in {[pc EXCEPT ![Main] = "serveWait"], [pc EXCEPT ![Main] = "idle"]}
      BY <2>7 DEF ServeGet
    <3>2. UNCHANGED <<m_active, m_sock, m_loop>>
      BY <2>7 DEF ServeGet
    <3> QED
      BY <1>1, <3>1, <3>2
  <2>4. CASE ServeReturns
    BY <1>1, <2>4 DEF ServeReturns
  <2>5. CASE ServeResetExit
    BY <1>1, <2>5 DEF ServeResetExit
  <2>6. CASE ServeBindFails
    BY <1>1, <2>6 DEF ServeBindFails
  <2>2. CASE ServeEnter
    BY <1>1, <2>2 DEF ServeEnter
  <2>3. CASE ServeBind \/ ServeAsync
    BY <1>1, <1>4, <2>3 DEF ServeBind, ServeAsync
  <2> QED
    BY <1>5, <2>1, <2>2, <2>3, <2>4, <2>5, <2>6, <2>7 DEF Serve
<1>6. CASE Loop
  BY <1>1, <1>6 DEF Loop, LoopCheck, LoopNext, LoopAccept, LoopThrows
<1>7. ASSUME NEW s \in Slots, WorkerHeld(s) \/ WorkerEnds(s) PROVE QuietInv'
  BY <1>1, <1>7 DEF WorkerHeld, WorkerEnds
<1>8. ASSUME NEW c \in Controllers, StopCall(c) PROVE QuietInv'
  BY <1>1, <1>8 DEF StopCall
<1>9. CASE Destroy
  BY <1>1, <1>9 DEF Destroy
<1>10. ASSUME NEW t \in Threads, Stop(t) PROVE QuietInv'
  <2> USE DEF StopReturns
  <2>1. CASE StopEnter(t)
    BY <1>1, <2>1 DEF StopEnter
  <2>2. CASE StopSetExit(t)
    BY <1>1, <2>2 DEF StopSetExit
  <2>3. CASE StopSock(t)
    BY <1>1, <2>3 DEF StopSock
  <2>4. CASE StopClose(t)
    BY <1>1, <2>4 DEF StopClose
  <2>5. CASE StopInvalidate(t)
    BY <1>1, <2>5 DEF StopInvalidate
  <2>6. CASE StopValid(t)
    BY <1>1, <2>6 DEF StopValid
  <2>7. CASE StopGet(t)
    BY <1>1, <2>7 DEF StopGet
  <2>8. CASE StopWait(t)
    BY <1>1, <2>8 DEF StopWait
  <2>9. CASE StopDone(t)
    BY <1>1, <1>3, <1>4, <2>9 DEF StopDone
  <2> QED
    BY <1>10, <2>1, <2>2, <2>3, <2>4, <2>5, <2>6, <2>7, <2>8, <2>9 DEF Stop
<1>11. CASE DestroyExit
  BY <1>1, <1>11 DEF DestroyExit
<1>12. CASE UNCHANGED vars
  BY <1>1, <1>12 DEF vars
<1> QED
  BY <1>1, <1>5, <1>6, <1>7, <1>8, <1>9, <1>10, <1>11, <1>12 DEF Next

(* A server that says it is not running has neither a listening socket nor  *)
(* an accept loop nor an uncollected result, after any number of restarts   *)
(* and faults, if shutdown() is called by one thread at a time and not      *)
(* while serve() starts.  With two of them one may clear m_active for the   *)
(* other's restarted loop.                                                  *)
THEOREM InactiveMeansQuiet ==
  ASSUME EarlyStop = FALSE, \A c, d \in Controllers : c = d
  PROVE  Spec => []InactiveIsQuiet
<1>1. LoopWaitedFor /\ QuietInv => InactiveIsQuiet
  BY DEF LoopWaitedFor, QuietInv, Released, InactiveIsQuiet
<1>2. DestroyInv => Alone
  BY DEF DestroyInv
<1> QED
  BY TypeInit, TypeStep, WaitedInit, WaitedStep, DestroyInit, DestroyStep, QuietInit, QuietStep,
     <1>1, <1>2, PTL DEF Spec
==============================================================================
