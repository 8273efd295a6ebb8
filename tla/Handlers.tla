------------------------------ MODULE Handlers ------------------------------
(***************************************************************************)
(* One exchange with the handlers the library brings along: a user's       *)
(* handler that may stream events, or a StaticServer.                      *)
(***************************************************************************)
EXTENDS EventStream, StaticServer

VARIABLE served_by       \* "user" or "static"

handlersVars == <<eventVars, staticVars, served_by>>

HandlersInit ==
  /\ RwInit
  /\ sse = "none" /\ StaticIdle
  /\ \/ served_by = "static"
     \/ /\ served_by = "user"
        /\ req = CHOOSE r \in Requests : TRUE
        /\ disk.size = CHOOSE n \in Sizes : TRUE

UserServes ==
  /\ served_by = "user"
  /\ EventNext
  /\ UNCHANGED <<at, req, location, fileVars, readVars, served_by>>

StaticServes ==
  /\ served_by = "static"
  /\ StaticNext
  /\ UNCHANGED <<sse, served_by>>

HandlersNext == UserServes \/ StaticServes

HandlersSpec == HandlersInit /\ [][HandlersNext]_handlersVars
==============================================================================
