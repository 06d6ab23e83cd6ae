------------------------------ MODULE Serving -------------------------------
(***************************************************************************)
(* The serving side of the daemon: connections (Http), the requests they   *)
(* carry (Api) and what is kept about them (Guard).  The three share no    *)
(* state: a connection calls the handler between setting and clearing its  *)
(* busy flag whatever the request, and the limiter and the guard see only  *)
(* who asked, when, and the status of the answer.  A behaviour therefore   *)
(* exercises one of them, and the others rest.                             *)
(***************************************************************************)
EXTENDS Api, Http, Guard

VARIABLE scene

vars == <<scene, apiVars, httpVars, guardVars>>

Init ==
    /\ scene \in {"requests", "connections", "rates"}
    /\ HttpInit
    /\ ApiInit
    /\ GuardInit
    /\ scene # "requests" => deployment = CHOOSE d \in Deployments : TRUE
    /\ scene # "connections" => load = CHOOSE l \in Loads : TRUE
    /\ scene # "rates" => part = "limits"

RequestStep == ApiNext /\ UNCHANGED <<scene, httpVars, guardVars>>
ConnectionStep == HttpNext /\ UNCHANGED <<scene, apiVars, guardVars>>
RateStep == GuardNext /\ UNCHANGED <<scene, apiVars, httpVars>>

Next ==
    \/ scene = "requests" /\ RequestStep
    \/ scene = "connections" /\ ConnectionStep
    \/ scene = "rates" /\ RateStep

Spec == Init /\ [][Next]_vars

Serves == scene = "connections"

(* Threads run, and a shut socket or the flag ends a wait; nothing is      *)
(* assumed of clients, nor that anybody stops the server.                  *)
Fairness ==
    /\ WF_threadVars(Serves /\ ShutListener)
    /\ WF_threadVars(Serves /\ AcceptEnds)
    /\ WF_threadVars(Serves /\ Main)
    /\ \A c \in Connections :
         /\ WF_threadVars(Serves /\ Thread(c))
         /\ WF_threadVars(Serves /\ conn[c].shut /\ ReadRequest(c))
         /\ WF_threadVars(Serves /\ (told \/ conn[c].shut) /\ StreamEnds(c))

FairSpec == Spec /\ Fairness

TypeOK ==
    /\ scene \in {"requests", "connections", "rates"}
    /\ ApiTypeOK /\ HttpTypeOK /\ GuardTypeOK
=============================================================================
