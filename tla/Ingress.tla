------------------------------ MODULE Ingress ------------------------------
(***************************************************************************)
(* The ingress of a Router as Boot starts it: the proxy to the tunnel in   *)
(* front of a mux with the two DBSC routes and the pages.  A request the   *)
(* mux gets is an invocation of a DBSC handler, or done at once.           *)
(***************************************************************************)
EXTENDS Router

CONSTANTS Sessions, Keys

ASSUME KeysAssumption == Keys \cap {"", "null", "no record", "no answer"} = {}

VARIABLES record, handler, bound

D == INSTANCE DBSC WITH Handlers <- Requests

dbscVars == <<record, handler, bound>>
ingressVars == <<routerVars, dbscVars>>

TypeOK == RouterTypeOK /\ D!DBSCTypeOK

Init == RouterInit /\ D!DBSCInit

(* The mux calls the handler of the request's path. *)
Serve(r) ==
    /\ At(r, "mux")
    /\ \E s \in Sessions :
         \/ \E k \in D!Registered : D!StartSession(r, s, k)
         \/ D!Refresh(r, s)
    /\ UNCHANGED routerVars

(* A page, or a request a handler refuses before it does anything. *)
ServePage(r) ==
    /\ At(r, "mux")
    /\ handler[r] = D!NotCalled
    /\ Goes(r, "idle")
    /\ Elsewhere /\ UNCHANGED <<copying, client, forwarded, served, dbscVars>>

ServeEnds(r) ==
    /\ At(r, "mux")
    /\ D!Return(r)
    /\ Goes(r, "idle")
    /\ Elsewhere /\ UNCHANGED <<copying, client, forwarded, served>>

Mux(r) ==
    \/ Serve(r) \/ ServePage(r) \/ ServeEnds(r)
    \/ D!DBSCWork(r) /\ UNCHANGED routerVars

Next ==
    \/ RouterNext /\ UNCHANGED dbscVars
    \/ \E r \in Requests : Mux(r)
    \/ \E s \in Sessions : D!Expire(s) /\ UNCHANGED routerVars

Spec == Init /\ [][Next]_ingressVars

(* Request goroutines run, and operations on a closed connection fail.      *)
(* Nothing makes an agent answer, a client go on or a connection end.       *)
FairSpec == Spec /\ \A r \in Requests : WF_ingressVars(Bound(r) /\ UNCHANGED dbscVars)

-----------------------------------------------------------------------------
(* proxyToTunnel falls back to the mux only while nothing of the request    *)
(* has left: no request is handled both by an agent and here, whenever the  *)
(* tunnel closes or is taken over.                                          *)
HandledOnce == served \cap forwarded = {}

(* RefreshProvesBoundKey of DBSC, behind the proxy. *)
RefreshProvesBoundKey == D!RefreshProvesBoundKey

(* No request stays behind with a connection that was taken over or broke:  *)
(* it is answered, or goes to the mux if nothing has left yet, and both     *)
(* copy goroutines of a hijacked connection end, although the agent may     *)
(* never answer and each goroutine waits for one side only. Only a client   *)
(* that stalls can hold it, for as long as it does.                         *)
LostTunnelRequestsEnd ==
    \A r \in Requests :
      req[r].tunnel \in Tunnels /\ (req[r].tunnel # activeTunnel \/ req[r].tunnel \in closed)
        ~> req[r].tunnel = NoTunnel \/ client[r] = "stalled"

=============================================================================
