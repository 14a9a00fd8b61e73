----------------------------- MODULE RPCManager -----------------------------
(***************************************************************************)
(* The RPCManager of one node (mesh_rpc.go): the goroutines that run Call, *)
(* the waiter table `pending` they share with the listen loops, and        *)
(* handleIngress, which every listen loop runs synchronously for each      *)
(* "rpc" frame it decodes.                                                 *)
(*                                                                         *)
(* A call is identified with the request ID it draws: 16 bytes from        *)
(* crypto/rand are taken to be distinct from the IDs of all other calls.   *)
(* Packets are what handleIngress has unmarshalled.  Responses may be      *)
(* lost, duplicated, reordered and arbitrarily late: a response stays in   *)
(* `responses` once a peer produced it and a loop may read it any number   *)
(* of times, or never.                                                     *)
(***************************************************************************)
EXTENDS Naturals

CONSTANTS
    Calls,         \* request IDs, one per invocation of Call
    Methods,       \* RPC method names
    Replies,       \* response bodies: a payload, or the error text of a handler
    Loops,         \* listen loops, one per Connect of the MeshNode
    App,           \* an application goroutine, as the issuer of a call
    NoID,          \* the empty ID of Broadcast, Notify and NotifyPeer packets
    NoReply        \* "no response": an empty channel, an unfinished call

(* The ways Call returns without a response: SendToPeer failed, the timer   *)
(* of the select fired, or the caller's context was cancelled.              *)
Failures == {"sendError", "timeout", "cancelled"}

ASSUME ConstantsDistinct ==
    /\ App \notin Loops
    /\ NoID \notin Calls
    /\ NoReply \notin Replies
    /\ NoReply \notin Failures
    /\ Replies \cap Failures = {}

VARIABLES
    handlers,   \* methods with a registered handler
    pending,    \* request IDs that have a waiter in the table
    call,       \* per call: where Call is
    issuer,     \* per call: the application, or the loop whose handler made it
    waiter,     \* per call: the content of the waiter's channel of capacity 1
    outcome,    \* per call: what the select chose, to be returned
    requested,  \* IDs of the request packets that have reached the wire
    responses,  \* response packets that peers have produced
    loopAt,     \* per loop: where handleIngress is
    loopPkt     \* per loop: the response in hand between lookup and delivery

vars == <<handlers, pending, call, issuer, waiter, outcome, requested,
          responses, loopAt, loopPkt>>

callVars == <<pending, call, issuer, waiter, outcome>>
loopVars == <<loopAt, loopPkt>>
peerVars == <<requested, responses>>

Responses == [id : Calls \cup {NoID}, body : Replies]
NoPkt == [id |-> NoID, body |-> NoReply]

TypeOK ==
    /\ handlers \subseteq Methods
    /\ pending \subseteq Calls
    /\ call \in [Calls -> {"idle", "registered", "sent", "waiting", "unwinding", "returned"}]
    /\ issuer \in [Calls -> Loops \cup {App}]
    /\ waiter \in [Calls -> Replies \cup {NoReply}]
    /\ outcome \in [Calls -> Replies \cup Failures \cup {NoReply}]
    /\ requested \subseteq Calls \cup {NoID}
    /\ responses \subseteq Responses
    /\ loopAt \in [Loops -> {"reading", "deliver", "handler"}]
    /\ loopPkt \in [Loops -> Responses \cup {NoPkt}]

Init ==
    /\ handlers = {}
    /\ pending = {}
    /\ call = [c \in Calls |-> "idle"]
    /\ issuer = [c \in Calls |-> App]
    /\ waiter = [c \in Calls |-> NoReply]
    /\ outcome = [c \in Calls |-> NoReply]
    /\ requested = {}
    /\ responses = {}
    /\ loopAt = [l \in Loops |-> "reading"]
    /\ loopPkt = [l \in Loops |-> NoPkt]

-----------------------------------------------------------------------------
(* Call, Register and the notifications.                                   *)

Register(m) ==
    /\ handlers' = handlers \cup {m}
    /\ UNCHANGED <<callVars, loopVars, peerVars>>

(* Call is between the insertion of its waiter and the deferred delete. *)
InFlight(c) == call[c] \in {"registered", "sent", "waiting", "unwinding"}

(* A handler running on loop l has a call of its own to wait for. *)
NestedOpen(l) == \E c \in Calls : issuer[c] = l /\ InFlight(c)

(* Seeded faults: the waiter filed under the packet's still empty ID, and   *)
(* the waiter not filed before the request is sent.                         *)
CallRegisterEmptyID(c, who) ==
    /\ call[c] = "idle"
    /\ who \in Loops => loopAt[who] = "handler" /\ ~NestedOpen(who)
    /\ pending' = pending \cup {NoID}
    /\ call' = [call EXCEPT ![c] = "registered"]
    /\ issuer' = [issuer EXCEPT ![c] = who]
    /\ UNCHANGED <<handlers, waiter, outcome, loopVars, peerVars>>
CallRegisterLate(c, who) ==
    /\ call[c] = "idle"
    /\ who \in Loops => loopAt[who] = "handler" /\ ~NestedOpen(who)
    /\ call' = [call EXCEPT ![c] = "registered"]
    /\ issuer' = [issuer EXCEPT ![c] = who]
    /\ UNCHANGED <<handlers, pending, waiter, outcome, loopVars, peerVars>>

(* Draw the ID, make the waiter, insert it under the lock.  The issuer is   *)
(* an application goroutine or a handler, which runs on a listen loop.      *)
CallRegister(c, who) ==
    /\ call[c] = "idle"
    /\ who \in Loops => loopAt[who] = "handler" /\ ~NestedOpen(who)
    /\ pending' = pending \cup {c}
    /\ call' = [call EXCEPT ![c] = "registered"]
    /\ issuer' = [issuer EXCEPT ![c] = who]
    /\ UNCHANGED <<handlers, waiter, outcome, loopVars, peerVars>>

(* The request is on the wire; SendToPeer is still inside the write. The    *)
(* peer may answer, and a loop may deliver the answer, before it returns.   *)
CallSent(c) ==
    /\ call[c] = "registered"
    /\ call' = [call EXCEPT ![c] = "sent"]
    /\ requested' = requested \cup {c}
    /\ UNCHANGED <<handlers, pending, issuer, waiter, outcome, loopVars, responses>>

(* SendToPeer returned nil: the select is entered and its timer starts.     *)
CallWait(c) ==
    /\ call[c] = "sent"
    /\ call' = [call EXCEPT ![c] = "waiting"]
    /\ UNCHANGED <<handlers, pending, issuer, waiter, outcome, loopVars, peerVars>>

(* Call leaves with the failure v, to be returned once the deferred function *)
(* has run.                                                                 *)
Unwind(c, v) ==
    /\ call' = [call EXCEPT ![c] = "unwinding"]
    /\ outcome' = [outcome EXCEPT ![c] = v]
    /\ UNCHANGED <<handlers, pending, issuer, waiter, loopVars, peerVars>>

(* SendToPeer failed: no mesh node, no tunnel, or a failed stream write,    *)
(* which can fail even though the frame has reached the peer.               *)
CallSendFailed(c) ==
    /\ call[c] \in {"registered", "sent"}
    /\ Unwind(c, "sendError")

(* The response is taken out of the channel. *)
CallReceive(c) ==
    /\ call[c] = "waiting"
    /\ waiter[c] # NoReply
    /\ waiter' = [waiter EXCEPT ![c] = NoReply]
    /\ outcome' = [outcome EXCEPT ![c] = waiter[c]]
    /\ call' = [call EXCEPT ![c] = "unwinding"]
    /\ UNCHANGED <<handlers, pending, issuer, loopVars, peerVars>>

(* Seeded fault: a select without a timer. *)
CallTimeoutNever(c) == call[c] = "waiting" /\ waiter[c] # NoReply /\ Unwind(c, "timeout")

(* Go's select picks any ready branch: the timer can win over a response    *)
(* that is already in the channel.                                          *)
CallTimeout(c) == call[c] = "waiting" /\ Unwind(c, "timeout")

CallCancelled(c) == call[c] = "waiting" /\ Unwind(c, "cancelled")

(* Seeded fault: the delete only on the paths that received a response. *)
CallReturnLeaks(c) ==
    /\ call[c] = "unwinding"
    /\ pending' = IF outcome[c] \in Replies THEN pending \ {c} ELSE pending
    /\ call' = [call EXCEPT ![c] = "returned"]
    /\ UNCHANGED <<handlers, issuer, waiter, outcome, loopVars, peerVars>>

(* The deferred delete, on every path out of Call. *)
CallReturn(c) ==
    /\ call[c] = "unwinding"
    /\ pending' = pending \ {c}
    /\ call' = [call EXCEPT ![c] = "returned"]
    /\ UNCHANGED <<handlers, issuer, waiter, outcome, loopVars, peerVars>>

(* Broadcast, Notify and NotifyPeer send a request packet with no ID and no *)
(* waiter; a send that fails changes nothing.                               *)
Notify ==
    /\ requested' = requested \cup {NoID}
    /\ UNCHANGED <<handlers, callVars, loopVars, responses>>

-----------------------------------------------------------------------------
(* The peers: any node that has the method answers with the ID it was sent, *)
(* the empty one of a notification included, and a request that reached     *)
(* several nodes is answered several times. What the far side writes is not *)
(* fixed by this repository; a payload that handleIngress cannot unmarshal  *)
(* changes nothing, so only well-formed packets appear here.                *)
PeerAnswers(i, r) ==
    /\ i \in requested
    /\ responses' = responses \cup {[id |-> i, body |-> r]}
    /\ UNCHANGED <<handlers, callVars, loopVars, requested>>

-----------------------------------------------------------------------------
(* handleIngress on listen loop l.                                         *)

(* A response: look the waiter up under the read lock. A response that no   *)
(* call waits for is dropped.                                               *)
IngressResponse(l, p) ==
    /\ loopAt[l] = "reading"
    /\ p \in responses
    /\ IF p.id \in pending
         THEN /\ loopAt' = [loopAt EXCEPT ![l] = "deliver"]
              /\ loopPkt' = [loopPkt EXCEPT ![l] = p]
         ELSE UNCHANGED loopVars
    /\ UNCHANGED <<handlers, callVars, peerVars>>

(* Seeded faults: any pending waiter is woken; a blocking send. *)
IngressDeliverAny(l) ==
    /\ loopAt[l] = "deliver"
    /\ \E c \in pending : waiter' = [waiter EXCEPT ![c] = loopPkt[l].body]
    /\ loopAt' = [loopAt EXCEPT ![l] = "reading"]
    /\ loopPkt' = [loopPkt EXCEPT ![l] = NoPkt]
    /\ UNCHANGED <<handlers, pending, call, issuer, outcome, peerVars>>
IngressDeliverBlocking(l) ==
    /\ loopAt[l] = "deliver"
    /\ waiter[loopPkt[l].id] = NoReply
    /\ waiter' = [waiter EXCEPT ![loopPkt[l].id] = loopPkt[l].body]
    /\ loopAt' = [loopAt EXCEPT ![l] = "reading"]
    /\ loopPkt' = [loopPkt EXCEPT ![l] = NoPkt]
    /\ UNCHANGED <<handlers, pending, call, issuer, outcome, peerVars>>

(* The non-blocking send into the waiter's channel, after the lock is       *)
(* released: by now the call may have returned and left the table.          *)
IngressDeliver(l) ==
    /\ loopAt[l] = "deliver"
    /\ LET c == loopPkt[l].id IN
         waiter' = [waiter EXCEPT ![c] = IF @ = NoReply THEN loopPkt[l].body ELSE @]
    /\ loopAt' = [loopAt EXCEPT ![l] = "reading"]
    /\ loopPkt' = [loopPkt EXCEPT ![l] = NoPkt]
    /\ UNCHANGED <<handlers, pending, call, issuer, outcome, peerVars>>

(* A request: the dataframe engine accepts it or not (`granted`), then the  *)
(* handler is looked up and runs on the loop's own goroutine.               *)
IngressRequest(l, m) ==
    /\ loopAt[l] = "reading"
    /\ \E granted \in BOOLEAN :
         IF granted /\ m \in handlers
           THEN loopAt' = [loopAt EXCEPT ![l] = "handler"]
           ELSE UNCHANGED loopAt
    /\ UNCHANGED <<handlers, callVars, loopPkt, peerVars>>

(* The handler returned; the response is written to the same stream, its    *)
(* error is ignored, and the loop reads its next frame.                     *)
HandlerReturn(l) ==
    /\ loopAt[l] = "handler"
    /\ ~NestedOpen(l)
    /\ loopAt' = [loopAt EXCEPT ![l] = "reading"]
    /\ UNCHANGED <<handlers, callVars, loopPkt, peerVars>>

-----------------------------------------------------------------------------
CallNext(c) ==
    \/ \E who \in Loops \cup {App} : CallRegister(c, who)
    \/ CallSent(c)
    \/ CallWait(c)
    \/ CallSendFailed(c)
    \/ CallReceive(c)
    \/ CallTimeout(c)
    \/ CallCancelled(c)
    \/ CallReturn(c)

LoopNext(l) ==
    \/ \E p \in Responses : IngressResponse(l, p)
    \/ IngressDeliver(l)
    \/ \E m \in Methods : IngressRequest(l, m)
    \/ HandlerReturn(l)

Next ==
    \/ \E c \in Calls : CallNext(c)
    \/ \E l \in Loops : LoopNext(l)
    \/ \E m \in Methods : Register(m)
    \/ Notify
    \/ \E i \in Calls \cup {NoID}, r \in Replies : PeerAnswers(i, r)

Spec == Init /\ [][Next]_vars

(* The Go runtime schedules every goroutine that can run, and the timer of  *)
(* a select fires. The peers need never answer.                             *)
Scheduling ==
    /\ \A c \in Calls : WF_vars(CallTimeout(c)) /\ WF_vars(CallReturn(c))
    /\ \A l \in Loops : WF_vars(IngressDeliver(l))

(* A stream write returns, of a request or of the response of a handler     *)
(* whose calls have returned: the peer keeps reading, or its connection     *)
(* ends. No deadline of this program makes it.                              *)
WritesReturn ==
    /\ \A c \in Calls : /\ WF_vars(CallSent(c) \/ CallSendFailed(c))
                        /\ WF_vars(CallWait(c) \/ CallSendFailed(c))
    /\ \A l \in Loops : WF_vars(HandlerReturn(l))

FairSpec == Spec /\ Scheduling /\ WritesReturn

-----------------------------------------------------------------------------
(* The refinement mapping to RPCContract: a call is open from its insertion *)
(* in the table until the deferred delete, and its result is visible to the *)
(* caller only then.                                                        *)

Contract == INSTANCE RPCContract WITH
    status <- [c \in Calls |-> CASE call[c] = "idle" -> "unopened"
                                 [] call[c] = "returned" -> "closed"
                                 [] OTHER -> "open"],
    result <- [c \in Calls |-> IF call[c] = "returned" THEN outcome[c] ELSE NoReply],
    answered <- {<<p.id, p.body>> : p \in {q \in responses : q.id # NoID}}

(* RPCManager implements the contract of Call: every call is closed exactly *)
(* once, and a reply it returns was produced for this very request ID, in   *)
(* spite of late, duplicated and unmatched responses in handleIngress.      *)
ImplementsContract == Contract!ContractSafety

-----------------------------------------------------------------------------
(* The waiter table holds exactly the calls between the insertion and the   *)
(* deferred delete: no path out of Call leaks an entry, and no call waits   *)
(* without one.                                                             *)
PendingExact == pending = {c \in Calls : InFlight(c)}

(* A response that reached a call, in the loop's hand, in its channel or as *)
(* its outcome, was produced by a peer for that call's own ID, although the *)
(* loop uses its waiter after it has released the lock of the table.        *)
RepliesCorrelated ==
    /\ \A l \in Loops : loopAt[l] = "deliver" =>
          loopPkt[l] \in responses /\ loopPkt[l].id \in Calls
    /\ \A c \in Calls : waiter[c] # NoReply =>
          [id |-> c, body |-> waiter[c]] \in responses
    /\ \A c \in Calls : outcome[c] \in Replies =>
          [id |-> c, body |-> outcome[c]] \in responses

(* No response is lost for want of a waiter: from the first moment a peer   *)
(* can answer, even before SendToPeer has returned, until Call returns, a   *)
(* loop that looks the ID up finds it, and no notification is mistaken for  *)
(* a call.                                                                  *)
ResponseFindsWaiter ==
    \A p \in responses : p.id \in pending <=> (p.id # NoID /\ call[p.id] # "returned")

(* handleIngress never blocks a listen loop for good: neither a second      *)
(* response for a full channel, nor one for a call that has just returned,  *)
(* nor a handler whose nested call can only time out.                       *)
IngressReturns == \A l \in Loops : loopAt[l] # "reading" ~> loopAt[l] = "reading"

(* Every call that was made returns, whether or not it is answered, because *)
(* its timer fires if nothing else happens. That is less than the README's  *)
(* "timeout enforcement": the timer is set when SendToPeer has returned, so *)
(* the property needs WritesReturn, and the timeout does not bound it.      *)
EveryCallReturns == \A c \in Calls : InFlight(c) ~> call[c] = "returned"

=============================================================================
