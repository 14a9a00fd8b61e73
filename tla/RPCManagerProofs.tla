-------------------------- MODULE RPCManagerProofs --------------------------
(***************************************************************************)
(* Proofs about RPCManager for every set of calls, methods, replies and    *)
(* listen loops: its type invariant, the exactness of the waiter table,    *)
(* the correlation of replies, and that it implements RPCContract.         *)
(*                                                                         *)
(* The properties are not inductive as they stand.  That a response finds  *)
(* its waiter rests on the order of Call's steps: a peer can only answer a *)
(* request that reached the wire, and the request of a call reaches the    *)
(* wire after its waiter is in the table.                                  *)
(***************************************************************************)
EXTENDS RPCManager, TLAPS

(* A response answers a request that was sent, and a request is sent only   *)
(* after Call has registered its waiter.                                    *)
AnswersFollowRequests ==
    /\ \A p \in responses : p.id \in requested
    /\ \A c \in Calls : c \in requested => call[c] \notin {"idle", "registered"}

(* A call that is leaving, or has left, has something to return. *)
OutcomeDecided ==
    \A c \in Calls :
      call[c] \in {"unwinding", "returned"} => outcome[c] \in Replies \cup Failures

IInv ==
    /\ TypeOK
    /\ PendingExact
    /\ RepliesCorrelated
    /\ AnswersFollowRequests
    /\ OutcomeDecided

-----------------------------------------------------------------------------
LEMMA InitIInv == Init => IInv
  BY ConstantsDistinct
     DEF Init, IInv, TypeOK, PendingExact, RepliesCorrelated, AnswersFollowRequests,
         OutcomeDecided, InFlight, Failures, NoPkt, Responses

(* Each action keeps every variable in its type. *)
LEMMA TypeInductive == TypeOK /\ [Next]_vars => TypeOK'
<1> SUFFICES ASSUME TypeOK, [Next]_vars PROVE TypeOK'
  OBVIOUS
<1> USE DEF TypeOK, callVars, loopVars, peerVars
<1>1. ASSUME NEW m \in Methods, Register(m) PROVE TypeOK'
  BY <1>1 DEF Register
<1>2. ASSUME NEW c \in Calls, NEW who \in Loops \cup {App}, CallRegister(c, who) PROVE TypeOK'
  BY <1>2 DEF CallRegister
<1>3. ASSUME NEW c \in Calls, CallSent(c) PROVE TypeOK'
  BY <1>3 DEF CallSent
<1>4. ASSUME NEW c \in Calls, CallWait(c) PROVE TypeOK'
  BY <1>4 DEF CallWait
<1>5. ASSUME NEW c \in Calls, CallSendFailed(c) \/ CallTimeout(c) \/ CallCancelled(c) PROVE TypeOK'
  BY <1>5 DEF CallSendFailed, CallTimeout, CallCancelled, Unwind, Failures
<1>6. ASSUME NEW c \in Calls, CallReceive(c) PROVE TypeOK'
  BY <1>6 DEF CallReceive
<1>7. ASSUME NEW c \in Calls, CallReturn(c) PROVE TypeOK'
  BY <1>7 DEF CallReturn
<1>8. ASSUME Notify PROVE TypeOK'
  BY <1>8 DEF Notify
<1>9. ASSUME NEW i \in Calls \cup {NoID}, NEW r \in Replies, PeerAnswers(i, r) PROVE TypeOK'
  <2>1. [id |-> i, body |-> r] \in Responses
    BY DEF Responses
  <2> QED BY <1>9, <2>1 DEF PeerAnswers
<1>10. ASSUME NEW l \in Loops, NEW p \in Responses, IngressResponse(l, p) PROVE TypeOK'
  BY <1>10 DEF IngressResponse
<1>11. ASSUME NEW l \in Loops, IngressDeliver(l) PROVE TypeOK'
  <2>1. loopPkt[l].body \in Replies \cup {NoReply}
    BY DEF Responses, NoPkt
  <2> QED BY <1>11, <2>1 DEF IngressDeliver
<1>12. ASSUME NEW l \in Loops, NEW m \in Methods, IngressRequest(l, m) PROVE TypeOK'
  BY <1>12 DEF IngressRequest
<1>13. ASSUME NEW l \in Loops, HandlerReturn(l) PROVE TypeOK'
  BY <1>13 DEF HandlerReturn
<1>14. CASE UNCHANGED vars
  BY <1>14 DEF vars
<1> QED
  BY <1>1, <1>2, <1>3, <1>4, <1>5, <1>6, <1>7, <1>8, <1>9, <1>10, <1>11, <1>12, <1>13, <1>14
     DEF Next, CallNext, LoopNext

(* RPCManager keeps its variables in their types: in particular the table   *)
(* never holds anything but request IDs, and a waiter's channel never more  *)
(* than one response.                                                       *)
THEOREM TypeCorrect == Spec => []TypeOK
<1>1. Init => TypeOK
  BY InitIInv DEF IInv
<1> QED BY <1>1, TypeInductive, PTL DEF Spec

-----------------------------------------------------------------------------
(* The strengthened invariant is inductive: one step per action. *)
LEMMA IInvInductive == IInv /\ [Next]_vars => IInv'
<1> SUFFICES ASSUME IInv, [Next]_vars PROVE IInv'
  OBVIOUS
<1>0. TypeOK'
  BY TypeInductive DEF IInv
<1> DEFINE Rest == PendingExact /\ RepliesCorrelated /\ AnswersFollowRequests /\ OutcomeDecided
<1> SUFFICES Rest'
  BY <1>0 DEF IInv
<1> USE DEF IInv, TypeOK, PendingExact, RepliesCorrelated, AnswersFollowRequests,
            OutcomeDecided, InFlight, callVars, loopVars, peerVars
<1>1. ASSUME NEW m \in Methods, Register(m) PROVE Rest'
  BY <1>1 DEF Register
<1>2. ASSUME NEW c \in Calls, NEW who \in Loops \cup {App}, CallRegister(c, who) PROVE Rest'
  BY <1>2 DEF CallRegister
<1>3. ASSUME NEW c \in Calls, CallSent(c) PROVE Rest'
  BY <1>3 DEF CallSent
<1>4. ASSUME NEW c \in Calls, CallWait(c) PROVE Rest'
  BY <1>4 DEF CallWait
<1>5. ASSUME NEW c \in Calls, CallSendFailed(c) \/ CallTimeout(c) \/ CallCancelled(c) PROVE Rest'
  BY <1>5, ConstantsDistinct DEF CallSendFailed, CallTimeout, CallCancelled, Unwind, Failures
<1>6. ASSUME NEW c \in Calls, CallReceive(c) PROVE Rest'
  BY <1>6 DEF CallReceive
<1>7. ASSUME NEW c \in Calls, CallReturn(c) PROVE Rest'
  BY <1>7 DEF CallReturn
<1>8. ASSUME Notify PROVE Rest'
  BY <1>8, ConstantsDistinct DEF Notify
<1>9. ASSUME NEW i \in Calls \cup {NoID}, NEW r \in Replies, PeerAnswers(i, r) PROVE Rest'
  BY <1>9 DEF PeerAnswers
<1>10. ASSUME NEW l \in Loops, NEW p \in Responses, IngressResponse(l, p) PROVE Rest'
  BY <1>10 DEF IngressResponse
<1>11. ASSUME NEW l \in Loops, IngressDeliver(l) PROVE Rest'
  <2>1. loopPkt[l] \in responses /\ loopPkt[l].id \in Calls
    BY <1>11 DEF IngressDeliver
  <2>2. loopPkt[l] = [id |-> loopPkt[l].id, body |-> loopPkt[l].body]
    BY <2>1 DEF Responses
  <2> QED BY <1>11, <2>1, <2>2 DEF IngressDeliver
<1>12. ASSUME NEW l \in Loops, NEW m \in Methods, IngressRequest(l, m) PROVE Rest'
  BY <1>12 DEF IngressRequest
<1>13. ASSUME NEW l \in Loops, HandlerReturn(l) PROVE Rest'
  BY <1>13 DEF HandlerReturn
<1>14. CASE UNCHANGED vars
  BY <1>14 DEF vars
<1> QED
  BY <1>1, <1>2, <1>3, <1>4, <1>5, <1>6, <1>7, <1>8, <1>9, <1>10, <1>11, <1>12, <1>13, <1>14
     DEF Next, CallNext, LoopNext

LEMMA Inductive == Spec => []IInv
  BY InitIInv, IInvInductive, PTL DEF Spec

(* On no path out of Call does the waiter table keep or lose an entry. *)
THEOREM TableExact == Spec => []PendingExact
<1>1. IInv => PendingExact
  BY DEF IInv
<1> QED BY <1>1, Inductive, PTL

(* A response only ever reaches the call whose ID it carries. *)
THEOREM RepliesReachTheirCall == Spec => []RepliesCorrelated
<1>1. IInv => RepliesCorrelated
  BY DEF IInv
<1> QED BY <1>1, Inductive, PTL

(* handleIngress finds a waiter for every response to a call that has not   *)
(* returned, however early the response arrives.                            *)
THEOREM NoResponseWithoutWaiter == Spec => []ResponseFindsWaiter
<1>1. IInv => ResponseFindsWaiter
  <2> SUFFICES ASSUME IInv, NEW p \in responses
               PROVE p.id \in pending <=> (p.id # NoID /\ call[p.id] # "returned")
    BY DEF ResponseFindsWaiter
  <2>1. p.id \in requested /\ p.id \in Calls \cup {NoID}
    BY DEF IInv, TypeOK, AnswersFollowRequests, Responses
  <2>2. CASE p.id = NoID
    BY <2>2, ConstantsDistinct DEF IInv, TypeOK
  <2>3. CASE p.id \in Calls
    BY <2>1, <2>3, ConstantsDistinct
       DEF IInv, TypeOK, PendingExact, InFlight, AnswersFollowRequests
  <2> QED BY <2>1, <2>2, <2>3
<1> QED BY <1>1, Inductive, PTL

-----------------------------------------------------------------------------
(* The refinement: the initial state maps to the contract's, and each       *)
(* action to one of the contract's or to a stutter.                         *)
StatusOf == [c \in Calls |-> CASE call[c] = "idle" -> "unopened"
                               [] call[c] = "returned" -> "closed"
                               [] OTHER -> "open"]
ResultOf == [c \in Calls |-> IF call[c] = "returned" THEN outcome[c] ELSE NoReply]
AnsweredOf == {<<p.id, p.body>> : p \in {q \in responses : q.id # NoID}}

LEMMA InitRefines == Init => Contract!ContractInit
  BY DEF Init, Contract!ContractInit

LEMMA StepRefines == IInv /\ [Next]_vars => [Contract!ContractNext]_(Contract!contractVars)
<1> SUFFICES ASSUME IInv, [Next]_vars
             PROVE [Contract!ContractNext]_(Contract!contractVars)
  OBVIOUS
<1> DEFINE Stutter == StatusOf' = StatusOf /\ ResultOf' = ResultOf /\ AnsweredOf' = AnsweredOf
<1>a. Stutter => UNCHANGED Contract!contractVars
  BY DEF Contract!contractVars, StatusOf, ResultOf, AnsweredOf
<1> USE DEF callVars, loopVars, peerVars
<1>1. ASSUME NEW m \in Methods, Register(m) PROVE Stutter
  BY <1>1 DEF Register, StatusOf, ResultOf, AnsweredOf
<1>2. ASSUME NEW c \in Calls, NEW who \in Loops \cup {App}, CallRegister(c, who)
      PROVE Contract!Open(c)
  BY <1>2 DEF CallRegister, Contract!Open, IInv, TypeOK
<1>3. ASSUME NEW c \in Calls, CallSent(c) PROVE Stutter
  BY <1>3 DEF CallSent, StatusOf, ResultOf, AnsweredOf, IInv, TypeOK
<1>4. ASSUME NEW c \in Calls, CallWait(c) PROVE Stutter
  BY <1>4 DEF CallWait, StatusOf, ResultOf, AnsweredOf, IInv, TypeOK
<1>5. ASSUME NEW c \in Calls, CallSendFailed(c) \/ CallTimeout(c) \/ CallCancelled(c) PROVE Stutter
  BY <1>5 DEF CallSendFailed, CallTimeout, CallCancelled, Unwind,
              StatusOf, ResultOf, AnsweredOf, IInv, TypeOK
<1>6. ASSUME NEW c \in Calls, CallReceive(c) PROVE Stutter
  BY <1>6 DEF CallReceive, StatusOf, ResultOf, AnsweredOf, IInv, TypeOK
<1>7. ASSUME NEW c \in Calls, CallReturn(c) PROVE Contract!Close(c)
  <2>1. outcome[c] \in Failures \cup {r \in Replies : <<c, r>> \in AnsweredOf}
    <3>1. outcome[c] \in Replies \cup Failures
      BY <1>7 DEF CallReturn, IInv, OutcomeDecided
    <3>2. ASSUME outcome[c] \in Replies PROVE <<c, outcome[c]>> \in AnsweredOf
      <4>1. [id |-> c, body |-> outcome[c]] \in {q \in responses : q.id # NoID}
        BY <3>2, ConstantsDistinct DEF IInv, RepliesCorrelated
      <4> QED BY <4>1 DEF AnsweredOf
    <3> QED BY <3>1, <3>2
  <2>2. ResultOf' = [ResultOf EXCEPT ![c] = outcome[c]]
    BY <1>7 DEF CallReturn, ResultOf, IInv, TypeOK
  <2>3. StatusOf[c] = "open" /\ StatusOf' = [StatusOf EXCEPT ![c] = "closed"]
    BY <1>7 DEF CallReturn, StatusOf, IInv, TypeOK
  <2>4. AnsweredOf' = AnsweredOf
    BY <1>7 DEF CallReturn, AnsweredOf
  <2> QED
    BY <2>1, <2>2, <2>3, <2>4 DEF Contract!Close, ResultOf, StatusOf, AnsweredOf
<1>8. ASSUME Notify PROVE Stutter
  BY <1>8 DEF Notify, StatusOf, ResultOf, AnsweredOf
<1>9. ASSUME NEW i \in Calls \cup {NoID}, NEW r \in Replies, PeerAnswers(i, r)
      PROVE Stutter \/ (i \in Calls /\ Contract!Answer(i, r))
  <2>1. StatusOf' = StatusOf /\ ResultOf' = ResultOf
    BY <1>9 DEF PeerAnswers, StatusOf, ResultOf
  <2>2. CASE i = NoID
    <3>1. AnsweredOf' = AnsweredOf
      BY <1>9, <2>2 DEF PeerAnswers, AnsweredOf
    <3> QED BY <2>1, <3>1
  <2>3. CASE i \in Calls
    <3>1. AnsweredOf' = AnsweredOf \cup {<<i, r>>}
      <4>1. {q \in responses' : q.id # NoID}
              = {q \in responses : q.id # NoID} \cup {[id |-> i, body |-> r]}
        BY <1>9, <2>3, ConstantsDistinct DEF PeerAnswers
      <4>2. AnsweredOf' = {<<p.id, p.body>> : p \in {q \in responses' : q.id # NoID}}
        BY DEF AnsweredOf
      <4>3. ASSUME NEW A, NEW x
            PROVE {<<p.id, p.body>> : p \in A \cup {x}}
                    = {<<p.id, p.body>> : p \in A} \cup {<<x.id, x.body>>}
        OBVIOUS
      <4>4. AnsweredOf' = AnsweredOf \cup {<<[id |-> i, body |-> r].id, [id |-> i, body |-> r].body>>}
        BY <4>1, <4>2, <4>3, Zenon DEF AnsweredOf
      <4> QED BY <4>4
    <3>2. StatusOf[i] # "unopened"
      BY <1>9, <2>3 DEF PeerAnswers, StatusOf, IInv, TypeOK, AnswersFollowRequests
    <3> QED
      BY <2>1, <2>3, <3>1, <3>2 DEF Contract!Answer, StatusOf, ResultOf, AnsweredOf
  <2> QED BY <2>2, <2>3
<1>10. ASSUME NEW l \in Loops, LoopNext(l) PROVE Stutter
  BY <1>10 DEF LoopNext, IngressResponse, IngressDeliver, IngressRequest, HandlerReturn,
               StatusOf, ResultOf, AnsweredOf
<1>11. ASSUME UNCHANGED vars PROVE Stutter
  BY <1>11 DEF vars, StatusOf, ResultOf, AnsweredOf
<1>12. Next => Stutter \/ Contract!ContractNext
  <2> HIDE DEF Stutter
  <2> QED
    BY <1>1, <1>2, <1>3, <1>4, <1>5, <1>6, <1>7, <1>8, <1>9, <1>10
       DEF Next, CallNext, Contract!ContractNext
<1> QED
  BY <1>a, <1>11, <1>12

(* RPCManager implements RPCContract: every call is opened once and closed  *)
(* once, with a failure or with a reply that a peer gave to this call.      *)
THEOREM Refinement == Spec => ImplementsContract
  BY InitRefines, StepRefines, Inductive, PTL DEF Spec, ImplementsContract, Contract!ContractSafety

=============================================================================
