---------------------------- MODULE RPCContract ----------------------------
(***************************************************************************)
(* What RPCManager.Call promises its caller, without the waiter table, the *)
(* channels and the listen loops: a call is opened once, peers may answer  *)
(* it any number of times (none, one, several, late), and it is closed     *)
(* exactly once, with an answer that a peer really gave to this very call  *)
(* or with one of the failures the caller can observe.                     *)
(***************************************************************************)

CONSTANTS
    Calls,     \* the calls, each identified by the request ID it draws
    Replies,   \* the bodies a response can carry (payload or error text)
    Failures,  \* the ways Call fails without a response
    NoReply    \* what the result of a call is before it is closed

VARIABLES
    status,    \* per call: "unopened", "open" or "closed"
    result,    \* per call: what Call returned
    answered   \* the pairs <<call, reply>> that peers have produced

contractVars == <<status, result, answered>>

ContractInit ==
    /\ status = [c \in Calls |-> "unopened"]
    /\ result = [c \in Calls |-> NoReply]
    /\ answered = {}

Open(c) ==
    /\ status[c] = "unopened"
    /\ status' = [status EXCEPT ![c] = "open"]
    /\ UNCHANGED <<result, answered>>

(* A peer can only answer a call that has been made; it may do so after the *)
(* caller has given up.                                                     *)
Answer(c, r) ==
    /\ status[c] # "unopened"
    /\ answered' = answered \cup {<<c, r>>}
    /\ UNCHANGED <<status, result>>

Close(c) ==
    /\ status[c] = "open"
    /\ \E v \in Failures \cup {r \in Replies : <<c, r>> \in answered} :
          result' = [result EXCEPT ![c] = v]
    /\ status' = [status EXCEPT ![c] = "closed"]
    /\ UNCHANGED answered

ContractNext ==
    \E c \in Calls : Open(c) \/ Close(c) \/ \E r \in Replies : Answer(c, r)

ContractSafety == ContractInit /\ [][ContractNext]_contractVars

=============================================================================
