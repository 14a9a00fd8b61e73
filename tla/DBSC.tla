-------------------------------- MODULE DBSC --------------------------------
(***************************************************************************)
(* Device-bound session credentials (dbsc.go): the session records in the  *)
(* store, handleStartSession, which binds a session to a key, and          *)
(* handleRefreshEndpoint, which renews the cookie of whoever proves to     *)
(* hold that key.  Each handler loads and saves in transactions of its own *)
(* and others run in between.                                              *)
(*                                                                         *)
(* The user name of a record is left out: a session token fixes it.        *)
(***************************************************************************)
CONSTANTS
    Handlers,   \* invocations of the two handlers
    Sessions,   \* session identifiers (jti)
    Keys        \* device keys, as JSON web keys

(* What jwkFromRegistrationJWT returns: a key; "" for no or a malformed     *)
(* token; "null" for a token whose header has no key.                       *)
Registered == Keys \cup {"", "null"}

VARIABLES
    record,   \* per session: the key of its record, or "no record"
    handler,  \* per invocation: where it is
    bound     \* history, per refresh: keys its session was bound to since it began

dbscVars == <<record, handler, bound>>

Stages == {"saving", "loading", "checking", "refreshed", "over"}
Invocations == [at : Stages, session : Sessions, key : Registered]
NotCalled == [at |-> "not called"]

DBSCTypeOK ==
    /\ record \in [Sessions -> Registered \cup {"no record"}]
    /\ handler \in [Handlers -> Invocations \cup {NotCalled}]
    /\ bound \in [Handlers -> SUBSET Keys]

DBSCInit ==
    /\ record = [s \in Sessions |-> "no record"]
    /\ handler = [h \in Handlers |-> NotCalled]
    /\ bound = [h \in Handlers |-> {}]

(* A refresh of s is at work. *)
Refreshing(h, s) ==
    handler[h] # NotCalled /\ handler[h].session = s /\ handler[h].at \in {"loading", "checking"}

(* The record of s becomes k, and the refreshes at work see it change. *)
Bind(s, k) ==
    /\ record' = [record EXCEPT ![s] = k]
    /\ bound' = [h \in Handlers |->
         IF Refreshing(h, s) THEN bound[h] \cup ({k} \cap Keys) ELSE bound[h]]

(* The record's time to live has passed. *)
Expire(s) == record[s] # "no record" /\ Bind(s, "no record") /\ UNCHANGED handler

-----------------------------------------------------------------------------
(* handleStartSession.                                                     *)

(* The cookie is valid, the token's key is read, the user is looked up. *)
StartSession(h, s, k) ==
    /\ handler[h] = NotCalled
    /\ handler' = [handler EXCEPT ![h] = [at |-> "saving", session |-> s, key |-> k]]
    /\ UNCHANGED <<record, bound>>

(* The record is replaced: a key bound before is not carried over. If the   *)
(* store fails, nobody is told. The cookie and the terms are sent anyway.   *)
SaveSession(h) ==
    /\ handler[h] # NotCalled /\ handler[h].at = "saving"
    /\ \/ Bind(handler[h].session, handler[h].key)
       \/ UNCHANGED <<record, bound>>
    /\ handler' = [handler EXCEPT ![h].at = "over"]

-----------------------------------------------------------------------------
(* handleRefreshEndpoint.                                                  *)

(* The cookie names the session. *)
Refresh(h, s) ==
    /\ handler[h] = NotCalled
    /\ handler' = [handler EXCEPT ![h] = [at |-> "loading", session |-> s, key |-> ""]]
    /\ bound' = [bound EXCEPT ![h] = {record[s]} \cap Keys]
    /\ UNCHANGED record

(* The key loadDBSCSession finds; a missing or unreadable record has none. *)
StoredKey(s) == IF record[s] = "no record" THEN "" ELSE record[s]

LoadSession(h) ==
    /\ handler[h] # NotCalled /\ handler[h].at = "loading"
    /\ LET k == StoredKey(handler[h].session) IN
       handler' = [handler EXCEPT ![h].at = IF k = "" THEN "over" ELSE "checking", ![h].key = k]
    /\ UNCHANGED <<record, bound>>

Answers == Keys \cup {"no answer"}

(* Seeded fault: the answer is verified with the key it brings along. *)
CheckAnswerAny(h, signer) ==
    /\ handler[h] # NotCalled /\ handler[h].at = "checking"
    /\ handler' = [handler EXCEPT ![h] =
         IF signer \in Keys THEN [@ EXCEPT !.at = "refreshed", !.key = signer]
                            ELSE [@ EXCEPT !.at = "over"]]
    /\ UNCHANGED <<record, bound>>

(* Without an answer there is a challenge; "null" is not a key; otherwise   *)
(* the answer must be signed with the key that was loaded.                  *)
CheckAnswer(h, signer) ==
    /\ handler[h] # NotCalled /\ handler[h].at = "checking"
    /\ handler' = [handler EXCEPT ![h] =
         IF signer \in Keys /\ signer = handler[h].key
           THEN [@ EXCEPT !.at = "refreshed", !.key = signer]
           ELSE [@ EXCEPT !.at = "over"]]
    /\ UNCHANGED <<record, bound>>

(* The handler returns. *)
Return(h) ==
    /\ handler[h] # NotCalled /\ handler[h].at \in {"over", "refreshed"}
    /\ handler' = [handler EXCEPT ![h] = NotCalled]
    /\ bound' = [bound EXCEPT ![h] = {}]
    /\ UNCHANGED record

(* A handler at work. *)
DBSCWork(h) ==
    SaveSession(h) \/ LoadSession(h) \/ \E signer \in Answers : CheckAnswer(h, signer)

(* The cookie is renewed only for a key the session was bound to at some    *)
(* moment of this refresh: one that was replaced or expired before the      *)
(* refresh began no longer counts.                                          *)
RefreshProvesBoundKey ==
    \A h \in Handlers :
      handler[h] # NotCalled /\ handler[h].at = "refreshed" => handler[h].key \in bound[h]

=============================================================================
