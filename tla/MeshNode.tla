------------------------------ MODULE MeshNode ------------------------------
(***************************************************************************)
(* A mesh node's side of the overlay (mesh.go): Connect and reconnect, the *)
(* fields Connect replaces without a lock, the listen loop each Connect    *)
(* starts, SendAction and Close.                                           *)
(*                                                                         *)
(* A Connect owns one QUIC connection, one stream and one Noise session,   *)
(* all named after it.  The process may crash between any two steps and    *)
(* starts again with a new node.  Frames are the subject of SecureChannel; *)
(* here it counts which session a goroutine reads or writes.               *)
(*                                                                         *)
(* The noise library returns no cipher states with the first of IK's two   *)
(* messages, so FirstMessage = {FALSE} is the program as it is.  TRUE is   *)
(* there to take the loops and the senders past the defect this causes.    *)
(***************************************************************************)
CONSTANTS
    Connects,     \* invocations of Connect
    Senders,      \* goroutines in SendAction
    FirstMessage, \* does noise return cipher states with the first message?
    None          \* a nil field

ASSUME MeshAssumptions ==
    /\ None \notin Connects
    /\ FirstMessage \subseteq BOOLEAN

Fields == {"conn", "stream", "csSend", "csRecv"}

VARIABLES
    states,     \* does noise return cipher states with the first message?
    field,      \* the fields of the node: whose connection, stream and states
    cancelled,  \* Close has cancelled the node's context
    connect,    \* per Connect: where it is
    live,       \* connections that are open
    loop,       \* per Connect: where the listen loop it started is
    on,         \* per listen loop: the session whose stream it reads
    send        \* per sender: "idle" or "checked"

meshVars == <<states, field, cancelled, connect, live, loop, on, send>>

(* A Connect that has its connection goes through the steps of the          *)
(* handshake, each of which may fail; while it installs the fields, it is   *)
(* at the next one to assign.                                               *)
Handshake == {"opening", "initiating", "greeting", "compiling", "writing", "reading", "validating"}
ConnectStates == {"idle", "done", "failed"} \cup Handshake \cup Fields
LoopStates == {"off", "top", "selected", "reading", "handling"}

TypeOK ==
    /\ states \in BOOLEAN
    /\ field \in [Fields -> Connects \cup {None}]
    /\ cancelled \in BOOLEAN
    /\ connect \in [Connects -> ConnectStates]
    /\ live \subseteq Connects
    /\ loop \in [Connects -> LoopStates]
    /\ on \in [Connects -> Connects \cup {None}]
    /\ send \in [Senders -> {"idle", "checked"}]

(* A node as NewMeshNode makes it, and what a crash leaves of the old one.  *)
Fresh ==
    /\ field' = [f \in Fields |-> None]
    /\ cancelled' = FALSE
    /\ connect' = [c \in Connects |-> "idle"]
    /\ live' = {}
    /\ loop' = [c \in Connects |-> "off"]
    /\ on' = [c \in Connects |-> None]
    /\ send' = [s \in Senders |-> "idle"]

Init ==
    /\ states \in FirstMessage
    /\ field = [f \in Fields |-> None]
    /\ cancelled = FALSE
    /\ connect = [c \in Connects |-> "idle"]
    /\ live = {}
    /\ loop = [c \in Connects |-> "off"]
    /\ on = [c \in Connects |-> None]
    /\ send = [s \in Senders |-> "idle"]

-----------------------------------------------------------------------------
(* The process ends, by a panic or from outside, and its connections with   *)
(* it; NewMeshNode makes the next node.                                     *)
Crash == Fresh /\ UNCHANGED states

-----------------------------------------------------------------------------
(* Connect.                                                                *)

(* Seeded fault: the error of DialAddr is not looked at. *)
DialUnchecked(c) ==
    /\ connect[c] = "idle"
    /\ connect' = [connect EXCEPT ![c] = "opening"]
    /\ \E conn \in {c, None} : live' = live \cup {conn}
    /\ UNCHANGED <<states, field, cancelled, loop, on, send>>

(* DialAddr succeeds, or there is no connection and Connect returns.        *)
Dial(c) ==
    /\ connect[c] = "idle"
    /\ \/ connect' = [connect EXCEPT ![c] = "opening"] /\ live' = live \cup {c}
       \/ connect' = [connect EXCEPT ![c] = "failed"] /\ UNCHANGED live
    /\ UNCHANGED <<states, field, cancelled, loop, on, send>>

(* A step of the handshake is done ... *)
Proceed(c, next) ==
    /\ connect' = [connect EXCEPT ![c] = next]
    /\ UNCHANGED <<states, field, cancelled, live, loop, on, send>>

(* ... or has failed, and its return closes the connection.                 *)
Abandon(c) ==
    /\ connect' = [connect EXCEPT ![c] = "failed"]
    /\ live' = live \ {c}
    /\ UNCHANGED <<states, field, cancelled, loop, on, send>>

OpenStream(c) ==
    /\ connect[c] = "opening"
    /\ (c \in live /\ Proceed(c, "initiating")) \/ Abandon(c)

NewHandshakeState(c) ==
    /\ connect[c] = "initiating"
    /\ Proceed(c, "greeting") \/ Abandon(c)

WriteMessage(c) ==
    /\ connect[c] = "greeting"
    /\ Proceed(c, "compiling") \/ Abandon(c)

CompileSecureData(c) ==
    /\ connect[c] = "compiling"
    /\ Proceed(c, "writing") \/ Abandon(c)

WriteFirst(c) ==
    /\ connect[c] = "writing"
    /\ (c \in live /\ Proceed(c, "reading")) \/ Abandon(c)

(* The gateway's answer, for which Connect waits without a deadline. *)
ReadAnswer(c) ==
    /\ connect[c] = "reading"
    /\ (c \in live /\ Proceed(c, "validating")) \/ Abandon(c)

(* Seeded fault: the return of a refused answer does not close. *)
ReadMessageLeaks(c) ==
    /\ connect[c] = "validating"
    /\ Proceed(c, "conn") \/ Proceed(c, "failed")

ReadMessage(c) ==
    /\ connect[c] = "validating"
    /\ Proceed(c, "conn") \/ Abandon(c)

(* What Connect assigns to a field: its own connection and stream, and the  *)
(* cipher states that WriteMessage returned for the first message; those of *)
(* ReadMessage, which completes the handshake, are discarded.               *)
Assigned(c, f) == IF f \in {"conn", "stream"} \/ states THEN c ELSE None

AfterField == [conn |-> "stream", stream |-> "csSend", csSend |-> "csRecv", csRecv |-> "done"]

(* The four assignments, one by one; then "go m.listenLoop()" and return.   *)
Install(c) ==
    /\ connect[c] \in Fields
    /\ field' = [field EXCEPT ![connect[c]] = Assigned(c, connect[c])]
    /\ connect' = [connect EXCEPT ![c] = AfterField[@]]
    /\ loop' = IF connect[c] = "csRecv" THEN [loop EXCEPT ![c] = "top"] ELSE loop
    /\ UNCHANGED <<states, cancelled, live, on, send>>

(* Seeded fault: the connection is left to whoever reads it. *)
CloseCancelsOnly ==
    /\ cancelled' = TRUE
    /\ UNCHANGED <<states, field, connect, live, loop, on, send>>

(* Close: cancel the context and close the connection the field names.      *)
Close ==
    /\ cancelled' = TRUE
    /\ live' = live \ {field["conn"]}
    /\ UNCHANGED <<states, field, connect, loop, on, send>>

(* The gateway or the network ends a connection. *)
ConnEnds(c) ==
    /\ c \in live
    /\ live' = live \ {c}
    /\ UNCHANGED <<states, field, cancelled, connect, loop, on, send>>

-----------------------------------------------------------------------------
(* listenLoop.                                                             *)

(* The select on the context ...                                            *)
LoopSelect(c) ==
    /\ loop[c] = "top"
    /\ loop' = [loop EXCEPT ![c] = IF cancelled THEN "off" ELSE "selected"]
    /\ UNCHANGED <<states, field, cancelled, connect, live, on, send>>

(* ... and ReadFrame, called on the stream the field names by then.         *)
LoopRead(c) ==
    /\ loop[c] = "selected"
    /\ loop' = [loop EXCEPT ![c] = "reading"]
    /\ on' = [on EXCEPT ![c] = field["stream"]]
    /\ UNCHANGED <<states, field, cancelled, connect, live, send>>

(* A frame came and was opened: its action is handled on this goroutine.    *)
(* That needs the states of the session that is read, and no second loop    *)
(* that takes part of the bytes.                                            *)
FrameOpened(c) ==
    /\ loop[c] = "reading"
    /\ on[c] \in live
    /\ field["csRecv"] = on[c]
    /\ \A d \in Connects \ {c} : on[d] # on[c]
    /\ loop' = [loop EXCEPT ![c] = "handling"]
    /\ on' = [on EXCEPT ![c] = None]
    /\ UNCHANGED <<states, field, cancelled, connect, live, send>>

(* A frame came and could not be opened: the loop continues.                *)
FrameDropped(c) ==
    /\ loop[c] = "reading"
    /\ on[c] \in live
    /\ field["csRecv"] # None
    /\ loop' = [loop EXCEPT ![c] = "top"]
    /\ on' = [on EXCEPT ![c] = None]
    /\ UNCHANGED <<states, field, cancelled, connect, live, send>>

(* A frame came and there is no cipher state to open it with: Decrypt is    *)
(* called on nil and the process panics.                                    *)
FrameOnNil(c) ==
    /\ loop[c] = "reading"
    /\ on[c] \in live
    /\ field["csRecv"] = None
    /\ Crash

(* ReadFrame failed: the connection is over, or the frame's length is zero  *)
(* or beyond the limit. The loop ends; nothing else is told.                *)
ReadFails(c) ==
    /\ loop[c] = "reading"
    /\ loop' = [loop EXCEPT ![c] = "off"]
    /\ on' = [on EXCEPT ![c] = None]
    /\ UNCHANGED <<states, field, cancelled, connect, live, send>>

(* The handler returned. For a heartbeat that is handleHeartbeat, which     *)
(* signs with a nil key and so has nothing to send (or panics: Crash).      *)
Handled(c) ==
    /\ loop[c] = "handling"
    /\ loop' = [loop EXCEPT ![c] = "top"]
    /\ UNCHANGED <<states, field, cancelled, connect, live, on, send>>

-----------------------------------------------------------------------------
(* Connected, which PeerRoute.Broadcast and SendAction test.                *)
Connected == field["stream"] # None /\ field["csSend"] # None

(* SendAction: the test, before the lock is taken. *)
SendCheck(s) ==
    /\ send[s] = "idle"
    /\ Connected
    /\ send' = [send EXCEPT ![s] = "checked"]
    /\ UNCHANGED <<states, field, cancelled, connect, live, loop, on>>

(* Under writeMu: Encrypt with the state that is there now, and write. *)
SendFrame(s) ==
    /\ send[s] = "checked"
    /\ IF field["csSend"] = None
         THEN Crash
         ELSE /\ send' = [send EXCEPT ![s] = "idle"]
              /\ UNCHANGED <<states, field, cancelled, connect, live, loop, on>>

-----------------------------------------------------------------------------
LoopNext(c) ==
    \/ LoopSelect(c) \/ LoopRead(c) \/ ReadFails(c) \/ Handled(c)
    \/ FrameOpened(c) \/ FrameDropped(c) \/ FrameOnNil(c)

HandshakeNext(c) ==
    \/ OpenStream(c) \/ NewHandshakeState(c) \/ WriteMessage(c) \/ CompileSecureData(c)
    \/ WriteFirst(c) \/ ReadAnswer(c) \/ ReadMessage(c)

Next ==
    \/ Close \/ Crash
    \/ \E c \in Connects :
         Dial(c) \/ HandshakeNext(c) \/ Install(c) \/ ConnEnds(c) \/ LoopNext(c)
    \/ \E s \in Senders : SendCheck(s) \/ SendFrame(s)

Spec == Init /\ [][Next]_meshVars

(* Goroutines run, a read on a connection that is over returns, and         *)
(* handlers return. Nothing has to start, arrive or crash.                  *)
FairSpec ==
    /\ Spec
    /\ \A c \in Connects :
         /\ WF_meshVars(Install(c))
         /\ WF_meshVars(LoopSelect(c))
         /\ WF_meshVars(LoopRead(c))
         /\ WF_meshVars(Handled(c))
         /\ WF_meshVars(on[c] \notin live /\ ReadFails(c))

-----------------------------------------------------------------------------
(* A Connect that returned an error, at whichever of its eight returns,     *)
(* leaves nothing behind: its connection is closed, and no field of the     *)
(* node was touched.                                                        *)
FailedConnectLeavesNothing ==
    \A c \in Connects :
      connect[c] = "failed" => c \notin live /\ \A f \in Fields : field[f] # c

(* Close ends the listen loop of the session the node has, also one that    *)
(* has passed its look at the context and is about to read, unless a        *)
(* Connect replaces the stream under it.                                    *)
CloseEndsLoop ==
    \A c \in Connects :
      cancelled /\ field["conn"] = c /\ field["stream"] = c ~>
        loop[c] = "off" \/ field["stream"] # c

(* README, QUIC Mesh Networking: "Bidirectional secure overlay              *)
(* communication". Once Connect has returned without an error the node can  *)
(* send.                                                                    *)
EstablishedCanSend == \A c \in Connects : connect[c] = "done" => Connected

=============================================================================
