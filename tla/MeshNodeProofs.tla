--------------------------- MODULE MeshNodeProofs ---------------------------
(***************************************************************************)
(* Proofs about MeshNode for any number of Connects and senders: types,    *)
(* and that a failed Connect leaves nothing behind.                        *)
(***************************************************************************)
EXTENDS MeshNode, TLAPS

(* A crash or a use of nil leaves a fresh node. *)
LEMMA CrashTyped == TypeOK /\ Crash => TypeOK'
<1> SUFFICES ASSUME TypeOK, Crash PROVE TypeOK'
  OBVIOUS
<1>1. states' \in BOOLEAN /\ cancelled' \in BOOLEAN
  BY DEF TypeOK, Crash, Fresh
<1>2. /\ field' \in [Fields -> Connects \cup {None}]
      /\ connect' \in [Connects -> ConnectStates]
      /\ live' \subseteq Connects
      /\ loop' \in [Connects -> LoopStates]
      /\ on' \in [Connects -> Connects \cup {None}]
      /\ send' \in [Senders -> {"idle", "checked"}]
  BY DEF Crash, Fresh, ConnectStates, LoopStates
<1> QED BY <1>1, <1>2 DEF TypeOK

(* A step of the handshake goes on to the next one, or to the first field   *)
(* from the last; or it abandons the connection.                            *)
LEMMA HandshakeSteps ==
  ASSUME NEW c \in Connects, HandshakeNext(c)
  PROVE  /\ connect[c] \in Handshake
         /\ \/ \E next \in Handshake \cup Fields : Proceed(c, next)
            \/ Abandon(c)
<1> USE DEF Handshake, Fields
<1>1. CASE OpenStream(c) \/ NewHandshakeState(c) \/ WriteMessage(c)
  BY <1>1 DEF OpenStream, NewHandshakeState, WriteMessage
<1>2. CASE CompileSecureData(c) \/ WriteFirst(c) \/ ReadAnswer(c) \/ ReadMessage(c)
  BY <1>2 DEF CompileSecureData, WriteFirst, ReadAnswer, ReadMessage
<1> QED BY <1>1, <1>2 DEF HandshakeNext

(* Connect, the listen loops, SendAction and Close preserve the types. *)
LEMMA TypeInductive == TypeOK /\ [Next]_meshVars => TypeOK'
<1> SUFFICES ASSUME TypeOK, [Next]_meshVars PROVE TypeOK'
  OBVIOUS
<1> USE DEF TypeOK
<1>1. CASE Close
  BY <1>1 DEF Close
<1>2. CASE Crash
  BY <1>2, CrashTyped
<1>3. ASSUME NEW c \in Connects, Dial(c) \/ HandshakeNext(c) \/ ConnEnds(c) PROVE TypeOK'
  <2>1. CASE Dial(c) \/ ConnEnds(c)
    BY <2>1 DEF Dial, ConnEnds, ConnectStates, Handshake
  <2>2. ASSUME NEW next \in ConnectStates, Proceed(c, next) PROVE TypeOK'
    BY <2>2 DEF Proceed
  <2>3. CASE Abandon(c)
    BY <2>3 DEF Abandon, ConnectStates
  <2> QED BY <1>3, <2>1, <2>2, <2>3, HandshakeSteps DEF ConnectStates
<1>4. ASSUME NEW c \in Connects, Install(c) PROVE TypeOK'
  <2>1. AfterField[connect[c]] \in ConnectStates
    BY <1>4 DEF Install, AfterField, ConnectStates, Fields
  <2>2. connect' \in [Connects -> ConnectStates]
    BY <1>4, <2>1 DEF Install
  <2>3. field' \in [Fields -> Connects \cup {None}]
    BY <1>4 DEF Install, Assigned
  <2> QED BY <1>4, <2>2, <2>3 DEF Install, LoopStates
<1>5. ASSUME NEW c \in Connects, LoopNext(c) PROVE TypeOK'
  <2>1. CASE LoopSelect(c) \/ LoopRead(c)
    BY <2>1 DEF LoopSelect, LoopRead, LoopStates, Fields
  <2>2. CASE FrameOnNil(c)
    BY <2>2, CrashTyped DEF FrameOnNil
  <2>3. CASE FrameOpened(c) \/ FrameDropped(c) \/ ReadFails(c) \/ Handled(c)
    BY <2>3 DEF FrameOpened, FrameDropped, ReadFails, Handled, LoopStates
  <2> QED BY <1>5, <2>1, <2>2, <2>3 DEF LoopNext
<1>6. ASSUME NEW s \in Senders, SendCheck(s) PROVE TypeOK'
  BY <1>6 DEF SendCheck
<1>7. ASSUME NEW s \in Senders, SendFrame(s) PROVE TypeOK'
  BY <1>7, CrashTyped DEF SendFrame
<1>8. CASE UNCHANGED meshVars
  BY <1>8 DEF meshVars
<1> QED BY <1>1, <1>2, <1>3, <1>4, <1>5, <1>6, <1>7, <1>8 DEF Next

(* A node that NewMeshNode has made. *)
LEMMA InitTyped == Init => TypeOK
BY MeshAssumptions DEF Init, TypeOK, ConnectStates, LoopStates

(* The fields of the node and the positions of its goroutines keep their    *)
(* types.                                                                   *)
THEOREM TypeCorrect == Spec => []TypeOK
BY InitTyped, TypeInductive, PTL DEF Spec

-----------------------------------------------------------------------------
(* A Connect has a connection only after its dial, and is named by a field  *)
(* only once its handshake is complete, from where it cannot fail.          *)
ConnectOwns ==
    \A c \in Connects :
      /\ connect[c] \in {"idle", "failed"} => c \notin live
      /\ connect[c] \in {"idle", "failed"} \cup Handshake => \A f \in Fields : field[f] # c

(* Connect, Close, the end of a connection and crashes keep it so. *)
LEMMA OwnsInductive == TypeOK /\ ConnectOwns /\ [Next]_meshVars => ConnectOwns'
<1> SUFFICES ASSUME TypeOK, ConnectOwns, [Next]_meshVars PROVE ConnectOwns'
  OBVIOUS
<1> USE DEF TypeOK, ConnectOwns
<1>1. CASE UNCHANGED <<field, connect, live>>
  BY <1>1
<1>2. CASE Crash
  BY <1>2, MeshAssumptions DEF Crash, Fresh
<1>3. CASE Close
  BY <1>3 DEF Close
<1>4. ASSUME NEW c \in Connects, Dial(c) \/ HandshakeNext(c) \/ ConnEnds(c) PROVE ConnectOwns'
  <2>1. CASE Dial(c) \/ ConnEnds(c)
    BY <2>1 DEF Dial, ConnEnds, Handshake
  <2>2. ASSUME NEW next \in Handshake \cup Fields, Proceed(c, next), connect[c] \in Handshake
        PROVE ConnectOwns'
    <3>1. next \notin {"idle", "failed"}
      BY <2>2 DEF Handshake, Fields
    <3> QED BY <2>2, <3>1 DEF Proceed
  <2>3. ASSUME Abandon(c), connect[c] \in Handshake PROVE ConnectOwns'
    BY <2>3 DEF Abandon
  <2> QED BY <1>4, <2>1, <2>2, <2>3, HandshakeSteps
<1>5. ASSUME NEW c \in Connects, Install(c) PROVE ConnectOwns'
  <2>1. connect'[c] \notin {"idle", "failed"} \cup Handshake
    BY <1>5 DEF Install, AfterField, Handshake, Fields
  <2>2. \A d \in Connects \ {c} : connect'[d] = connect[d]
    BY <1>5 DEF Install
  <2>3. \A f \in Fields : field'[f] = field[f] \/ field'[f] \in {c, None}
    BY <1>5 DEF Install, Assigned
  <2> QED BY <1>5, <2>1, <2>2, <2>3, MeshAssumptions DEF Install
<1> QED
  BY <1>1, <1>2, <1>3, <1>4, <1>5
     DEF Next, LoopNext, LoopSelect, LoopRead, FrameOpened, FrameDropped, FrameOnNil, ReadFails, Handled,
         SendCheck, SendFrame, meshVars

(* A Connect that returned an error, at the dial or at any step of the      *)
(* handshake, has closed its connection and touched no field of the node.   *)
THEOREM FailuresAreClean == Spec => []FailedConnectLeavesNothing
<1>1. Init => TypeOK /\ ConnectOwns
  BY InitTyped, MeshAssumptions DEF Init, ConnectOwns
<1>2. TypeOK /\ ConnectOwns /\ [Next]_meshVars => (TypeOK /\ ConnectOwns)'
  BY TypeInductive, OwnsInductive
<1>3. ConnectOwns => FailedConnectLeavesNothing
  BY DEF ConnectOwns, FailedConnectLeavesNothing
<1> QED BY <1>1, <1>2, <1>3, PTL DEF Spec

=============================================================================
