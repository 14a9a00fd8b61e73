--------------------------- MODULE SecureChannel ---------------------------
(***************************************************************************)
(* One direction of an established overlay session: goroutines that seal a *)
(* payload with the shared Noise cipher state and write it as a frame, the *)
(* QUIC stream, and the loop at the other end that reads and opens frames. *)
(*                                                                         *)
(* A frame is two writes, the length and the ciphertext (framing.go).      *)
(* MeshNode.SendAction seals and writes under writeMu: locked is TRUE.     *)
(* The gateway's heartbeat monitor and forwardToHost seal and write on the *)
(* same stream with no lock: locked is FALSE.  The stream is a reliable    *)
(* sequence of bytes until it breaks.                                      *)
(***************************************************************************)
EXTENDS Naturals, Sequences

CONSTANTS
    Writers,     \* goroutines that send on the stream
    MaxSends,    \* bound: messages per writer
    Locking,     \* whether the writers hold a mutex: which of the two cases
    TooLarge,    \* messages whose frame exceeds MaxFrameSize
    NoWriter

ASSUME ChannelAssumptions ==
    /\ MaxSends \in Nat
    /\ Locking \subseteq BOOLEAN
    /\ NoWriter \notin Writers

Messages == Writers \X (1 .. MaxSends)

VARIABLES
    locked,     \* do the writers of this stream seal and write under a mutex?
    writeMu,    \* the writer that holds the mutex, or NoWriter
    writer,     \* per writer: where its send is
    begun,      \* per writer: the sends it has begun
    sealed,     \* per writer: the frame it has sealed
    sendNonce,  \* the counter of the sending cipher state
    wire,       \* the pieces written to the stream so far, read or not
    broken,     \* the stream or its connection has failed
    readPos,    \* pieces the receiver has consumed
    recvNonce,  \* the counter of the receiving cipher state
    recvLoop,   \* the receiving loop: "reading", "garbled" or "closed"
    received    \* the messages it has opened, in order

writerVars == <<locked, writeMu, writer, begun, sealed, sendNonce, wire>>
recvVars == <<readPos, recvNonce, recvLoop, received>>
channelVars == <<locked, writeMu, writer, begun, sealed, sendNonce, wire, broken,
                 readPos, recvNonce, recvLoop, received>>

Frames == [nonce : Nat, msg : Messages]
Pieces == [kind : {"header", "body"}, frame : Frames]
NoFrame == [nonce |-> 0, msg |-> <<NoWriter, 0>>]

TypeOK ==
    /\ locked \in BOOLEAN
    /\ writeMu \in Writers \cup {NoWriter}
    /\ writer \in [Writers -> {"idle", "holding", "sealed", "counted", "halfWritten", "written"}]
    /\ begun \in [Writers -> 0 .. MaxSends]
    /\ sealed \in [Writers -> Frames \cup {NoFrame}]
    /\ sendNonce \in Nat
    /\ wire \in Seq(Pieces)
    /\ broken \in BOOLEAN
    /\ readPos \in 0 .. Len(wire)
    /\ recvNonce \in Nat
    /\ recvLoop \in {"reading", "garbled", "closed"}
    /\ received \in Seq(Messages)

Init ==
    /\ locked \in Locking
    /\ writeMu = NoWriter
    /\ writer = [w \in Writers |-> "idle"]
    /\ begun = [w \in Writers |-> 0]
    /\ sealed = [w \in Writers |-> NoFrame]
    /\ sendNonce = 0
    /\ wire = <<>>
    /\ broken = FALSE
    /\ readPos = 0
    /\ recvNonce = 0
    /\ recvLoop = "reading"
    /\ received = <<>>

-----------------------------------------------------------------------------
(* The sending side.                                                       *)

(* Seeded faults: the mutex is not taken; a payload is sent once more. *)
BeginUnlocked(w) ==
    /\ writer[w] = "idle"
    /\ begun[w] < MaxSends
    /\ writer' = [writer EXCEPT ![w] = "holding"]
    /\ begun' = [begun EXCEPT ![w] = @ + 1]
    /\ UNCHANGED <<locked, writeMu, sealed, sendNonce, wire, broken, recvVars>>
BeginRepeats(w) ==
    /\ writer[w] = "idle"
    /\ sendNonce < MaxSends
    /\ writer' = [writer EXCEPT ![w] = "holding"]
    /\ begun' = [begun EXCEPT ![w] = 1]
    /\ UNCHANGED <<locked, writeMu, sealed, sendNonce, wire, broken, recvVars>>

Begin(w) ==
    /\ writer[w] = "idle"
    /\ begun[w] < MaxSends
    /\ locked => writeMu = NoWriter
    /\ writeMu' = IF locked THEN w ELSE writeMu
    /\ writer' = [writer EXCEPT ![w] = "holding"]
    /\ begun' = [begun EXCEPT ![w] = @ + 1]
    /\ UNCHANGED <<locked, sealed, sendNonce, wire, broken, recvVars>>

(* Seeded fault: the ciphertext that Encrypt returned is not kept. *)
EncryptForgets(w) ==
    /\ writer[w] = "holding"
    /\ sealed' = [sealed EXCEPT ![w] = NoFrame]
    /\ writer' = [writer EXCEPT ![w] = "sealed"]
    /\ UNCHANGED <<locked, writeMu, begun, sendNonce, wire, broken, recvVars>>

(* CipherState.Encrypt seals the payload with the counter it finds ...      *)
Encrypt(w) ==
    /\ writer[w] = "holding"
    /\ sealed' = [sealed EXCEPT ![w] = [nonce |-> sendNonce, msg |-> <<w, begun[w]>>]]
    /\ writer' = [writer EXCEPT ![w] = "sealed"]
    /\ UNCHANGED <<locked, writeMu, begun, sendNonce, wire, broken, recvVars>>

(* Seeded fault: the counter is advanced twice for one frame. *)
CountTwice(w) ==
    /\ writer[w] = "sealed"
    /\ sendNonce' = sendNonce + 2
    /\ writer' = [writer EXCEPT ![w] = "counted"]
    /\ UNCHANGED <<locked, writeMu, begun, sealed, wire, broken, recvVars>>

(* ... and increments it. Without a lock the increment is a data race: it   *)
(* may use the current value or the one the goroutine read earlier.         *)
Count(w) ==
    /\ writer[w] = "sealed"
    /\ \E n \in {sendNonce, sealed[w].nonce} : sendNonce' = n + 1
    /\ writer' = [writer EXCEPT ![w] = "counted"]
    /\ UNCHANGED <<locked, writeMu, begun, sealed, wire, broken, recvVars>>

(* Seeded fault: the mutex is released before the payload is written. *)
WriteHeaderUnlocks(w) ==
    /\ writer[w] = "counted"
    /\ ~broken
    /\ wire' = Append(wire, [kind |-> "header", frame |-> sealed[w]])
    /\ writer' = [writer EXCEPT ![w] = "halfWritten"]
    /\ writeMu' = NoWriter
    /\ UNCHANGED <<locked, begun, sealed, sendNonce, broken, recvVars>>

(* WriteFrame: the length, then the payload, in two writes. *)
WriteHeader(w) ==
    /\ writer[w] = "counted"
    /\ ~broken
    /\ wire' = Append(wire, [kind |-> "header", frame |-> sealed[w]])
    /\ writer' = [writer EXCEPT ![w] = "halfWritten"]
    /\ UNCHANGED <<locked, writeMu, begun, sealed, sendNonce, broken, recvVars>>

WriteBody(w) ==
    /\ writer[w] = "halfWritten"
    /\ ~broken
    /\ wire' = Append(wire, [kind |-> "body", frame |-> sealed[w]])
    /\ writer' = [writer EXCEPT ![w] = "written"]
    /\ UNCHANGED <<locked, writeMu, begun, sealed, sendNonce, broken, recvVars>>

(* The frame is written, or a write failed: the error is returned and the   *)
(* deferred unlock runs. The cipher's counter is not set back.              *)
End(w) ==
    /\ \/ writer[w] = "written"
       \/ broken /\ writer[w] \in {"counted", "halfWritten"}
    /\ writeMu' = IF locked THEN NoWriter ELSE writeMu
    /\ writer' = [writer EXCEPT ![w] = "idle"]
    /\ sealed' = [sealed EXCEPT ![w] = NoFrame]
    /\ UNCHANGED <<locked, begun, sendNonce, wire, broken, recvVars>>

StreamBreaks ==
    /\ ~broken
    /\ broken' = TRUE
    /\ UNCHANGED <<writerVars, recvVars>>

-----------------------------------------------------------------------------
(* The receiving loop: MeshNode.listenLoop and Gateway.HandleSecureStream. *)

HeaderAt(i) == i <= Len(wire) /\ wire[i].kind = "header"

(* The two pieces after readPos are one frame. *)
WholeFrameNext ==
    /\ HeaderAt(readPos + 1)
    /\ wire[readPos + 2] = [kind |-> "body", frame |-> wire[readPos + 1].frame]

(* ReadFrame refuses a length beyond MaxFrameSize before it reads on.       *)
TooLargeNext == HeaderAt(readPos + 1) /\ wire[readPos + 1].frame.msg \in TooLarge

(* ReadFrame got a frame and Decrypt opened it: its counter was expected. *)
ReadAndOpen ==
    /\ recvLoop = "reading"
    /\ readPos + 2 <= Len(wire)
    /\ WholeFrameNext
    /\ ~TooLargeNext
    /\ wire[readPos + 1].frame.nonce = recvNonce
    /\ received' = Append(received, wire[readPos + 1].frame.msg)
    /\ recvNonce' = recvNonce + 1
    /\ readPos' = readPos + 2
    /\ UNCHANGED <<writerVars, broken, recvLoop>>

(* Decrypt failed: the loop continues with the next frame, and its counter  *)
(* stays where it was.                                                      *)
ReadAndDrop ==
    /\ recvLoop = "reading"
    /\ readPos + 2 <= Len(wire)
    /\ WholeFrameNext
    /\ ~TooLargeNext
    /\ wire[readPos + 1].frame.nonce # recvNonce
    /\ readPos' = readPos + 2
    /\ UNCHANGED <<writerVars, broken, recvNonce, recvLoop, received>>

(* The bytes after a length are not the payload it announced: what ReadFrame *)
(* returns from here on is noise, and nothing is opened any more.           *)
ReadGarbled ==
    /\ recvLoop = "reading"
    /\ readPos + 2 <= Len(wire)
    /\ ~WholeFrameNext
    /\ ~TooLargeNext
    /\ recvLoop' = "garbled"
    /\ UNCHANGED <<writerVars, broken, readPos, recvNonce, received>>

(* ReadFrame returned an error: the loop ends. *)
ReadFails ==
    /\ recvLoop # "closed"
    /\ \/ broken
       \/ recvLoop = "reading" /\ TooLargeNext
    /\ recvLoop' = "closed"
    /\ UNCHANGED <<writerVars, broken, readPos, recvNonce, received>>

-----------------------------------------------------------------------------
Write(w) == Begin(w) \/ Encrypt(w) \/ Count(w) \/ WriteHeader(w) \/ WriteBody(w) \/ End(w)

Receive == ReadAndOpen \/ ReadAndDrop \/ ReadGarbled \/ ReadFails

Next == (\E w \in Writers : Write(w)) \/ StreamBreaks \/ Receive

Spec == Init /\ [][Next]_channelVars

(* Goroutines inside a send are scheduled, and the loop reads what is there. *)
FairSpec ==
    /\ Spec
    /\ WF_channelVars(Receive)
    /\ \A w \in Writers : WF_channelVars(Write(w) /\ ~Begin(w))

-----------------------------------------------------------------------------
(* With the mutex every second piece of the wire is the payload of a frame: *)
(* the messages whose frames are complete, in wire order.                   *)
Fifo == INSTANCE FifoChannel WITH
    sent <- IF locked THEN [i \in 1 .. Len(wire) \div 2 |-> wire[2 * i].frame.msg] ELSE <<>>,
    delivered <- IF locked THEN received ELSE <<>>

(* With the mutex the session is a FIFO channel: frames of concurrent       *)
(* senders neither interleave nor overtake each other between Encrypt and   *)
(* the write, so every frame is opened, in order, until the stream breaks.  *)
ImplementsFifo == Fifo!FifoSpec

(* With the mutex no counter value seals two payloads under one key, on     *)
(* whatever path the goroutines take through Encrypt.                       *)
NonceUsedOnce ==
    locked =>
      \A i, j \in 1 .. Len(wire) :
        wire[i].kind = wire[j].kind /\ wire[i].frame.nonce = wire[j].frame.nonce => i = j

(* With the mutex, what the receiver has opened is what was written, as far *)
(* as it has read: no frame is skipped, so the two counters stay in step.   *)
NothingSkipped ==
    locked =>
      /\ recvLoop # "garbled"
      /\ recvNonce = Len(received)
      /\ readPos = 2 * Len(received)
      /\ \A i \in 1 .. Len(received) : received[i] = wire[2 * i].frame.msg

(* With the mutex, a frame that was written completely is opened by the     *)
(* other end, unless the stream breaks or a frame too large for ReadFrame   *)
(* stands at or before its place on the wire: WriteFrame sends such a       *)
(* frame, and it ends the session, but takes nothing away that went before. *)
WrittenIsReceived ==
    \A m \in Messages :
      locked /\ writer[m[1]] = "written" /\ begun[m[1]] = m[2] ~>
        \/ broken
        \/ \E i \in DOMAIN received : received[i] = m
        \/ \E i, j \in DOMAIN wire :
             i <= j /\ wire[i].frame.msg \in TooLarge /\ wire[j].frame.msg = m

(* Whether or not the senders take a lock, a payload is opened at most      *)
(* once, and after what its sender sent before: each sender writes its      *)
(* frames in turn, the stream keeps their order, and the loop never reads   *)
(* a piece again. What the missing lock costs is EveryFrameOpens.           *)
OpenedOnceInOrder ==
    \A i, j \in DOMAIN received :
      i < j /\ received[i][1] = received[j][1] => received[i][2] < received[j][2]

(* The payloads on the wire. *)
BodiesOnWire == SelectSeq(wire, LAMBDA p : p.kind = "body")

(* README, Production Safety: "Concurrent-safe internal structures". The    *)
(* receiver can make sense of everything that concurrent senders write.     *)
EveryFrameOpens ==
    /\ recvLoop # "garbled"
    /\ recvLoop = "reading" /\ readPos = Len(wire) => Len(received) = Len(BodiesOnWire)

=============================================================================
