------------------------ MODULE SecureChannelProofs ------------------------
(***************************************************************************)
(* Proofs about SecureChannel for any number of writers and messages: the  *)
(* types, the order of what is opened with or without the mutex, and, with *)
(* it, that counter values are used once, that nothing is skipped, and     *)
(* that the session implements FifoChannel.                                *)
(***************************************************************************)
EXTENDS SecureChannel, TLAPS

(* What Append does to the pieces on the wire. *)
LEMMA AppendPiece ==
  ASSUME NEW S, NEW s \in Seq(S), NEW e \in S
  PROVE  /\ Append(s, e) \in Seq(S)
         /\ Len(Append(s, e)) = Len(s) + 1
         /\ \A i \in 1 .. Len(s) : Append(s, e)[i] = s[i]
         /\ Append(s, e)[Len(s) + 1] = e
OBVIOUS

(* Two pieces make a frame. *)
LEMMA Halves == \A n \in Nat : (2 * n) \div 2 = n /\ (2 * n + 1) \div 2 = n
OBVIOUS

-----------------------------------------------------------------------------
(* A writer inside a send has begun a message, and once it has sealed a     *)
(* frame that is the frame of this message.                                 *)
InSend ==
    \A w \in Writers :
      /\ writer[w] # "idle" => begun[w] >= 1
      /\ writer[w] \in {"sealed", "counted", "halfWritten", "written"} =>
           sealed[w] \in Frames /\ sealed[w].msg = <<w, begun[w]>>

TypeInv == TypeOK /\ InSend

(* A session whose handshake is complete and on which nothing was sent. *)
LEMMA InitTyped == Init => TypeInv
<1> SUFFICES ASSUME Init PROVE TypeInv
  OBVIOUS
<1>1. locked \in BOOLEAN
  BY ChannelAssumptions DEF Init
<1>2. TypeOK
  <2>1. /\ begun \in [Writers -> 0 .. MaxSends]
        /\ writer \in [Writers -> {"idle", "holding", "sealed", "counted", "halfWritten", "written"}]
        /\ sealed \in [Writers -> Frames \cup {NoFrame}]
    BY ChannelAssumptions DEF Init
  <2>2. wire \in Seq(Pieces) /\ readPos \in 0 .. Len(wire) /\ received \in Seq(Messages)
    BY DEF Init
  <2>3. broken \in BOOLEAN
    BY DEF Init
  <2> QED BY <1>1, <2>1, <2>2, <2>3 DEF Init, TypeOK
<1>3. InSend
  BY DEF Init, InSend
<1> QED BY <1>2, <1>3 DEF TypeInv

(* Sealing, writing and reading preserve the types. *)
LEMMA TypeInductive == TypeInv /\ [Next]_channelVars => TypeInv'
<1> SUFFICES ASSUME TypeInv, [Next]_channelVars PROVE TypeInv'
  OBVIOUS
<1> USE ChannelAssumptions DEF TypeInv, TypeOK, InSend, recvVars, writerVars
<1>1. ASSUME NEW w \in Writers, Begin(w) PROVE TypeInv'
  BY <1>1 DEF Begin
<1>2. ASSUME NEW w \in Writers, Encrypt(w) PROVE TypeInv'
  <2> DEFINE f == [nonce |-> sendNonce, msg |-> <<w, begun[w]>>]
  <2>1. begun[w] \in 1 .. MaxSends
    BY <1>2 DEF Encrypt
  <2>2. f \in Frames /\ f.msg = <<w, begun[w]>>
    BY <2>1 DEF Frames, Messages
  <2>3. sealed' = [sealed EXCEPT ![w] = f] /\ writer' = [writer EXCEPT ![w] = "sealed"]
    BY <1>2 DEF Encrypt
  <2> HIDE DEF f
  <2>4. sealed' \in [Writers -> Frames \cup {NoFrame}]
    BY <2>2, <2>3
  <2>5. InSend'
    BY <1>2, <2>1, <2>2, <2>3 DEF Encrypt
  <2> QED BY <1>2, <2>4, <2>5 DEF Encrypt
<1>3. ASSUME NEW w \in Writers, Count(w) PROVE TypeInv'
  <2>1. sealed[w].nonce \in Nat
    BY <1>3 DEF Count, Frames
  <2> QED BY <1>3, <2>1 DEF Count
<1>4. ASSUME NEW w \in Writers, NEW kind \in {"header", "body"}, sealed[w] \in Frames,
             wire' = Append(wire, [kind |-> kind, frame |-> sealed[w]])
      PROVE wire' \in Seq(Pieces) /\ Len(wire') = Len(wire) + 1
  <2>1. [kind |-> kind, frame |-> sealed[w]] \in Pieces
    BY <1>4 DEF Pieces
  <2> QED BY <1>4, <2>1, AppendPiece
<1>5. ASSUME NEW w \in Writers, WriteHeader(w) PROVE TypeInv'
  <2>1. wire' \in Seq(Pieces) /\ Len(wire') = Len(wire) + 1
    BY <1>4, <1>5 DEF WriteHeader
  <2>2. readPos' \in 0 .. Len(wire')
    BY <1>5, <2>1 DEF WriteHeader
  <2> QED BY <1>5, <2>1, <2>2 DEF WriteHeader
<1>6. ASSUME NEW w \in Writers, WriteBody(w) PROVE TypeInv'
  <2>1. wire' \in Seq(Pieces) /\ Len(wire') = Len(wire) + 1
    BY <1>4, <1>6 DEF WriteBody
  <2>2. readPos' \in 0 .. Len(wire')
    BY <1>6, <2>1 DEF WriteBody
  <2> QED BY <1>6, <2>1, <2>2 DEF WriteBody
<1>7. ASSUME NEW w \in Writers, End(w) PROVE TypeInv'
  BY <1>7 DEF End
<1>8. CASE StreamBreaks
  BY <1>8 DEF StreamBreaks
<1>9. CASE ReadAndOpen
  <2>1. wire[readPos + 1] \in Pieces
    BY <1>9 DEF ReadAndOpen
  <2>2. wire[readPos + 1].frame.msg \in Messages
    BY <2>1 DEF Pieces, Frames
  <2>3. received' \in Seq(Messages)
    BY <1>9, <2>2 DEF ReadAndOpen
  <2> QED BY <1>9, <2>3 DEF ReadAndOpen
<1>10. CASE ReadAndDrop \/ ReadGarbled \/ ReadFails
  BY <1>10 DEF ReadAndDrop, ReadGarbled, ReadFails
<1>11. CASE UNCHANGED channelVars
  BY <1>11 DEF channelVars
<1> QED
  BY <1>1, <1>2, <1>3, <1>5, <1>6, <1>7, <1>8, <1>9, <1>10, <1>11 DEF Next, Write, Receive

(* Writers, wire and receiver keep their types. *)
THEOREM TypeCorrect == Spec => []TypeOK
<1>1. TypeInv => TypeOK
  BY DEF TypeInv
<1> QED BY <1>1, InitTyped, TypeInductive, PTL DEF Spec

-----------------------------------------------------------------------------
(* The order in which messages are opened, with or without the mutex.      *)

(* A writer that has begun a message and not yet written its length. *)
Unwritten(w) == writer[w] \in {"holding", "sealed", "counted"}

(* A message m is behind its writer: begun, and not the one in hand that is *)
(* yet to be written.                                                       *)
Behind(m) == m[2] <= begun[m[1]] /\ (Unwritten(m[1]) => m[2] < begun[m[1]])

(* The lengths a writer has put on the wire are in the order of its         *)
(* messages, and all of them behind it.                                     *)
HeadersInOrder ==
    /\ \A i \in 1 .. Len(wire) : wire[i].kind = "header" => Behind(wire[i].frame.msg)
    /\ \A i, j \in 1 .. Len(wire) :
         /\ i < j
         /\ wire[i].kind = "header" /\ wire[j].kind = "header"
         /\ wire[i].frame.msg[1] = wire[j].frame.msg[1]
         => wire[i].frame.msg[2] < wire[j].frame.msg[2]

(* What was opened is behind its writer and before whatever of the same     *)
(* writer is still to be read.                                              *)
OpenedIsPast ==
    \A i \in 1 .. Len(received) :
      /\ Behind(received[i])
      /\ \A j \in readPos + 1 .. Len(wire) :
           wire[j].kind = "header" /\ wire[j].frame.msg[1] = received[i][1] =>
             received[i][2] < wire[j].frame.msg[2]

OrderInv == TypeInv /\ HeadersInOrder /\ OpenedIsPast /\ OpenedOnceInOrder

(* A message that is behind its writer stays behind it: a new one has a     *)
(* higher number.                                                           *)
LEMMA BehindStays ==
  ASSUME TypeInv, [Next]_channelVars, NEW m \in Messages, Behind(m)
  PROVE  Behind(m)'
<1> DEFINE v == m[1]
<1>1. v \in Writers /\ m[2] \in Nat
  BY ChannelAssumptions DEF Messages
<1> DEFINE Same == begun'[v] = begun[v] /\ (Unwritten(v)' => Unwritten(v))
           More == begun'[v] = begun[v] + 1
<1>2. Same \/ More
  <2> USE DEF TypeInv, TypeOK, Unwritten
  <2>1. ASSUME NEW w \in Writers, Write(w) PROVE Same \/ More
    <3>1. CASE Begin(w)
      BY <1>1, <3>1 DEF Begin
    <3>2. CASE Encrypt(w) \/ Count(w) \/ WriteHeader(w) \/ WriteBody(w) \/ End(w)
      BY <1>1, <3>2 DEF Encrypt, Count, WriteHeader, WriteBody, End
    <3> QED BY <2>1, <3>1, <3>2 DEF Write
  <2>2. CASE UNCHANGED <<writer, begun>>
    BY <2>2
  <2> QED
    BY <2>1, <2>2 DEF Next, StreamBreaks, Receive, ReadAndOpen, ReadAndDrop, ReadGarbled, ReadFails,
                      writerVars, channelVars
<1>3. begun[v] \in Nat
  BY <1>1 DEF TypeInv, TypeOK
<1> QED BY <1>1, <1>2, <1>3 DEF Behind

(* The wire grows by a piece of the frame that w has in hand. *)
Grows(w, kind) ==
    /\ sealed[w] \in Frames /\ sealed[w].msg = <<w, begun[w]>>
    /\ Len(wire') = Len(wire) + 1
    /\ \A i \in 1 .. Len(wire) : wire'[i] = wire[i]
    /\ wire'[Len(wire) + 1] = [kind |-> kind, frame |-> sealed[w]]

(* WriteFrame appends the two pieces of the frame, one after the other. *)
LEMMA WriteGrows ==
  ASSUME TypeInv, NEW w \in Writers
  PROVE  /\ WriteHeader(w) => Grows(w, "header")
         /\ WriteBody(w) => Grows(w, "body")
<1>1. ASSUME NEW kind \in {"header", "body"}, sealed[w] \in Frames, sealed[w].msg = <<w, begun[w]>>,
             wire' = Append(wire, [kind |-> kind, frame |-> sealed[w]])
      PROVE Grows(w, kind)
  <2>1. [kind |-> kind, frame |-> sealed[w]] \in Pieces
    BY <1>1 DEF Pieces
  <2> QED BY <1>1, <2>1, AppendPiece DEF TypeInv, TypeOK, Grows
<1>2. ASSUME WriteHeader(w) PROVE Grows(w, "header")
  BY <1>1, <1>2 DEF WriteHeader, TypeInv, InSend
<1>3. ASSUME WriteBody(w) PROVE Grows(w, "body")
  BY <1>1, <1>3 DEF WriteBody, TypeInv, InSend
<1> QED BY <1>2, <1>3

(* No other step touches the wire. *)
LEMMA WireGrows ==
  ASSUME TypeInv, [Next]_channelVars
  PROVE  \/ UNCHANGED wire
         \/ \E w \in Writers : WriteHeader(w) /\ Grows(w, "header")
         \/ \E w \in Writers : WriteBody(w) /\ Grows(w, "body")
<1>1. (\E w \in Writers : WriteHeader(w) \/ WriteBody(w)) \/ UNCHANGED wire
  BY DEF Next, Write, Begin, Encrypt, Count, End, StreamBreaks, Receive, ReadAndOpen, ReadAndDrop,
         ReadGarbled, ReadFails, writerVars, channelVars
<1> QED BY <1>1, WriteGrows

(* The values of pieces and messages. *)
LEMMA PieceTyped ==
  ASSUME TypeInv
  PROVE  /\ \A i \in 1 .. Len(wire) :
              /\ wire[i] \in Pieces
              /\ wire[i].frame.nonce \in Nat
              /\ wire[i].frame.msg \in Messages
              /\ wire[i].frame.msg[1] \in Writers /\ wire[i].frame.msg[2] \in Nat
         /\ \A i \in 1 .. Len(received) :
              received[i] \in Messages /\ received[i][1] \in Writers /\ received[i][2] \in Nat
<1>1. \A m \in Messages : m[1] \in Writers /\ m[2] \in Nat
  BY ChannelAssumptions DEF Messages
<1>2. \A i \in 1 .. Len(wire) : wire[i] \in Pieces
  BY DEF TypeInv, TypeOK
<1>3. \A i \in 1 .. Len(received) : received[i] \in Messages
  BY DEF TypeInv, TypeOK
<1>4. \A q \in Pieces : q.frame.nonce \in Nat /\ q.frame.msg \in Messages
  BY DEF Pieces, Frames
<1> QED BY <1>1, <1>2, <1>3, <1>4

(* A writer's next length carries a higher number than all before it. *)
LEMMA HeadersInductive == TypeInv /\ HeadersInOrder /\ [Next]_channelVars => HeadersInOrder'
<1> SUFFICES ASSUME TypeInv, HeadersInOrder, [Next]_channelVars PROVE HeadersInOrder'
  OBVIOUS
<1>1. \A m \in Messages : Behind(m) => Behind(m)'
  BY BehindStays
<1>2. \A i \in 1 .. Len(wire) : \A m \in Messages :
        wire[i].kind = "header" /\ m = wire[i].frame.msg => Behind(m) /\ Behind(m)'
  BY <1>1 DEF HeadersInOrder
<1>3. CASE UNCHANGED wire
  BY <1>2, <1>3, PieceTyped DEF HeadersInOrder, Behind, Unwritten
<1>4. PICK n \in Nat : n = Len(wire)
  BY DEF TypeInv, TypeOK
<1>5. ASSUME NEW w \in Writers, WriteBody(w), Grows(w, "body") PROVE HeadersInOrder'
  <2>1. \A i \in 1 .. Len(wire') : wire'[i].kind = "header" => i \in 1 .. Len(wire) /\ wire'[i] = wire[i]
    BY <1>4, <1>5 DEF Grows
  <2> QED BY <1>2, <2>1, PieceTyped DEF HeadersInOrder, Behind, Unwritten
<1>6. ASSUME NEW w \in Writers, WriteHeader(w), Grows(w, "header") PROVE HeadersInOrder'
  <2>1. begun[w] \in Nat
    BY ChannelAssumptions DEF TypeInv, TypeOK
  <2>2. /\ wire'[n + 1].frame.msg[1] = w /\ wire'[n + 1].frame.msg[2] = begun[w]
        /\ Len(wire') = n + 1
    BY <1>4, <1>6 DEF Grows
  <2>3. begun' = begun /\ Unwritten(w) /\ ~Unwritten(w)'
    BY <1>6 DEF WriteHeader, Unwritten, TypeInv, TypeOK
  <2>4. \A i \in 1 .. Len(wire') : (i \in 1 .. n /\ wire'[i] = wire[i]) \/ i = n + 1
    BY <1>4, <1>6 DEF Grows
  <2>5. \A i \in 1 .. n :
          wire[i].kind = "header" /\ wire[i].frame.msg[1] = w => wire[i].frame.msg[2] < begun[w]
    BY <1>2, <1>4, <2>3, PieceTyped DEF Behind
  <2>6. \A i \in 1 .. Len(wire') : wire'[i].kind = "header" => Behind(wire[i].frame.msg)'
    <3> SUFFICES ASSUME NEW i \in 1 .. Len(wire'), wire'[i].kind = "header"
                 PROVE Behind(wire[i].frame.msg)'
      OBVIOUS
    <3>1. CASE i = n + 1
      BY <2>1, <2>2, <2>3, <3>1 DEF Behind
    <3>2. CASE i \in 1 .. n /\ wire'[i] = wire[i]
      BY <1>2, <1>4, <3>2, PieceTyped DEF Behind
    <3> QED BY <2>4, <3>1, <3>2
  <2>7. \A i, j \in 1 .. Len(wire') :
         /\ i < j
         /\ wire'[i].kind = "header" /\ wire'[j].kind = "header"
         /\ wire'[i].frame.msg[1] = wire'[j].frame.msg[1]
         => wire'[i].frame.msg[2] < wire'[j].frame.msg[2]
    BY <1>4, <2>2, <2>4, <2>5 DEF HeadersInOrder
  <2> QED BY <2>6, <2>7 DEF HeadersInOrder
<1> QED BY <1>3, <1>5, <1>6, WireGrows

(* The step that opens a frame; any other leaves the messages opened alone  *)
(* and reads no backwards.                                                  *)
LEMMA OpenedGrows ==
  ASSUME TypeInv, [Next]_channelVars
  PROVE  \/ UNCHANGED received /\ readPos' \in Nat /\ readPos' >= readPos
         \/ ReadAndOpen /\ Len(received') = Len(received) + 1
            /\ (\A i \in 1 .. Len(received) : received'[i] = received[i])
            /\ received'[Len(received) + 1] = wire[readPos + 1].frame.msg
<1> USE DEF TypeInv, TypeOK
<1>1. CASE ReadAndOpen
  <2>1. wire[readPos + 1].frame.msg \in Messages
    BY <1>1, PieceTyped DEF ReadAndOpen
  <2> QED BY <1>1, <2>1, AppendPiece DEF ReadAndOpen
<1>2. CASE ReadAndDrop
  BY <1>2 DEF ReadAndDrop
<1>3. CASE UNCHANGED <<received, readPos>>
  BY <1>3
<1> QED
  BY <1>1, <1>2, <1>3
     DEF Next, Write, Begin, Encrypt, Count, WriteHeader, WriteBody, End, StreamBreaks, Receive,
         ReadGarbled, ReadFails, recvVars, channelVars

(* What is opened stays before what is still to be read: the next frame of  *)
(* a writer carries a higher number, and so does the next one it writes.    *)
LEMMA OpenedInductive ==
  TypeInv /\ HeadersInOrder /\ OpenedIsPast /\ OpenedOnceInOrder /\ [Next]_channelVars
    => OpenedIsPast' /\ OpenedOnceInOrder'
<1> SUFFICES ASSUME TypeInv, HeadersInOrder, OpenedIsPast, OpenedOnceInOrder, [Next]_channelVars
             PROVE OpenedIsPast' /\ OpenedOnceInOrder'
  OBVIOUS
<1>1. \A m \in Messages : Behind(m) => Behind(m)'
  BY BehindStays
<1>2. PICK n \in Nat, k \in Nat : n = Len(wire) /\ k = Len(received) /\ readPos \in 0 .. n
                              /\ DOMAIN received = 1 .. k
  BY DEF TypeInv, TypeOK
<1>3. \A i \in 1 .. k : \A m \in Messages : m = received[i] => Behind(m) /\ Behind(m)'
  BY <1>1, <1>2 DEF OpenedIsPast
<1>4. CASE UNCHANGED received /\ readPos' \in Nat /\ readPos' >= readPos
  <2>1. OpenedOnceInOrder'
    <3>1. received' = received
      BY <1>4
    <3> QED BY ONLY <3>1, OpenedOnceInOrder DEF OpenedOnceInOrder
  <2>2. CASE \A j \in readPos' + 1 .. Len(wire') :
               wire'[j].kind = "header" => j \in readPos + 1 .. n /\ wire'[j] = wire[j]
    <3> SUFFICES ASSUME NEW i \in 1 .. k
                 PROVE /\ Behind(received[i])'
                       /\ \A j \in readPos' + 1 .. Len(wire') :
                            wire'[j].kind = "header" /\ wire'[j].frame.msg[1] = received[i][1] =>
                              received[i][2] < wire'[j].frame.msg[2]
      BY <1>2, <1>4, <2>1 DEF OpenedIsPast
    <3>1. Behind(received[i])'
      BY <1>2, <1>3, <1>4, PieceTyped DEF Behind
    <3>2. \A j \in readPos + 1 .. n :
            wire[j].kind = "header" /\ wire[j].frame.msg[1] = received[i][1] =>
              received[i][2] < wire[j].frame.msg[2]
      BY <1>2 DEF OpenedIsPast
    <3> QED BY <2>2, <3>1, <3>2
  <2>3. ASSUME NEW w \in Writers, WriteHeader(w), Grows(w, "header") PROVE OpenedIsPast'
    <3>1. Unwritten(w) /\ begun[w] \in Nat
      BY <2>3, ChannelAssumptions DEF WriteHeader, Unwritten, TypeInv, TypeOK
    <3>2. /\ wire'[n + 1].frame.msg[1] = w /\ wire'[n + 1].frame.msg[2] = begun[w]
          /\ Len(wire') = n + 1
      BY <1>2, <2>3 DEF Grows
    <3>3. \A j \in readPos' + 1 .. Len(wire') : (j \in readPos + 1 .. n /\ wire'[j] = wire[j]) \/ j = n + 1
      BY <1>2, <1>4, <2>3 DEF Grows
    <3>4. \A i \in 1 .. k : received[i][1] = w => received[i][2] < begun[w]
      BY <1>2, <1>3, <3>1, PieceTyped DEF Behind
    <3> SUFFICES ASSUME NEW i \in 1 .. k
                 PROVE /\ Behind(received[i])'
                       /\ \A j \in readPos' + 1 .. Len(wire') :
                            wire'[j].kind = "header" /\ wire'[j].frame.msg[1] = received[i][1] =>
                              received[i][2] < wire'[j].frame.msg[2]
      BY <1>2, <1>4 DEF OpenedIsPast
    <3>5. Behind(received[i])'
      BY <1>2, <1>3, <1>4, PieceTyped DEF Behind
    <3> QED BY <1>2, <3>2, <3>3, <3>4, <3>5 DEF OpenedIsPast
  <2>4. \A l \in Nat : \A j \in readPos' + 1 .. l : j \in readPos + 1 .. l
    <3>1. PICK r \in Nat, q \in Nat : r = readPos /\ q = readPos' /\ q >= r
      BY <1>2, <1>4
    <3>2. q >= r
      BY <3>1
    <3>3. \A l \in Nat : \A j \in q + 1 .. l : j \in r + 1 .. l
      BY <3>2
    <3> QED BY <3>1, <3>3
  <2>5. ASSUME NEW w \in Writers, Grows(w, "body")
        PROVE \A j \in readPos' + 1 .. Len(wire') :
               wire'[j].kind = "header" => j \in readPos + 1 .. n /\ wire'[j] = wire[j]
    BY <1>2, <2>5, <2>4 DEF Grows
  <2>6. ASSUME UNCHANGED wire
        PROVE \A j \in readPos' + 1 .. Len(wire') :
               wire'[j].kind = "header" => j \in readPos + 1 .. n /\ wire'[j] = wire[j]
    BY <1>2, <2>6, <2>4
  <2> QED BY <2>1, <2>2, <2>3, <2>5, <2>6, WireGrows
<1>5. ASSUME ReadAndOpen, Len(received') = Len(received) + 1,
             \A i \in 1 .. Len(received) : received'[i] = received[i],
             received'[Len(received) + 1] = wire[readPos + 1].frame.msg
      PROVE OpenedIsPast' /\ OpenedOnceInOrder'
  <2>1. /\ wire' = wire /\ readPos' = readPos + 2 /\ readPos + 2 <= n
        /\ wire[readPos + 1].kind = "header"
    BY <1>2, <1>5 DEF ReadAndOpen, WholeFrameNext, HeaderAt, writerVars
  <2>2. \A i \in 1 .. Len(received') : (i \in 1 .. k /\ received'[i] = received[i]) \/ i = k + 1
    BY <1>2, <1>5
  <2>3. \A i \in 1 .. k : received[i][1] = wire[readPos + 1].frame.msg[1] =>
          received[i][2] < wire[readPos + 1].frame.msg[2]
    BY <1>2, <2>1 DEF OpenedIsPast
  <2>4. DOMAIN received' = 1 .. Len(received')
    BY TypeInductive DEF TypeInv, TypeOK
  <2>5. OpenedOnceInOrder'
    BY <1>2, <1>5, <2>2, <2>3, <2>4 DEF OpenedOnceInOrder
  <2>6. Behind(wire[readPos + 1].frame.msg) /\ wire[readPos + 1].frame.msg \in Messages
    BY <1>2, <2>1, PieceTyped DEF HeadersInOrder
  <2>7. \A i \in 1 .. Len(received') : Behind(received[i])'
    <3> SUFFICES ASSUME NEW i \in 1 .. Len(received') PROVE Behind(received[i])'
      OBVIOUS
    <3>1. PICK m \in Messages : m = received'[i] /\ Behind(m)
      BY <1>2, <1>3, <1>5, <2>2, <2>6, PieceTyped
    <3> QED BY <1>1, <3>1 DEF Behind
  <2>8. \A i \in 1 .. Len(received'), j \in readPos' + 1 .. Len(wire') :
          wire'[j].kind = "header" /\ wire'[j].frame.msg[1] = received'[i][1] =>
            received'[i][2] < wire'[j].frame.msg[2]
    <3>1. \A j \in readPos + 3 .. n : wire[j].kind = "header"
             /\ wire[j].frame.msg[1] = wire[readPos + 1].frame.msg[1] =>
               wire[readPos + 1].frame.msg[2] < wire[j].frame.msg[2]
      BY <1>2, <2>1 DEF HeadersInOrder
    <3>2. \A i \in 1 .. k, j \in readPos + 3 .. n :
             wire[j].kind = "header" /\ wire[j].frame.msg[1] = received[i][1] =>
               received[i][2] < wire[j].frame.msg[2]
      BY <1>2 DEF OpenedIsPast
    <3>3. \A j \in readPos' + 1 .. Len(wire') : j \in readPos + 3 .. n
      BY <1>2, <2>1
    <3> QED BY <1>2, <1>5, <2>1, <2>2, <3>1, <3>2, <3>3
  <2> QED BY <2>5, <2>7, <2>8 DEF OpenedIsPast
<1> QED BY <1>4, <1>5, OpenedGrows

(* With or without a mutex a payload is opened at most once and in the      *)
(* order of its sender: the receiver only moves forward over lengths that   *)
(* each writer puts on the wire in order.                                   *)
THEOREM OpenedInOrder == Spec => []OpenedOnceInOrder
<1>1. Init => OrderInv
  <2> SUFFICES ASSUME Init PROVE HeadersInOrder /\ OpenedIsPast /\ OpenedOnceInOrder
    BY InitTyped DEF OrderInv
  <2>1. Len(wire) = 0 /\ Len(received) = 0 /\ DOMAIN received = {}
    BY DEF Init
  <2> QED BY <2>1 DEF HeadersInOrder, OpenedIsPast, OpenedOnceInOrder
<1>2. OrderInv /\ [Next]_channelVars => OrderInv'
  BY TypeInductive, HeadersInductive, OpenedInductive DEF OrderInv
<1>3. OrderInv => OpenedOnceInOrder
  BY DEF OrderInv
<1> QED BY <1>1, <1>2, <1>3, PTL DEF Spec

-----------------------------------------------------------------------------
(* The session of writers that seal and write under the mutex.             *)

(* The writer that holds writeMu is the only one inside a send. *)
OneSender == locked => \A w \in Writers : writer[w] # "idle" => writeMu = w

(* The wire is a sequence of whole frames in the order of their counters,   *)
(* the last one possibly without its payload.                               *)
FramedAt(i) ==
    \/ wire[i].kind = "header" /\ i = 2 * wire[i].frame.nonce + 1
    \/ /\ wire[i].kind = "body" /\ i = 2 * wire[i].frame.nonce + 2
       /\ wire[i - 1].kind = "header" /\ wire[i - 1].frame = wire[i].frame
WireFramed == locked => \A i \in 1 .. Len(wire) : FramedAt(i)

(* Until the stream breaks the counter of the sending cipher state is the   *)
(* number of frames written, ahead by one while a counted frame is not yet  *)
(* written completely.                                                      *)
Between(w) == writer[w] \in {"counted", "halfWritten"}
CounterInStep ==
    locked /\ ~broken =>
      /\ (\A w \in Writers : ~Between(w)) => Len(wire) = 2 * sendNonce
      /\ \A w \in Writers :
           /\ writer[w] = "sealed" => sealed[w].nonce = sendNonce
           /\ Between(w) => sendNonce = sealed[w].nonce + 1
           /\ writer[w] = "counted" => Len(wire) = 2 * sealed[w].nonce
           /\ writer[w] = "halfWritten" =>
                /\ Len(wire) = 2 * sealed[w].nonce + 1
                /\ wire[Len(wire)].kind = "header" /\ wire[Len(wire)].frame = sealed[w]

LockInv == TypeInv /\ OneSender /\ WireFramed /\ CounterInStep /\ NothingSkipped

(* The kind of stream is fixed, and a broken one stays broken. *)
LEMMA SessionFixed == TypeInv /\ [Next]_channelVars => locked' = locked /\ (~broken' => ~broken)
<1> SUFFICES ASSUME TypeInv, [Next]_channelVars PROVE locked' = locked /\ (~broken' => ~broken)
  OBVIOUS
<1>1. CASE StreamBreaks
  BY <1>1 DEF StreamBreaks, writerVars
<1>2. CASE UNCHANGED <<locked, broken>>
  BY <1>2
<1> QED
  BY <1>1, <1>2
     DEF Next, Write, Begin, Encrypt, Count, WriteHeader, WriteBody, End, Receive, ReadAndOpen,
         ReadAndDrop, ReadGarbled, ReadFails, writerVars, channelVars

(* SendAction locks, and unlocks only when it returns. *)
LEMMA SenderInductive == TypeInv /\ OneSender /\ [Next]_channelVars => OneSender'
<1> SUFFICES ASSUME TypeInv, OneSender, [Next]_channelVars, locked'
             PROVE \A w \in Writers : writer'[w] # "idle" => writeMu' = w
  BY DEF OneSender
<1>0. locked /\ \A w \in Writers : writer[w] # "idle" => writeMu = w
  BY SessionFixed DEF OneSender
<1> USE DEF TypeInv, TypeOK
<1>1. ASSUME NEW v \in Writers, Begin(v) PROVE \A w \in Writers : writer'[w] # "idle" => writeMu' = w
  BY <1>0, <1>1, ChannelAssumptions DEF Begin
<1>2. ASSUME NEW v \in Writers, Encrypt(v) \/ Count(v) \/ WriteHeader(v) \/ WriteBody(v)
      PROVE \A w \in Writers : writer'[w] # "idle" => writeMu' = w
  BY <1>0, <1>2 DEF Encrypt, Count, WriteHeader, WriteBody
<1>3. ASSUME NEW v \in Writers, End(v) PROVE \A w \in Writers : writer'[w] # "idle" => writeMu' = w
  BY <1>0, <1>3 DEF End
<1>4. CASE UNCHANGED <<writer, writeMu>>
  BY <1>0, <1>4
<1> QED
  BY <1>1, <1>2, <1>3, <1>4
     DEF Next, Write, StreamBreaks, Receive, ReadAndOpen, ReadAndDrop, ReadGarbled, ReadFails,
         writerVars, channelVars

(* A length goes after whole frames, a payload after its own length. *)
LEMMA FramedInductive ==
  TypeInv /\ WireFramed /\ CounterInStep /\ [Next]_channelVars => WireFramed'
<1> SUFFICES ASSUME TypeInv, WireFramed, CounterInStep, [Next]_channelVars, locked'
             PROVE \A i \in 1 .. Len(wire') : FramedAt(i)'
  BY DEF WireFramed
<1>0. locked /\ \A i \in 1 .. Len(wire) : FramedAt(i)
  BY SessionFixed DEF WireFramed
<1>1. CASE UNCHANGED wire
  BY <1>0, <1>1 DEF FramedAt
<1>2. PICK n \in Nat : n = Len(wire)
  BY DEF TypeInv, TypeOK
<1>3. ASSUME NEW w \in Writers, NEW kind, Grows(w, kind), FramedAt(n + 1)'
      PROVE \A i \in 1 .. Len(wire') : FramedAt(i)'
  <2>1. \A i \in 1 .. n : wire'[i] = wire[i]
    BY <1>2, <1>3 DEF Grows
  <2>2. \A i \in 1 .. Len(wire') : i \in 1 .. n \/ i = n + 1
    BY <1>2, <1>3 DEF Grows
  <2>3. ASSUME NEW i \in 1 .. n PROVE FramedAt(i)'
    <3>1. CASE i - 1 \in 1 .. n
      BY <1>0, <1>2, <2>1, <3>1 DEF FramedAt
    <3>2. CASE i = 1
      <4>1. wire[1].frame.nonce \in Nat /\ wire'[1] = wire[1] /\ FramedAt(1)
        BY <1>0, <1>2, <2>1, <3>2, PieceTyped
      <4>2. wire[1].kind = "header" /\ 1 = 2 * wire[1].frame.nonce + 1
        BY <4>1 DEF FramedAt
      <4> QED BY <3>2, <4>1, <4>2 DEF FramedAt
    <3> QED BY <3>1, <3>2
  <2> QED BY <1>3, <2>2, <2>3
<1>4. ASSUME NEW w \in Writers, WriteHeader(w), Grows(w, "header")
      PROVE FramedAt(n + 1)'
  <2>1. n = 2 * sealed[w].nonce
    BY <1>0, <1>2, <1>4 DEF WriteHeader, CounterInStep, Between
  <2> QED BY <1>2, <1>4, <2>1 DEF Grows, FramedAt
<1>5. ASSUME NEW w \in Writers, WriteBody(w), Grows(w, "body")
      PROVE FramedAt(n + 1)'
  <2>1. n = 2 * sealed[w].nonce + 1 /\ wire[n].kind = "header" /\ wire[n].frame = sealed[w]
    BY <1>0, <1>2, <1>5 DEF WriteBody, CounterInStep, Between
  <2>2. sealed[w].nonce \in Nat
    BY <1>5 DEF Grows, Frames
  <2>3. n \in 1 .. n
    BY <1>2, <2>1, <2>2
  <2>4. wire'[n] = wire[n] /\ wire'[n + 1] = [kind |-> "body", frame |-> sealed[w]]
    BY <1>2, <1>5, <2>3 DEF Grows
  <2> QED BY <2>1, <2>2, <2>4 DEF FramedAt
<1> QED BY <1>1, <1>3, <1>4, <1>5, WireGrows

(* Encrypt, the increment and the two writes keep the counter in step with  *)
(* the wire, because no other writer is inside a send.                      *)
LEMMA CounterInductive ==
  TypeInv /\ OneSender /\ CounterInStep /\ [Next]_channelVars => CounterInStep'
<1> SUFFICES ASSUME TypeInv, OneSender, CounterInStep, [Next]_channelVars, locked', ~broken'
             PROVE CounterInStep'
  BY DEF CounterInStep
<1>0. locked /\ ~broken
  BY SessionFixed
<1>1. ASSUME NEW v \in Writers, writer[v] # "idle"
      PROVE \A w \in Writers : w # v => writer[w] = "idle"
  BY <1>0, <1>1 DEF OneSender
<1>2. \A w \in Writers : Between(w) \/ writer[w] \in {"sealed"} => sealed[w].nonce \in Nat
  BY DEF TypeInv, InSend, Frames, Between
<1> USE DEF Between
<1>3. ASSUME NEW v \in Writers, Begin(v) PROVE CounterInStep'
  BY <1>0, <1>3 DEF Begin, CounterInStep, TypeInv, TypeOK
<1>4. ASSUME NEW v \in Writers, Encrypt(v) PROVE CounterInStep'
  <2>1. \A w \in Writers : w # v => writer'[w] = "idle" /\ writer[w] = "idle"
    BY <1>1, <1>4 DEF Encrypt, TypeInv, TypeOK
  <2>2. writer'[v] = "sealed" /\ sealed'[v].nonce = sendNonce
    BY <1>4 DEF Encrypt, TypeInv, TypeOK
  <2>3. Len(wire) = 2 * sendNonce
    BY <1>0, <1>4, <2>1 DEF Encrypt, CounterInStep
  <2> QED BY <1>4, <2>1, <2>2, <2>3 DEF Encrypt, CounterInStep
<1>5. ASSUME NEW v \in Writers, Count(v) PROVE CounterInStep'
  <2>1. \A w \in Writers : w # v => writer'[w] = "idle" /\ writer[w] = "idle"
    BY <1>1, <1>5 DEF Count, TypeInv, TypeOK
  <2>2. writer'[v] = "counted" /\ sealed' = sealed /\ wire' = wire
    BY <1>5 DEF Count, TypeInv, TypeOK
  <2>3. Len(wire) = 2 * sendNonce /\ sealed[v].nonce = sendNonce
    BY <1>0, <1>5, <2>1 DEF Count, CounterInStep
  <2>4. sendNonce' = sendNonce + 1
    BY <1>5, <2>3 DEF Count
  <2> QED BY <2>1, <2>2, <2>3, <2>4 DEF CounterInStep
<1>6. ASSUME NEW v \in Writers, WriteHeader(v), Grows(v, "header") PROVE CounterInStep'
  <2>1. \A w \in Writers : w # v => writer'[w] = "idle" /\ writer[w] = "idle"
    BY <1>1, <1>6 DEF WriteHeader, TypeInv, TypeOK
  <2>2. writer'[v] = "halfWritten" /\ sealed' = sealed /\ sendNonce' = sendNonce
    BY <1>6 DEF WriteHeader, TypeInv, TypeOK
  <2>3. Len(wire) = 2 * sealed[v].nonce /\ sendNonce = sealed[v].nonce + 1
    BY <1>0, <1>6 DEF WriteHeader, CounterInStep
  <2>4. Len(wire') = Len(wire) + 1 /\ wire'[Len(wire')] = [kind |-> "header", frame |-> sealed[v]]
    BY <1>6 DEF Grows
  <2>5. wire'[Len(wire')].kind = "header" /\ wire'[Len(wire')].frame = sealed[v]
    BY <2>4
  <2>6. Len(wire') = 2 * sealed[v].nonce + 1
    BY <2>3, <2>4
  <2> QED BY <2>1, <2>2, <2>3, <2>5, <2>6 DEF CounterInStep
<1>7. ASSUME NEW v \in Writers, WriteBody(v), Grows(v, "body") PROVE CounterInStep'
  <2>1. \A w \in Writers : w # v => writer'[w] = "idle" /\ writer[w] = "idle"
    BY <1>1, <1>7 DEF WriteBody, TypeInv, TypeOK
  <2>2. writer'[v] = "written" /\ sealed' = sealed /\ sendNonce' = sendNonce
    BY <1>7 DEF WriteBody, TypeInv, TypeOK
  <2>3. Len(wire) = 2 * sealed[v].nonce + 1 /\ sendNonce = sealed[v].nonce + 1
    BY <1>0, <1>7 DEF WriteBody, CounterInStep
  <2>4. Len(wire') = Len(wire) + 1
    BY <1>7 DEF Grows
  <2>5. Len(wire') = 2 * sendNonce
    BY <1>2, <1>7, <2>3, <2>4 DEF WriteBody
  <2> QED BY <2>1, <2>2, <2>5 DEF CounterInStep
<1>8. ASSUME NEW v \in Writers, End(v) PROVE CounterInStep'
  <2>1. writer[v] = "written"
    BY <1>0, <1>8 DEF End
  <2>2. \A w \in Writers : writer'[w] = "idle" /\ ~Between(w)
    BY <1>1, <1>8, <2>1 DEF End, TypeInv, TypeOK
  <2>3. Len(wire) = 2 * sendNonce
    BY <1>0, <2>2 DEF CounterInStep
  <2> QED BY <1>8, <2>2, <2>3 DEF End, CounterInStep
<1>9. CASE UNCHANGED <<writer, sealed, sendNonce, wire>>
  BY <1>0, <1>9 DEF CounterInStep
<1>10. \/ \E v \in Writers : Begin(v) \/ Encrypt(v) \/ Count(v) \/ End(v)
       \/ \E v \in Writers : WriteHeader(v) /\ Grows(v, "header")
       \/ \E v \in Writers : WriteBody(v) /\ Grows(v, "body")
       \/ UNCHANGED <<writer, sealed, sendNonce, wire>>
  <2>1. ASSUME NEW v \in Writers, WriteHeader(v) \/ WriteBody(v)
        PROVE (WriteHeader(v) /\ Grows(v, "header")) \/ (WriteBody(v) /\ Grows(v, "body"))
    BY <2>1, WriteGrows
  <2> QED
    BY <2>1 DEF Next, Write, StreamBreaks, Receive, ReadAndOpen, ReadAndDrop, ReadGarbled, ReadFails,
                writerVars, channelVars
<1> QED BY <1>3, <1>4, <1>5, <1>6, <1>7, <1>8, <1>9, <1>10

(* The receiver finds whole frames, in the order of its own counter. *)
LEMMA NextFrame ==
  ASSUME TypeInv, WireFramed, NothingSkipped, locked, readPos + 2 <= Len(wire)
  PROVE  /\ WholeFrameNext
         /\ wire[readPos + 1].frame = wire[readPos + 2].frame
         /\ wire[readPos + 1].frame.nonce = recvNonce
<1>1. PICK k \in Nat, n \in Nat : /\ k = Len(received) /\ n = Len(wire)
                                  /\ readPos = 2 * k /\ recvNonce = k /\ 2 * k + 2 <= n
  BY DEF TypeInv, TypeOK, NothingSkipped
<1>2. 2 * k + 1 \in 1 .. n /\ 2 * k + 2 \in 1 .. n /\ (2 * k + 2) - 1 = 2 * k + 1
  BY <1>1
<1>3. /\ wire[2 * k + 1].frame.nonce \in Nat /\ wire[2 * k + 2].frame.nonce \in Nat
      /\ FramedAt(2 * k + 1) /\ FramedAt(2 * k + 2)
      /\ wire[2 * k + 2] \in Pieces
  BY <1>1, <1>2, PieceTyped DEF WireFramed
<1>4. wire[2 * k + 1].kind = "header" /\ wire[2 * k + 1].frame.nonce = k
  BY <1>3 DEF FramedAt
<1>5. wire[2 * k + 2].kind = "body" /\ wire[2 * k + 1].frame = wire[2 * k + 2].frame
  BY <1>2, <1>3 DEF FramedAt
<1>6. wire[2 * k + 2] = [kind |-> "body", frame |-> wire[2 * k + 1].frame]
  BY <1>3, <1>5 DEF Pieces
<1> QED BY <1>1, <1>2, <1>4, <1>5, <1>6 DEF WholeFrameNext, HeaderAt

(* So it opens every frame it reads, and never drops or misreads one. *)
LEMMA SkippedInductive ==
  TypeInv /\ WireFramed /\ NothingSkipped /\ [Next]_channelVars => NothingSkipped'
<1> SUFFICES ASSUME TypeInv, WireFramed, NothingSkipped, [Next]_channelVars, locked'
             PROVE NothingSkipped'
  BY DEF NothingSkipped
<1>0. locked
  BY SessionFixed
<1>1. PICK k \in Nat, n \in Nat : /\ k = Len(received) /\ n = Len(wire)
                                  /\ readPos = 2 * k /\ recvNonce = k /\ 2 * k <= n
  BY <1>0 DEF TypeInv, TypeOK, NothingSkipped
<1>2. \A i \in 1 .. k : 2 * i \in 1 .. n /\ received[i] = wire[2 * i].frame.msg
  BY <1>0, <1>1 DEF NothingSkipped
<1>3. \A i \in 1 .. n : wire'[i] = wire[i]
  BY <1>1, WireGrows DEF Grows
<1>4. CASE UNCHANGED <<readPos, recvNonce, received>> /\ recvLoop' \in {recvLoop, "closed"}
  <2>1. recvLoop' # "garbled" /\ recvNonce' = Len(received') /\ readPos' = 2 * Len(received')
    BY <1>0, <1>4 DEF NothingSkipped
  <2>2. \A i \in 1 .. Len(received') : received'[i] = wire'[2 * i].frame.msg
    BY <1>1, <1>2, <1>3, <1>4
  <2> QED BY <2>1, <2>2 DEF NothingSkipped
<1>5. CASE ReadAndOpen
  <2>1. /\ received' = Append(received, wire[readPos + 1].frame.msg)
        /\ recvNonce' = recvNonce + 1 /\ readPos' = readPos + 2 /\ recvLoop' = recvLoop
        /\ readPos + 2 <= Len(wire)
    BY <1>5 DEF ReadAndOpen
  <2>2. 2 * k + 2 \in 1 .. n /\ 2 * k + 1 \in 1 .. n
    BY <1>1, <2>1
  <2>3. wire[2 * k + 1].frame.msg = wire[2 * k + 2].frame.msg /\ wire[2 * k + 1].frame.msg \in Messages
    BY <1>0, <1>1, <2>1, <2>2, NextFrame, PieceTyped
  <2>4. /\ Len(received') = k + 1 /\ received'[k + 1] = wire[2 * k + 2].frame.msg
        /\ \A i \in 1 .. k : received'[i] = received[i]
    BY <1>1, <2>1, <2>3, AppendPiece DEF TypeInv, TypeOK
  <2>5. recvLoop' # "garbled" /\ recvNonce' = Len(received') /\ readPos' = 2 * Len(received')
    BY <1>0, <1>1, <2>1, <2>4 DEF NothingSkipped
  <2>6. \A i \in 1 .. Len(received') : received'[i] = wire'[2 * i].frame.msg
    <3> SUFFICES ASSUME NEW i \in 1 .. k + 1 PROVE received'[i] = wire'[2 * i].frame.msg
      BY <2>4
    <3>1. CASE i \in 1 .. k
      BY <1>2, <1>3, <2>4, <3>1
    <3>2. CASE i = k + 1
      BY <1>3, <2>2, <2>4, <3>2
    <3> QED BY <3>1, <3>2
  <2> QED BY <2>5, <2>6 DEF NothingSkipped
<1>6. ~ReadAndDrop /\ ~ReadGarbled
  BY <1>0, NextFrame DEF ReadAndDrop, ReadGarbled
<1> QED
  BY <1>4, <1>5, <1>6
     DEF Next, Write, Begin, Encrypt, Count, WriteHeader, WriteBody, End, StreamBreaks, Receive,
         ReadFails, recvVars, channelVars

(* The invariant of a session with the mutex. *)
LEMMA LockedSession == Spec => []LockInv
<1>1. Init => LockInv
  <2> SUFFICES ASSUME Init PROVE OneSender /\ WireFramed /\ CounterInStep /\ NothingSkipped
    BY InitTyped DEF LockInv
  <2>1. Len(wire) = 0 /\ Len(received) = 0 /\ sendNonce = 0 /\ \A w \in Writers : writer[w] = "idle"
    BY DEF Init
  <2>2. OneSender /\ WireFramed /\ CounterInStep
    BY <2>1 DEF OneSender, WireFramed, CounterInStep, Between
  <2>3. NothingSkipped
    BY <2>1 DEF Init, NothingSkipped
  <2> QED BY <2>2, <2>3
<1>2. LockInv /\ [Next]_channelVars => LockInv'
  BY TypeInductive, SenderInductive, FramedInductive, CounterInductive, SkippedInductive DEF LockInv
<1> QED BY <1>1, <1>2, PTL DEF Spec

(* Two pieces of one kind never carry the same counter: their places on the *)
(* wire tell it.                                                            *)
THEOREM NoncesUnique == Spec => []NonceUsedOnce
<1>1. LockInv => NonceUsedOnce
  <2> SUFFICES ASSUME LockInv, locked, NEW i \in 1 .. Len(wire), NEW j \in 1 .. Len(wire),
                      wire[i].kind = wire[j].kind, wire[i].frame.nonce = wire[j].frame.nonce
               PROVE i = j
    BY DEF NonceUsedOnce
  <2>1. FramedAt(i) /\ FramedAt(j)
    BY DEF LockInv, WireFramed
  <2> QED BY <2>1 DEF FramedAt
<1> QED BY <1>1, LockedSession, PTL

(* With the mutex the receiver has opened exactly what it has read, whatever *)
(* the number of writers and however they interleave.                       *)
THEOREM NoneSkipped == Spec => []NothingSkipped
<1>1. LockInv => NothingSkipped
  BY DEF LockInv
<1> QED BY <1>1, LockedSession, PTL

-----------------------------------------------------------------------------
(* The refinement of FifoChannel.                                          *)

(* The messages of the frames on the wire that are complete. *)
Sent == IF locked THEN [i \in 1 .. Len(wire) \div 2 |-> wire[2 * i].frame.msg] ELSE <<>>
Delivered == IF locked THEN received ELSE <<>>

(* A sequence that agrees with s and goes on with e is s with e appended. *)
LEMMA OneMore ==
  ASSUME NEW S, NEW s \in Seq(S), NEW t \in Seq(S), NEW e \in S, Len(t) = Len(s) + 1,
         \A i \in 1 .. Len(s) : t[i] = s[i], t[Len(s) + 1] = e
  PROVE  t = Append(s, e)
<1>1. /\ Append(s, e) \in Seq(S) /\ Len(Append(s, e)) = Len(s) + 1
      /\ \A i \in 1 .. Len(s) : Append(s, e)[i] = s[i]
      /\ Append(s, e)[Len(s) + 1] = e
  BY AppendPiece
<1>2. \A i \in 1 .. Len(s) + 1 : t[i] = Append(s, e)[i]
  BY <1>1
<1> QED BY <1>1, <1>2

(* With h whole frames on the wire, Sent is a sequence of h messages. *)
LEMMA SentTyped ==
  ASSUME TypeInv, locked, NEW h \in Nat, Len(wire) \in {2 * h, 2 * h + 1}
  PROVE  /\ Sent \in Seq(Messages) /\ Len(Sent) = h
         /\ Sent = [i \in 1 .. h |-> wire[2 * i].frame.msg]
         /\ \A i \in 1 .. h : Sent[i] = wire[2 * i].frame.msg
<1>1. Len(wire) \div 2 = h
  BY Halves
<1>2. Sent = [i \in 1 .. h |-> wire[2 * i].frame.msg]
  BY <1>1 DEF Sent
<1>3. \A i \in 1 .. h : 2 * i \in 1 .. Len(wire)
  OBVIOUS
<1>4. \A i \in 1 .. h : wire[2 * i].frame.msg \in Messages
  BY <1>3, PieceTyped
<1> QED BY <1>2, <1>4

(* A session implements FifoChannel: writing the payload of a frame sends   *)
(* its message, opening it delivers it, and no other step is visible.       *)
THEOREM Refinement == Spec => ImplementsFifo
<1>1. Init => Fifo!FifoInit
  <2> SUFFICES ASSUME Init PROVE Sent = <<>> /\ Delivered = <<>>
    BY DEF Fifo!FifoInit, Sent, Delivered
  <2>1. Len(wire) = 0 /\ 0 \div 2 = 0
    BY DEF Init
  <2>2. [i \in 1 .. 0 |-> wire[2 * i].frame.msg] = <<>>
    OBVIOUS
  <2> QED BY <2>1, <2>2 DEF Init, Sent, Delivered
<1>2. LockInv /\ [Next]_channelVars => [Fifo!FifoNext]_<<Sent, Delivered>>
  <2> SUFFICES ASSUME LockInv, [Next]_channelVars
               PROVE Fifo!FifoNext \/ UNCHANGED <<Sent, Delivered>>
    OBVIOUS
  <2>0. TypeInv /\ locked' = locked
    BY SessionFixed DEF LockInv
  <2>1. CASE ~locked
    BY <2>0, <2>1 DEF Sent, Delivered
  <2>2. ASSUME locked, NEW w \in Writers, WriteHeader(w), Grows(w, "header")
        PROVE UNCHANGED <<Sent, Delivered>>
    <3>1. PICK h \in Nat : h = sealed[w].nonce
      BY <2>2 DEF Grows, Frames
    <3>2. Len(wire) = 2 * h /\ Len(wire') = 2 * h + 1
      <4>1. Len(wire) = 2 * h
        BY <2>2, <3>1 DEF LockInv, CounterInStep, WriteHeader
      <4>2. Len(wire') = Len(wire) + 1
        BY <2>2 DEF Grows
      <4> QED BY <4>1, <4>2
    <3>3. /\ Sent = [i \in 1 .. h |-> wire[2 * i].frame.msg]
          /\ Sent' = [i \in 1 .. h |-> wire'[2 * i].frame.msg]
      <4>1. Len(wire) \div 2 = h /\ Len(wire') \div 2 = h
        BY <3>2, Halves
      <4> QED BY <2>0, <2>2, <4>1 DEF Sent
    <3>4. \A i \in 1 .. h : wire'[2 * i] = wire[2 * i]
      BY <2>2, <3>2 DEF Grows
    <3>5. Delivered' = Delivered
      BY <2>0, <2>2 DEF Delivered, WriteHeader, recvVars
    <3> QED BY <3>3, <3>4, <3>5
  <2>3. ASSUME locked, NEW w \in Writers, WriteBody(w), Grows(w, "body")
        PROVE \E m \in Messages : Sent' = Append(Sent, m) /\ Delivered' = Delivered
    <3>1. PICK h \in Nat : h = sealed[w].nonce
      BY <2>3 DEF Grows, Frames
    <3>2. Len(wire) = 2 * h + 1 /\ Len(wire') = 2 * (h + 1)
      <4>1. Len(wire) = 2 * h + 1
        BY <2>3, <3>1 DEF LockInv, CounterInStep, WriteBody
      <4>2. Len(wire') = Len(wire) + 1
        BY <2>3 DEF Grows
      <4> QED BY <4>1, <4>2
    <3>3. sealed[w].msg \in Messages
      BY <2>3 DEF Grows, Frames
    <3>4. Sent \in Seq(Messages) /\ Len(Sent) = h /\ \A i \in 1 .. h : Sent[i] = wire[2 * i].frame.msg
      BY <2>0, <2>3, <3>2, SentTyped
    <3>5. \A i \in 1 .. h : wire'[2 * i] = wire[2 * i]
      BY <2>3, <3>2 DEF Grows
    <3>6. wire'[2 * (h + 1)].frame.msg = sealed[w].msg
      BY <2>3, <3>2 DEF Grows
    <3>7. Sent' = [i \in 1 .. h + 1 |-> wire'[2 * i].frame.msg]
      <4>1. Len(wire') \div 2 = h + 1
        BY <3>2, Halves
      <4> QED BY <2>0, <2>3, <4>1 DEF Sent
    <3>8. /\ Sent' \in Seq(Messages) /\ Len(Sent') = h + 1
          /\ \A i \in 1 .. h : Sent'[i] = Sent[i]
          /\ Sent'[h + 1] = sealed[w].msg
      <4>1. \A i \in 1 .. h : wire'[2 * i].frame.msg = Sent[i] /\ Sent[i] \in Messages
        BY <3>4, <3>5
      <4>2. \A i \in 1 .. h + 1 : wire'[2 * i].frame.msg \in Messages
        BY <3>3, <3>6, <4>1
      <4> QED BY <3>6, <3>7, <4>1, <4>2
    <3>9. Sent' = Append(Sent, sealed[w].msg)
      BY <3>3, <3>4, <3>8, OneMore
    <3>10. Delivered' = Delivered
      BY <2>0, <2>3 DEF Delivered, WriteBody, recvVars
    <3> QED BY <3>3, <3>9, <3>10
  <2>4. ASSUME locked, ReadAndOpen
        PROVE /\ Len(Delivered) < Len(Sent)
              /\ Delivered' = Append(Delivered, Sent[Len(Delivered) + 1])
              /\ Sent' = Sent
    <3>1. PICK k \in Nat, n \in Nat : /\ k = Len(received) /\ n = Len(wire)
                                      /\ readPos = 2 * k /\ 2 * k + 2 <= n
      BY <2>4 DEF LockInv, TypeInv, TypeOK, NothingSkipped, ReadAndOpen
    <3>2. PICK h \in Nat : n \in {2 * h, 2 * h + 1}
      <4>1. n \div 2 \in Nat /\ n \in {2 * (n \div 2), 2 * (n \div 2) + 1}
        BY <3>1
      <4> QED BY <4>1
    <3>3. Len(Sent) = h /\ \A i \in 1 .. h : Sent[i] = wire[2 * i].frame.msg
      BY <2>0, <2>4, <3>1, <3>2, SentTyped
    <3>4. k + 1 \in 1 .. h
      BY <3>1, <3>2
    <3>5. wire[2 * k + 1].frame = wire[2 * (k + 1)].frame
      BY <2>4, <3>1, NextFrame DEF LockInv
    <3>6. received' = Append(received, wire[2 * k + 1].frame.msg) /\ wire' = wire
      BY <2>4, <3>1 DEF ReadAndOpen, writerVars
    <3>7. received' = Append(received, Sent[k + 1])
      BY <3>3, <3>4, <3>5, <3>6
    <3>8. Delivered = received /\ Delivered' = received' /\ Sent' = Sent
      BY <2>0, <2>4, <3>6 DEF Delivered, Sent
    <3> QED BY <3>1, <3>3, <3>4, <3>7, <3>8
  <2>5. CASE UNCHANGED <<wire, received>>
    BY <2>0, <2>5 DEF Sent, Delivered
  <2>6. \/ \E w \in Writers : WriteHeader(w) /\ Grows(w, "header")
        \/ \E w \in Writers : WriteBody(w) /\ Grows(w, "body")
        \/ ReadAndOpen
        \/ UNCHANGED <<wire, received>>
    <3>1. ASSUME NEW w \in Writers, WriteHeader(w) \/ WriteBody(w)
          PROVE (WriteHeader(w) /\ Grows(w, "header")) \/ (WriteBody(w) /\ Grows(w, "body"))
      BY <2>0, <3>1, WriteGrows
    <3> QED
      BY <3>1 DEF Next, Write, Begin, Encrypt, Count, End, StreamBreaks, Receive, ReadAndDrop,
                  ReadGarbled, ReadFails, writerVars, recvVars, channelVars
  <2>7. ASSUME \E m \in Messages : Sent' = Append(Sent, m) /\ Delivered' = Delivered
        PROVE Fifo!FifoNext
    BY <2>7 DEF Fifo!FifoNext, Fifo!Send, Sent, Delivered
  <2>8. ASSUME Len(Delivered) < Len(Sent), Sent' = Sent,
               Delivered' = Append(Delivered, Sent[Len(Delivered) + 1])
        PROVE Fifo!FifoNext
    BY <2>8 DEF Fifo!FifoNext, Fifo!Deliver, Sent, Delivered
  <2> QED BY <2>1, <2>2, <2>3, <2>4, <2>5, <2>6, <2>7, <2>8
<1> QED BY <1>1, <1>2, LockedSession, PTL DEF Spec, ImplementsFifo, Fifo!FifoSpec, Sent, Delivered

=============================================================================
