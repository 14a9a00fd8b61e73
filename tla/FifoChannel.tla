---------------------------- MODULE FifoChannel ----------------------------
(***************************************************************************)
(* What one direction of the overlay promises: messages are delivered once *)
(* each, whole, and in the order in which they were put on the stream.     *)
(***************************************************************************)
EXTENDS Naturals, Sequences

CONSTANT Messages

VARIABLES
    sent,       \* the messages put on the stream, in order
    delivered   \* the messages the receiver has been given, in order

FifoInit == sent = <<>> /\ delivered = <<>>

Send(m) == sent' = Append(sent, m) /\ UNCHANGED delivered

Deliver ==
    /\ Len(delivered) < Len(sent)
    /\ delivered' = Append(delivered, sent[Len(delivered) + 1])
    /\ UNCHANGED sent

FifoNext == (\E m \in Messages : Send(m)) \/ Deliver

FifoSpec == FifoInit /\ [][FifoNext]_<<sent, delivered>>

=============================================================================
