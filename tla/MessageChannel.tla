---------------------------- MODULE MessageChannel ----------------------------
(* What the reliable links promise: the messages 1, 2, 3, ... that one side has *)
(* sent reach the other side once each and in that order.                       *)
EXTENDS Naturals, Sequences

VARIABLES
    sent,   \* how many messages have been accepted for sending
    got     \* the messages the receiver has been handed

ChannelInit == sent = 0 /\ got = <<>>

SendMessage == sent' = sent + 1 /\ UNCHANGED got

GetMessage == Len(got) < sent /\ got' = Append(got, Len(got) + 1) /\ UNCHANGED sent

ChannelSpec == ChannelInit /\ [][SendMessage \/ GetMessage]_<<sent, got>>
=============================================================================
