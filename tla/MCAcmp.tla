------------------------------- MODULE MCAcmp -------------------------------
(* An instance of Acmp: two talkers and one listener sink.  The timers keep *)
(* the order they have in the code.                                        *)
EXTENDS Acmp

CONSTANTS talker1, talker2, listener, stream

TwoTalkers == {talker1, talker2}
OneSink == {listener}
OneSeq == {1}
OneStream == {stream}
Validity == {0, 1}

Capture(messages, talkers) == [messages |-> messages, talkers |-> talkers]

(* A sink bound to one of two talkers that come and go; one that probes    *)
(* them by a saved binding; a probe and its stream beside MSRP; a          *)
(* connection made and torn down by several commands.                      *)
SmallCaptures ==
    {Capture({"ADP", "CONNECT_RX"}, TwoTalkers),
     Capture({"ADP", "CONNECT_TX", "DISCONNECT_RX"}, {talker1}),
     Capture({"MSRP", "CONNECT_TX"}, {talker1}),
     Capture({"CONNECT_RX", "DISCONNECT_RX", "DISCONNECT_TX", "GET_STATE"},
             {talker1})}

(* A sink that is unbound from one talker and then probes another. *)
RebindCapture == {Capture({"ADP", "CONNECT_RX", "CONNECT_TX", "DISCONNECT_RX"}, TwoTalkers)}
=============================================================================
