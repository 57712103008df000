---------------------------- MODULE ForkChannel ----------------------------
(***************************************************************************)
(* What a pair of sockets promises in one direction: each fork is a FIFO   *)
(* channel of its own.  The k-th recv of a fork gets the k-th message sent *)
(* on that fork, whatever happens on the other forks.  A failure may lose  *)
(* messages at the end of the channels, and then no more are accepted.     *)
(***************************************************************************)
EXTENDS Naturals, Sequences

CONSTANTS Fork, Message

VARIABLES
    open,    \* does the sending side accept messages?
    chan,    \* the messages of each fork that have not been received
    rcvd     \* what the recvs of each fork got, in the order of the recvs

Init ==
    /\ open = TRUE
    /\ chan = [f \in Fork |-> <<>>] /\ rcvd = [f \in Fork |-> <<>>]

Send(f, m) ==
    /\ open
    /\ chan' = [chan EXCEPT ![f] = Append(@, m)]
    /\ UNCHANGED <<open, rcvd>>

Recv(f) ==
    /\ chan[f] # <<>>
    /\ rcvd' = [rcvd EXCEPT ![f] = Append(@, Head(chan[f]))]
    /\ chan' = [chan EXCEPT ![f] = Tail(@)]
    /\ UNCHANGED open

Fail ==
    /\ open /\ open' = FALSE
    /\ \A f \in Fork : \E n \in 0..Len(chan[f]) : chan'[f] = SubSeq(chan[f], 1, n)
    /\ DOMAIN chan' = Fork
    /\ UNCHANGED rcvd

Next ==
    \/ \E f \in Fork, m \in Message : Send(f, m)
    \/ \E f \in Fork : Recv(f)
    \/ Fail

Spec == Init /\ [][Next]_<<open, chan, rcvd>>
=============================================================================
