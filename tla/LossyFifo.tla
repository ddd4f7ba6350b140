----------------------------- MODULE LossyFifo ------------------------------
(***************************************************************************)
(* What the endpoint queues promise: each channel delivers some of the     *)
(* messages put into it, each once and in the order they were put.         *)
(***************************************************************************)
EXTENDS Integers, Sequences, SequencesExt

CONSTANTS Chan, Msg

VARIABLE chan  \* per channel, the messages put and neither delivered nor lost

Init == chan = [c \in Chan |-> <<>>]

\* a channel with at most one message fewer
Less(q) == {q} \cup {RemoveAt(q, i) : i \in DOMAIN q}

\* a message that is not in the channel joins the end, perhaps at another's cost
Put(c, m) ==
  /\ \A i \in DOMAIN chan[c] : chan[c][i] # m
  /\ \E q \in Less(chan[c]) : chan' = [chan EXCEPT ![c] = Append(q, m)]

\* messages leave: delivered or lost
Leave == /\ chan' \in [Chan -> Seq(Msg)]
         /\ \A c \in Chan : chan'[c] \in Less(chan[c])

Next == Leave \/ \E c \in Chan, m \in Msg : Put(c, m)

Spec == Init /\ [][Next]_chan
=============================================================================
