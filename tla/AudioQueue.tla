---- MODULE AudioQueue ----
(***************************************************************************)
(* What the sample ring promises its two sides: one bounded queue. Whole   *)
(* pushes join its end, every fill of the device callback takes from its   *)
(* front and pads with silence, and a discard drops from its front.        *)
(* Samples are numbered by the order in which they were accepted.          *)
(***************************************************************************)
EXTENDS Naturals, Sequences

CONSTANTS
  Capacity,            \* samples the queue holds
  MaxFill              \* the longest buffer a callback fills

VARIABLES
  queue,               \* accepted samples not yet taken, oldest first
  sent,                \* how many samples ever joined
  played               \* the buffer the last callback returned

queueVars == <<queue, sent, played>>

Silence == 0

\* The first n of q, padded with silence to the buffer's length.
Padded(q, n, len) == [i \in 1 .. len |-> IF i <= n THEN q[i] ELSE Silence]
WithoutFirst(q, n) == [i \in 1 .. Len(q) - n |-> q[i + n]]

Init ==
  /\ queue = <<>>
  /\ sent = 0
  /\ played = <<>>

\* `Producer::push`: what fits joins the end as one piece.
Push(n) ==
  /\ Len(queue) + n <= Capacity
  /\ queue' = [i \in 1 .. Len(queue) + n |->
                IF i <= Len(queue) THEN queue[i] ELSE sent + (i - Len(queue))]
  /\ sent' = sent + n
  /\ UNCHANGED played

\* `Consumer::fill`: n samples from the front, then silence.
Fill(n, len) ==
  /\ n <= Len(queue) /\ n <= len
  /\ played' = Padded(queue, n, len)
  /\ queue' = WithoutFirst(queue, n)
  /\ UNCHANGED sent

\* A held or a first-read discard.
Discard(n) ==
  /\ n <= Len(queue)
  /\ queue' = WithoutFirst(queue, n)
  /\ UNCHANGED <<sent, played>>

Next ==
  \/ \E n \in 1 .. Capacity : Push(n)
  \/ \E n \in 0 .. Capacity, len \in 1 .. MaxFill : Fill(n, len)
  \/ \E n \in 1 .. Capacity : Discard(n)

QueueSpec == Init /\ [][Next]_queueVars
====
