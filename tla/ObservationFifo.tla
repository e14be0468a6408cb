-------------------------- MODULE ObservationFifo --------------------------
(***************************************************************************)
(* What the four probe channels promise the caller of InjectObservation    *)
(* and PollBatch (c2blue55.go): each channel is a bounded queue.  An       *)
(* injection is queued whole, or is refused and counted when the channel   *)
(* is full; a poll takes observations from the front, each exactly once.   *)
(***************************************************************************)
EXTENDS Naturals, Sequences

CONSTANTS
  Channels,   \* the channels of the context
  Size,       \* observations a channel holds, 1024 in the code
  Events      \* the observations a caller may inject

VARIABLES
  queue,      \* the observations of each channel, oldest first
  drops,      \* refused injections of each channel
  batch       \* the observations taken by the poll in progress

fifoVars == <<queue, drops, batch>>

FifoInit ==
  /\ queue = [c \in Channels |-> << >>]
  /\ drops = [c \in Channels |-> 0]
  /\ batch = << >>

Enqueue(c, e) ==
  /\ Len(queue[c]) < Size
  /\ queue' = [queue EXCEPT ![c] = Append(@, e)]
  /\ UNCHANGED <<drops, batch>>

Refuse(c) ==
  /\ Len(queue[c]) = Size
  /\ drops' = [drops EXCEPT ![c] = @ + 1]
  /\ UNCHANGED <<queue, batch>>

(* A poll takes one observation; a batch read takes several at once.       *)
Take(c, n) ==
  /\ n \in 1 .. Len(queue[c])
  /\ batch' = batch \o SubSeq(queue[c], 1, n)
  /\ queue' = [queue EXCEPT ![c] = SubSeq(@, n + 1, Len(@))]
  /\ UNCHANGED drops

Finish ==
  /\ batch' = << >>
  /\ UNCHANGED <<queue, drops>>

FifoNext ==
  \/ \E c \in Channels : \/ Refuse(c)
                         \/ \E n \in 1 .. Size : Take(c, n)
                         \/ \E e \in Events : Enqueue(c, e)
  \/ Finish

FifoSpec == FifoInit /\ [][FifoNext]_fifoVars
=============================================================================
