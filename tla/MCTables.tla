------------------------------ MODULE MCTables ------------------------------
(***************************************************************************)
(* Two tables that several goroutines or a moving kernel share with their  *)
(* caller: the caches of the socket resolver (SocketAttribution) and the   *)
(* token buckets of the sources (GrayZone).  They share no state, so a     *)
(* behaviour is one of one table, which "part" names; the other stays as   *)
(* it was at the start.  The resolver is explored three times: every kind  *)
(* of request with arrays of one place; the caches over more changes of    *)
(* the kernel and of the clock; and a kernel that gives no pid twice, on a *)
(* crowded host.  In the last two a dump may fail.                         *)
(***************************************************************************)
EXTENDS GrayZone, Sequences

VARIABLES
  part,
  start, link, socks, kernel, time, tuples, inodes, call, calls, closed, failures, held  \* SocketAttribution

socketVars == <<start, link, socks, kernel, time, tuples, inodes, call, calls, closed, failures, held>>

-----------------------------------------------------------------------------
Sock(v6, d) == [v6 |-> v6, dport |-> d, local |-> TRUE]
Ask(k, d, c) == [kind |-> k, dport |-> d, cand |-> c]
AllSockets == {Sock(FALSE, 7), Sock(FALSE, 0), Sock(TRUE, 7), [Sock(TRUE, 7) EXCEPT !.local = FALSE]}
AllRequests == {Ask("ipv4", 7, 1), Ask("ipv6", 7, 0), Ask("ipv4", 0, 2),
                Ask("inode", 0, 0), Ask("listen", 0, 0)}
FewRequests == {Ask("ipv4", 7, 0), Ask("inode", 0, 0), Ask("listen", 0, 0)}

Every == INSTANCE SocketAttribution WITH now <- time,
           Pids <- {1, 2}, Fds <- {1}, Sockets <- AllSockets, Requests <- AllRequests,
           Ways <- 2, InodeSlots <- 1, MaxMatches <- 1, Crowded <- FALSE, Ttl <- 0, Reuse <- TRUE,
           MaxKernel <- 3, MaxCalls <- 2, MaxFailures <- 0, MaxTime <- 1
Inode == INSTANCE SocketAttribution WITH now <- time,
           Pids <- {1, 2}, Fds <- {1}, Sockets <- {Sock(FALSE, 0)}, Requests <- FewRequests,
           Ways <- 2, InodeSlots <- 2, MaxMatches <- 2, Crowded <- FALSE, Ttl <- 0, Reuse <- TRUE,
           MaxKernel <- 4, MaxCalls <- 2, MaxFailures <- 1, MaxTime <- 0
Once == INSTANCE SocketAttribution WITH now <- time,
          Pids <- {1, 2}, Fds <- {1}, Sockets <- {Sock(FALSE, 0)}, Requests <- FewRequests,
          Ways <- 2, InodeSlots <- 2, MaxMatches <- 2, Crowded <- TRUE, Ttl <- 0, Reuse <- FALSE,
          MaxKernel <- 4, MaxCalls <- 2, MaxFailures <- 1, MaxTime <- 0

(* GrayZone: two sources that share one slot, over the instants between    *)
(* which a token is added and a slot becomes inactive.                     *)
MCSlotOf == [s \in Sources |-> "slot"]
Instants == {3, 4, 5, 7}

-----------------------------------------------------------------------------
MCInit ==
  /\ GrayInit
  /\ \/ part \in {"every", "grayzone"} /\ Every!Init
     \/ part = "inode" /\ Inode!Init
     \/ part = "once" /\ Once!Init

MCNext ==
  /\ UNCHANGED part
  /\ \/ part = "every" /\ Every!Next /\ UNCHANGED grayVars
     \/ part = "inode" /\ Inode!Next /\ UNCHANGED grayVars
     \/ part = "once" /\ Once!Next /\ UNCHANGED grayVars
     \/ part = "grayzone" /\ GrayNext /\ now' \in Instants /\ UNCHANGED socketVars

MCSpec == MCInit /\ [][MCNext]_<<part, socketVars, grayVars>> /\ GrayFairness

-----------------------------------------------------------------------------
(* Every caller has an answer, and the right one.  SocketAttribution: some *)
(* process of the pid answered held the socket during the call, caches     *)
(* notwithstanding; the answer of the inode cache is exact whenever the    *)
(* kernel does not move during the call; while no pid is given twice, the  *)
(* very process named held the socket; the process that the caller         *)
(* proposes is the answer as soon as it holds one of the sockets of the    *)
(* dump, a tuple has at most one cached answer, and a request is refused   *)
(* only when no open socket matches it or a dump was not whole.  GrayZone: *)
(* every goroutine leaves the loop in which it tries for a token.          *)
CallersAnswered ==
  /\ [](part = "every" => Every!TypeOK /\ Every!PidHeld /\ Every!CandidateWins /\ Every!TupleOnce /\ Every!NoMiss)
  /\ [](part = "inode" => Inode!PidHeld /\ Inode!NoMiss /\ Inode!InodeExact)
  /\ [](part = "once" => Once!AttributionTrue)
  /\ DecisionsComplete
=============================================================================
