------------------------- MODULE SocketAttribution -------------------------
(***************************************************************************)
(* ResolveurSocketProcessus, of attribution_socket_linux.go: from the      *)
(* ports of a datagram to the process that sent it, through a dump of the  *)
(* kernel's sockets, the links of /proc/<pid>/fd and /proc/<pid>/stat.     *)
(* One call runs at a time, under the mutex; the kernel changes between    *)
(* any two of its system calls.                                            *)
(*                                                                         *)
(* The protocol and the addresses of a request are constant.  One set of   *)
(* the tuple cache is modelled, in which every tuple falls.                *)
(***************************************************************************)
EXTENDS Integers, Sequences, SequencesExt, FiniteSets, FiniteSetsExt

CONSTANTS
  Pids, Fds,     \* sets of positive naturals
  Sockets,       \* what the processes open: a family, a remote port or 0, and
                 \* whether its address is one of the host or any
  Requests,      \* what is asked: a kind, a remote port or 0, a candidate or 0
  Ways,          \* voiesCacheTuples
  InodeSlots,    \* capaciteCacheInodes
  MaxMatches,    \* the length of exactes and of replis, 8 in the code
  Crowded,       \* has the host more sockets than capaciteSocketsDiag?
  Ttl,           \* dureeVieCacheTuples
  Reuse,         \* may the kernel give a pid again?
  MaxKernel,     \* bound: the changes of the kernel
  MaxCalls,      \* bound: the calls
  MaxFailures,   \* bound: the dumps that fail
  MaxTime        \* bound: the clock

Free == [occupied |-> FALSE]
NoSock == [v6 |-> FALSE, dport |-> -1, local |-> FALSE]
NoIdentity == [pid |-> 0, start |-> 0, inode |-> 0]
Inodes == 1 .. MaxKernel

VARIABLES
  start,     \* the start time of the process of every pid, 0 if there is none,
             \* -1 if there is none and the pid will not be given again
  link,      \* link[p][f]: the socket that descriptor f of p names, 0 if none
  socks,     \* what a dump tells of every inode, on the local port of interest
  kernel,    \* the number of changes so far, which dates starts and inodes
  now,
  tuples,    \* the tuple cache, and the counter of its accesses
  inodes,    \* the inode cache and its cursor
  call,      \* the call under way, or the last one
  calls, closed,
  failures,  \* the dumps that failed, whose answer may still be in the socket
  held       \* history: who held what during the call

vars == <<start, link, socks, kernel, now, tuples, inodes, call, calls, closed, failures, held>>
kernelState == <<start, link, socks, kernel, now>>
caches == <<tuples, inodes>>

Idle == [pc |-> "idle", kind |-> "none", dport |-> 0, cand |-> 0, since |-> 0, v6 |-> FALSE, queue |-> <<>>,
         i |-> 1, pid |-> 0, fd |-> 0, slot |-> 0, via |-> "inode", result |-> NoIdentity, cached |-> FALSE,
         listens |-> FALSE, whole |-> TRUE]

Init ==
  /\ start = [p \in Pids |-> IF p = Min(Pids) THEN 1 ELSE 0]
  /\ link = [p \in Pids |-> [f \in Fds |-> 0]]
  /\ socks = [n \in Inodes |-> NoSock]
  /\ kernel = 0 /\ now = 0
  /\ tuples = [way |-> [w \in 1 .. Ways |-> Free], seq |-> 0]
  /\ inodes = [slot |-> [k \in 1 .. InodeSlots |-> Free], cursor |-> 0]
  /\ call = Idle /\ calls = 0 /\ closed = FALSE /\ failures = 0
  /\ held = {}

-----------------------------------------------------------------------------
(* The kernel.                                                             *)
Runs(p) == start[p] > 0
Holders(n) == {p \in Pids : \E f \in Fds : link[p][f] = n}
Holds(p, n) == p \in Holders(n)
FdOf(p, n) == Min({f \in Fds : link[p][f] = n})
Holdings(st, ln) == {<<p, st[p], ln[p][f]>> : p \in {q \in Pids : st[q] > 0}, f \in Fds}

Changes ==
  /\ kernel < MaxKernel /\ kernel' = kernel + 1
  /\ held' = held \cup Holdings(start', link')
  /\ UNCHANGED <<now, caches, call, calls, closed, failures>>

(* A process begins, with the descriptors of its parent if it has one.     *)
Begins(p, parent) ==
  /\ start[p] = 0
  /\ start' = [start EXCEPT ![p] = kernel + 2]
  /\ link' = [link EXCEPT ![p] = IF parent = p THEN @ ELSE link[parent]]
  /\ UNCHANGED socks
  /\ Changes

Exits(p) ==
  /\ Runs(p)
  /\ start' = [start EXCEPT ![p] = IF Reuse THEN 0 ELSE -1]
  /\ link' = [link EXCEPT ![p] = [f \in Fds |-> 0]]
  /\ UNCHANGED socks
  /\ Changes

Opens(p, f, sock) ==
  /\ Runs(p) /\ link[p][f] = 0 /\ kernel + 1 \in Inodes
  /\ socks' = [socks EXCEPT ![kernel + 1] = sock]
  /\ link' = [link EXCEPT ![p][f] = kernel + 1]
  /\ UNCHANGED start
  /\ Changes

Closes(p, f) ==
  /\ link[p][f] # 0
  /\ link' = [link EXCEPT ![p][f] = 0]
  /\ UNCHANGED <<start, socks>>
  /\ Changes

Tick ==
  /\ now < MaxTime /\ now' = now + 1
  /\ UNCHANGED <<start, link, socks, kernel, caches, call, calls, closed, failures, held>>

-----------------------------------------------------------------------------
Begin(c) ==
  /\ call.pc = "idle" /\ calls < MaxCalls
  /\ calls' = calls + 1
  /\ call' = [c EXCEPT !.since = kernel]
  /\ held' = Holdings(start, link)
  /\ UNCHANGED <<kernelState, caches, closed, failures>>

ResoudreTupleIPv4(dport, cand) == Begin([Idle EXCEPT !.pc = "cache", !.kind = "ipv4", !.dport = dport, !.cand = cand])
ResoudreTupleIPv6(dport, cand) ==
  Begin([Idle EXCEPT !.pc = "cache", !.kind = "ipv6", !.dport = dport, !.cand = cand, !.v6 = TRUE])
ResoudreInodeSocket(n, cand) == Begin([Idle EXCEPT !.pc = "inode", !.kind = "inode", !.queue = <<n>>, !.cand = cand])
DetecterEcouteDNSClairLocale(p, st) ==
  Begin([Idle EXCEPT !.pc = "listen", !.kind = "listen", !.pid = p, !.result = [NoIdentity EXCEPT !.pid = p, !.start = st]])

Answer(id) == call' = [call EXCEPT !.pc = "idle", !.result = id]
Refuse == Answer(NoIdentity)

(* The entries of the cache that answer the request.                       *)
Candidates ==
  {w \in 1 .. Ways : LET e == tuples.way[w] IN
     e.occupied /\ e.kind = call.kind /\ e.dport = call.dport /\ call.cand \in {0, e.id.pid}}

(* Mutant of Valid: an entry is trusted as long as it is young.            *)
ValidYoung(w) == now - tuples.way[w].since <= Ttl

(* An entry is good if it is young and its descriptor still names the      *)
(* socket; the start time of the process is not read again.                *)
Valid(w) ==
  LET e == tuples.way[w] IN now - e.since <= Ttl /\ link[e.id.pid][e.fd] = e.id.inode

(* The first good entry answers; the bad ones before it are freed.         *)
chercherCacheTuple ==
  /\ call.pc = "cache"
  /\ LET good == {w \in Candidates : Valid(w)}
         bad == {w \in Candidates \ good : \A g \in good : w < g}
         freed == [w \in 1 .. Ways |-> IF w \in bad THEN Free ELSE tuples.way[w]]
     IN IF closed THEN call' = [call EXCEPT !.pc = "dump"] /\ UNCHANGED tuples
        ELSE IF good = {}
          THEN /\ tuples' = [tuples EXCEPT !.way = freed]
               /\ call' = [call EXCEPT !.pc = "dump"]
          ELSE /\ tuples' = [way |-> [freed EXCEPT ![Min(good)].order = tuples.seq + 1], seq |-> tuples.seq + 1]
               /\ call' = [call EXCEPT !.pc = "idle", !.result = tuples.way[Min(good)].id, !.cached = TRUE]
  /\ UNCHANGED <<kernelState, inodes, calls, closed, failures, held>>

Fallback == call.kind = "ipv4" /\ ~call.v6

Open(v6) == {n \in Inodes : Holders(n) # {} /\ socks[n].v6 = v6}

(* What a dump finds on the local port.  On a crowded host some sockets    *)
(* find no room in the table.  The number of a request is not compared     *)
(* with that of its answer, so after a failure the socket may hold what is *)
(* left of an earlier one.                                                 *)
Table(T, v6) ==
  \/ T = Open(v6)
  \/ Crowded /\ T \subseteq Open(v6)
  \/ failures > 0 /\ \A n \in T : socks[n] # NoSock

(* As many of a set as an array holds; the dump decides which.             *)
Kept(S) == IF Cardinality(S) <= MaxMatches THEN {S} ELSE kSubset(MaxMatches, S)

(* The sockets of the table that have the local port: those connected to   *)
(* the remote port, and those connected to none (or to any, when the       *)
(* request names no remote port).  The fallback of IPv4 takes the sockets  *)
(* of both families only.                                                  *)
Fits(n, v6) == call.kind = "ipv4" /\ v6 => socks[n].local
Exact(T, v6) == {n \in T : socks[n].dport = call.dport /\ Fits(n, v6)}
Replis(T, v6) == {n \in T : (socks[n].dport = 0) # (call.dport = 0) /\ Fits(n, v6)}
ByInode(S) == SetToSortSeq(S, LAMBDA a, b : a < b)

(* IPv4 falls back on the sockets of both families only when no socket     *)
(* matches.                                                                *)
DumpInetDiag ==
  /\ call.pc = "dump"
  /\ IF closed THEN Refuse
     ELSE \E T \in SUBSET Inodes : \E exact \in Kept(Exact(T, call.v6)), rest \in Kept(Replis(T, call.v6)) :
       /\ Table(T, call.v6)
       /\ LET whole == call.whole /\ T = Open(call.v6) IN
          IF exact \cup rest = {}
            THEN call' = IF Fallback THEN [call EXCEPT !.v6 = TRUE, !.whole = whole]
                         ELSE [call EXCEPT !.pc = "idle", !.result = NoIdentity, !.whole = whole]
            ELSE call' = [call EXCEPT !.queue = ByInode(exact) \o ByInode(rest), !.i = 1, !.whole = whole,
                                      !.pc = IF call.cand = 0 THEN "inode" ELSE "candidate"]
  /\ UNCHANGED <<kernelState, caches, calls, closed, failures, held>>

(* An error of the dump ends the call, without the fallback.               *)
DumpFails ==
  /\ call.pc \in {"dump", "listendump"} /\ ~closed /\ failures < MaxFailures
  /\ failures' = failures + 1
  /\ call' = [call EXCEPT !.pc = "idle", !.whole = FALSE, !.result = NoIdentity]
  /\ UNCHANGED <<kernelState, caches, calls, closed, held>>

Found(p, via) ==
  call' = [call EXCEPT !.pc = "stat", !.pid = p, !.fd = FdOf(p, call.queue[call.i]), !.via = via]

(* The process that the caller proposes is tried on every socket first.    *)
TryCandidate ==
  /\ call.pc = "candidate"
  /\ IF call.i > Len(call.queue) THEN call' = [call EXCEPT !.pc = "inode", !.i = 1]
     ELSE IF Holds(call.cand, call.queue[call.i]) THEN Found(call.cand, "candidate")
     ELSE call' = [call EXCEPT !.i = @ + 1]
  /\ UNCHANGED <<kernelState, caches, calls, closed, failures, held>>

(* An entry of the inode cache is good if its process still holds the      *)
(* socket and, read after that, still has its start time.                  *)
CacheStat ==
  /\ call.pc = "cachestat"
  /\ LET e == inodes.slot[call.slot] IN
     IF start[e.pid] = e.start
       THEN call' = [call EXCEPT !.pc = "insert", !.result = [pid |-> e.pid, start |-> e.start, inode |-> e.inode]]
            /\ UNCHANGED inodes
       ELSE /\ inodes' = [inodes EXCEPT !.slot[call.slot] = Free]
            /\ call' = [call EXCEPT !.pc = "inode"]
  /\ UNCHANGED <<kernelState, tuples, calls, closed, failures, held>>

(* One socket: the inode cache, the candidate, and at last all of /proc.   *)
resoudreInodeSocket ==
  /\ call.pc = "inode" /\ call.i <= Len(call.queue)
  /\ LET n == call.queue[call.i]
         known == {k \in 1 .. InodeSlots : inodes.slot[k].occupied /\ inodes.slot[k].inode = n}
         k == Min(known)
     IN IF closed THEN Refuse /\ UNCHANGED inodes
        ELSE IF known = {}
          THEN /\ IF call.cand # 0 /\ Holds(call.cand, n) THEN Found(call.cand, "inode")
                  ELSE call' = [call EXCEPT !.pc = "scan"]
               /\ UNCHANGED inodes
        ELSE IF Holds(inodes.slot[k].pid, n)
          THEN /\ call' = [call EXCEPT !.pc = "cachestat", !.slot = k, !.pid = inodes.slot[k].pid,
                                        !.fd = FdOf(inodes.slot[k].pid, n)]
               /\ UNCHANGED inodes
          ELSE inodes' = [inodes EXCEPT !.slot[k] = Free] /\ UNCHANGED call
  /\ UNCHANGED <<kernelState, tuples, calls, closed, failures, held>>

InodesDone ==
  /\ call.pc = "inode" /\ call.i > Len(call.queue)
  /\ Refuse
  /\ UNCHANGED <<kernelState, caches, calls, closed, failures, held>>

chercherPIDParInodeDansProc ==
  /\ call.pc = "scan"
  /\ LET n == call.queue[call.i] IN
     \/ \E p \in Holders(n) : Found(p, "inode")
     \/ Holders(n) = {} /\ call' = [call EXCEPT !.pc = "inode", !.i = @ + 1]
  /\ UNCHANGED <<kernelState, caches, calls, closed, failures, held>>

NextSlot == (inodes.cursor + 1) % InodeSlots

(* The start time is read once the process is known to hold the socket.    *)
construireEtMettreEnCache ==
  /\ call.pc = "stat"
  /\ LET p == call.pid
         n == call.queue[call.i]
     IN IF ~Runs(p)
          THEN /\ IF call.via = "candidate" THEN Refuse ELSE call' = [call EXCEPT !.pc = "inode", !.i = @ + 1]
               /\ UNCHANGED inodes
          ELSE /\ inodes' = [slot |-> [inodes.slot EXCEPT ![inodes.cursor + 1] =
                                         [occupied |-> TRUE, inode |-> n, pid |-> p, start |-> start[p]]],
                             cursor |-> NextSlot]
               /\ call' = [call EXCEPT !.pc = "insert", !.result = [pid |-> p, start |-> start[p], inode |-> n]]
  /\ UNCHANGED <<kernelState, tuples, calls, closed, failures, held>>

(* The way of the tuple if it has one, else a free one, else the one used  *)
(* the longest ago.                                                        *)
Place ==
  LET own == {w \in 1 .. Ways : tuples.way[w].occupied /\ tuples.way[w].kind = call.kind /\ tuples.way[w].dport = call.dport}
      free == {w \in 1 .. Ways : ~tuples.way[w].occupied}
  IN IF own # {} THEN Min(own) ELSE IF free # {} THEN Max(free)
     ELSE CHOOSE w \in 1 .. Ways : \A x \in 1 .. Ways : tuples.way[w].order <= tuples.way[x].order

insererCacheTuple ==
  /\ call.pc = "insert"
  /\ tuples' = IF call.kind = "inode" THEN tuples
               ELSE [way |-> [tuples.way EXCEPT ![Place] =
                       [occupied |-> TRUE, kind |-> call.kind, dport |-> call.dport, order |-> tuples.seq + 1,
                        since |-> now, id |-> call.result, fd |-> call.fd]],
                     seq |-> tuples.seq + 1]
  /\ call' = [call EXCEPT !.pc = "idle"]
  /\ UNCHANGED <<kernelState, inodes, calls, closed, failures, held>>

-----------------------------------------------------------------------------
(* DetecterEcouteDNSClairLocale: the start time; then, family by family,   *)
(* the dump and the descriptors of the process, socket by socket.          *)
ListenStat ==
  /\ call.pc = "listen"
  /\ call' = [call EXCEPT !.pc = IF closed \/ start[call.pid] # call.result.start THEN "idle" ELSE "listendump"]
  /\ UNCHANGED <<kernelState, caches, calls, closed, failures, held>>

ListenDump ==
  /\ call.pc = "listendump"
  /\ \E T \in SUBSET Inodes :
       /\ Table(T, call.v6)
       /\ call' = [call EXCEPT !.pc = "listenfd", !.i = 1,
                               !.queue = ByInode({n \in T : socks[n].dport = 0 /\ socks[n].local})]
  /\ UNCHANGED <<kernelState, caches, calls, closed, failures, held>>

ListenFd ==
  /\ call.pc = "listenfd"
  /\ call' = IF call.i > Len(call.queue)
               THEN IF call.v6 THEN [call EXCEPT !.pc = "idle"] ELSE [call EXCEPT !.pc = "listendump", !.v6 = TRUE]
             ELSE IF Holds(call.pid, call.queue[call.i])
               THEN [call EXCEPT !.pc = "idle", !.listens = TRUE, !.result.inode = call.queue[call.i]]
             ELSE [call EXCEPT !.i = @ + 1]
  /\ UNCHANGED <<kernelState, caches, calls, closed, failures, held>>

Fermer ==
  /\ call.pc = "idle" /\ ~closed
  /\ closed' = TRUE
  /\ UNCHANGED <<kernelState, caches, call, calls, failures, held>>

Resolver ==
  \/ chercherCacheTuple \/ DumpInetDiag \/ DumpFails \/ TryCandidate \/ resoudreInodeSocket \/ CacheStat \/ InodesDone
  \/ chercherPIDParInodeDansProc \/ construireEtMettreEnCache \/ insererCacheTuple
  \/ ListenStat \/ ListenDump \/ ListenFd

Next ==
  \/ \E p \in Pids : Exits(p) \/ \E q \in Pids : (p = q \/ Runs(q)) /\ Begins(p, q)
  \/ \E p \in Pids, f \in Fds : Closes(p, f)
  \/ \E p \in Pids, f \in Fds, s \in Sockets : Opens(p, f, s)
  \/ Tick
  \/ \E r \in Requests :
       \/ r.kind = "ipv4" /\ ResoudreTupleIPv4(r.dport, r.cand)
       \/ r.kind = "ipv6" /\ ResoudreTupleIPv6(r.dport, r.cand)
       \/ r.kind = "inode" /\ \E n \in 1 .. kernel : ResoudreInodeSocket(n, r.cand)
       \/ r.kind = "listen" /\ \E p \in Pids : Runs(p) /\ DetecterEcouteDNSClairLocale(p, start[p])
  \/ Fermer \/ Resolver

Spec == Init /\ [][Next]_vars

-----------------------------------------------------------------------------
(* The caches stay within their arrays and name pids the kernel uses.      *)
TypeOK ==
  /\ inodes.cursor \in 0 .. InodeSlots - 1
  /\ \A w \in 1 .. Ways : tuples.way[w].occupied => tuples.way[w].id.pid \in Pids /\ tuples.way[w].order <= tuples.seq
  /\ call.result.pid \in Pids \cup {0} /\ call.i \in 1 .. MaxKernel + 1

Resolved == call.pc = "idle" /\ call.result.inode # 0
Unchanged == call.since = kernel   \* the kernel has not moved since the call began

(* What the resolver answers comes from what the kernel showed during the  *)
(* call: some process of the pid held the socket, caches notwithstanding.  *)
PidHeld == Resolved => \E h \in held : h[1] = call.result.pid /\ h[3] = call.result.inode

(* IdentiteProcessusSocket: the very process named, pid and start time,    *)
(* held the socket at some moment of the call.                             *)
AttributionTrue == Resolved => <<call.result.pid, call.result.start, call.result.inode>> \in held

(* ResoudreInodeSocket, whose cache is checked against the start time, is  *)
(* exact whenever the kernel does not move during the call.                *)
InodeExact == Resolved /\ Unchanged /\ call.kind = "inode" =>
  start[call.result.pid] = call.result.start /\ Holds(call.result.pid, call.result.inode)

(* "Si un pidCandidat est proposé": the process the caller proposes is the *)
(* answer as soon as it holds one of the sockets of the request and these  *)
(* found room in the table and in exactes, whichever process the caches    *)
(* hold for the tuple.                                                     *)
CandidateWins ==
  LET v6 == call.kind = "ipv6"
      exact == Exact(Open(v6), v6)
  IN Resolved /\ Unchanged /\ call.whole /\ call.kind \in {"ipv4", "ipv6"} /\ call.cand # 0
       /\ Cardinality(exact) <= MaxMatches /\ (\E n \in exact : Holds(call.cand, n))
     => call.result.pid = call.cand

(* A request is refused only when no open socket matches it, in its family *)
(* or, for IPv4, among the sockets of both families; or when a dump failed *)
(* or gave a part of the sockets.                                          *)
NoMiss ==
  call.pc = "idle" /\ call.kind \in {"ipv4", "ipv6"} /\ call.result.inode = 0 /\ Unchanged /\ call.whole /\ ~closed =>
    \A v6 \in {call.kind = "ipv6", TRUE} : Exact(Open(v6), v6) \cup Replis(Open(v6), v6) = {}

(* A tuple has at most one entry, so that an older answer never hides a    *)
(* newer one.                                                              *)
TupleOnce == \A w, x \in 1 .. Ways :
  /\ tuples.way[w].occupied /\ tuples.way[x].occupied
  /\ tuples.way[w].kind = tuples.way[x].kind /\ tuples.way[w].dport = tuples.way[x].dport
  => w = x
=============================================================================
