------------------------------ MODULE ProcSensor ------------------------------
(* The kernel sensor of the kinetic engine (internal/cinetique/               *)
(* capteur_proc_linux.go): a snapshot of a process is read file by file under *)
(* /proc while the process runs, starts and loses threads, dies, and its pid  *)
(* is given to another process; two snapshots bound an episode.  The streams, *)
(* the texts, the lists of processors and the choice of two of them are       *)
(* checked against what they stand for.                                       *)
(*                                                                            *)
(* A file is abstracted to the numbers its parser keeps.  One counter of each *)
(* source stands for its family: `exec` for the three numbers of schedstat,   *)
(* `sw` for the two switch counts of status, `io` for the counters of io and  *)
(* the ticks of stat, which the kernel sums over the whole group.             *)
EXTENDS Integers, Sequences, FiniteSets, FiniteSetsExt, SequencesExt, TLC

CONSTANTS Tids,       \* thread identifiers; the leader's is the pid
          Leader,
          Buffer,     \* bytes of a read buffer
          Texts,      \* texts to parse
          CpuLists,   \* contents of the cpus files
          Allowed,    \* affinity masks of the process
          Width,      \* processors a mask can hold (1024)
          Ceiling,    \* PlafondPSICPUPermille
          MaxWork,    \* slices run over a behaviour
          MaxChanges, \* threads started or lost, processes replaced
          MaxTicks,   \* units of time that pass; the clock is set back once
          MaxFaults   \* failed calls, saturated buffers

SensorAssumption ==
  /\ Leader \in Tids /\ Tids \subseteq Nat \ {0}
  /\ Buffer \in Nat \ {0} /\ Width \in Nat \ {0} /\ Ceiling \in Nat
  /\ {MaxWork, MaxChanges, MaxTicks, MaxFaults} \subseteq Nat

VARIABLES kern,   \* the process behind the pid
          sn,     \* the snapshot being read
          ep,     \* the episode: its two snapshots, pressures and verdict
          io,     \* a stream read into a fixed buffer
          text,   \* a text and what its parser said
          topo,   \* the processors: lists, masks, pair chosen
          faults

vars == <<kern, sn, ep, io, text, topo, faults>>

-------------------------------------------------------------------------------
(* The kernel.  `born` is the starttime of each task, a new one for each task *)
(* (two tasks of one clock tick are not told apart by the code either);       *)
(* `total` is the work of the group, its dead threads included.  `clock` is   *)
(* the time of day that stamps the readings, which may be set back; of each   *)
(* unit of time that passes, `psi` counts whether some task waited for a      *)
(* processor, since the machine started, and `avg` says so of the last one    *)
(* (avg10, in permille).                                                      *)

Zero == [t \in Tids |-> 0]
Pid == [threads |-> {Leader}, born |-> [Zero EXCEPT ![Leader] = 1], run |-> Zero, total |-> 0,
        work |-> 0, changes |-> 0, exits |-> 0, clock |-> 0, ticks |-> 0, steps |-> 0, psi |-> 5, avg |-> 0]
Group == [Pid EXCEPT !.threads = Tids, !.born = [t \in Tids |-> 1]]
Changed == [kern EXCEPT !.changes = @ + 1]

Run(t) ==
  /\ t \in kern.threads /\ kern.work < MaxWork
  /\ kern' = [kern EXCEPT !.run[t] = @ + 1, !.total = @ + 1, !.work = @ + 1]

Spawn(t) ==
  /\ kern.threads # {} /\ t \notin kern.threads /\ t # Leader /\ kern.changes < MaxChanges
  /\ kern' = [Changed EXCEPT !.threads = @ \cup {t}, !.run[t] = 0, !.born[t] = kern.changes + 2]

Exit(t) ==
  /\ t \in kern.threads /\ t # Leader /\ kern.changes < MaxChanges
  /\ kern' = [Changed EXCEPT !.threads = @ \ {t}, !.exits = @ + 1]

Die ==
  /\ kern.threads # {} /\ kern.changes < MaxChanges
  /\ kern' = [Changed EXCEPT !.threads = {}, !.exits = @ + 1]

\* The group dies and another process, which has already run, has the pid.
Replace(work) ==
  /\ kern.changes < MaxChanges
  /\ kern' = [Changed EXCEPT !.threads = {Leader}, !.born = [Zero EXCEPT ![Leader] = kern.changes + 2],
                             !.run = [Zero EXCEPT ![Leader] = work], !.total = work]

Tick(us) ==
  /\ kern.ticks < MaxTicks
  /\ kern' = [kern EXCEPT !.ticks = @ + 1, !.clock = @ + 1, !.psi = @ + us, !.avg = 1000 * us]

SetClock ==
  /\ kern.steps = 0
  /\ kern' = [kern EXCEPT !.clock = @ - 2, !.steps = @ + 1]

Processes == (\E t \in Tids : Run(t) \/ Spawn(t) \/ Exit(t)) \/ Die \/ Replace(2)
Time == Tick(0) \/ Tick(1) \/ SetClock
Kernel == (Processes \/ Time) /\ UNCHANGED <<sn, ep, io, text, topo, faults>>

-------------------------------------------------------------------------------
(* lireCible: stat, schedstat, status, io, then the other threads of the      *)
(* group.  `dir` is the process whose task directory is open, 0 when none is; *)
(* `base` is, for the properties, the work of the task when its stat is read. *)

NoSnap == [at |-> 0, life |-> 0, fils |-> 0, exec |-> 0, sw |-> 0, io |-> 0]
Idle == [pc |-> "idle", tid |-> 0, snap |-> NoSnap, dir |-> 0, pos |-> 0, todo |-> <<>>, row |-> 0,
         err |-> "", base |-> 0]

Target == IF sn.tid = 0 THEN Leader ELSE sn.tid
Present == Target \in kern.threads
Work == IF sn.tid = 0 THEN kern.total ELSE kern.run[Target]
Step(files) == sn' = [files EXCEPT !.err = ""]
Fail(e) == sn' = [sn EXCEPT !.pc = "end", !.err = e, !.dir = 0]

\* Opening the path of a task that is gone fails; any read may fail or leave
\* a byte after the buffer, and then the whole snapshot is refused.
FileFails ==
  /\ sn.pc \in {"stat", "schedstat", "status", "io"}
  /\ \/ ~Present /\ Fail("absent") /\ UNCHANGED faults
     \/ Present /\ faults < MaxFaults /\ faults' = faults + 1 /\ \E e \in {"read", "saturated"} : Fail(e)

ReadStat ==
  /\ sn.pc = "stat" /\ Present
  /\ Step([sn EXCEPT !.pc = "schedstat", !.base = Work, !.snap.life = kern.born[Target],
                     !.snap.fils = Cardinality(kern.threads)])

ReadSched ==
  /\ sn.pc = "schedstat" /\ Present
  /\ Step([sn EXCEPT !.pc = "status", !.snap.exec = kern.run[Target]])

\* The line Threads: of status replaces the number read in stat.
ReadStatus ==
  /\ sn.pc = "status" /\ Present
  /\ Step([sn EXCEPT !.pc = "io", !.snap.sw = kern.run[Target], !.snap.fils = Cardinality(kern.threads)])

ReadIO ==
  /\ sn.pc = "io" /\ Present
  /\ LET s == [sn EXCEPT !.snap.io = Work]
     IN Step([s EXCEPT !.pc = IF s.tid = 0 /\ s.snap.fils > 1 THEN "task" ELSE "end"])

\* agregerFilsSecondairesProcessus: the directory keeps naming the process it
\* was opened on, whoever has the pid afterwards.
OpenTask ==
  /\ sn.pc = "task"
  /\ \/ Present /\ Step([sn EXCEPT !.pc = "dents", !.dir = kern.born[Leader], !.pos = 0]) /\ UNCHANGED faults
     \/ ~Present /\ Fail("absent") /\ UNCHANGED faults
     \/ Present /\ faults < MaxFaults /\ faults' = faults + 1 /\ Fail("read")

Listed == IF sn.dir = kern.born[Leader] THEN {t \in kern.threads : t > sn.pos} ELSE {}
Getdents ==
  /\ sn.pc = "dents"
  /\ \/ /\ Listed # {} /\ UNCHANGED faults
        /\ Step([sn EXCEPT !.pc = "row", !.pos = Max(Listed),
                           !.todo = SetToSortSeq(Listed \ {Leader}, <)])
     \/ Listed = {} /\ Step([sn EXCEPT !.pc = "close"]) /\ UNCHANGED faults
     \/ faults < MaxFaults /\ faults' = faults + 1 /\ Fail("read")

\* One thread: its schedstat, then its status; a thread that left between the
\* list and the read is skipped, one that left between the two reads counts
\* for what was read.
Alive(t) == sn.dir = kern.born[Leader] /\ t \in kern.threads
RowSched ==
  /\ sn.pc = "row"
  /\ \/ sn.todo = <<>> /\ Step([sn EXCEPT !.pc = "dents"]) /\ UNCHANGED faults
     \/ /\ sn.todo # <<>> /\ UNCHANGED faults
        /\ LET t == Head(sn.todo)
           IN IF Alive(t) THEN Step([sn EXCEPT !.pc = "rowStatus", !.row = kern.run[t]])
              ELSE Step([sn EXCEPT !.todo = Tail(@)])
     \/ sn.todo # <<>> /\ faults < MaxFaults /\ faults' = faults + 1 /\ Fail("read")

RowStatus ==
  /\ sn.pc = "rowStatus"
  /\ LET t == Head(sn.todo)
         counted(w) == [sn EXCEPT !.pc = "row", !.todo = Tail(@), !.row = 0,
                                  !.snap.exec = @ + sn.row, !.snap.sw = @ + w]
     IN \/ Step(counted(IF Alive(t) THEN kern.run[t] ELSE 0)) /\ UNCHANGED faults
        \/ faults < MaxFaults /\ faults' = faults + 1 /\ Fail("read")

CloseTask ==
  /\ sn.pc = "close"
  /\ \/ Step([sn EXCEPT !.pc = "end", !.dir = 0]) /\ UNCHANGED faults
     \/ faults < MaxFaults /\ faults' = faults + 1 /\ Fail("close")

Reading ==
  /\ \/ (ReadStat \/ ReadSched \/ ReadStatus \/ ReadIO) /\ UNCHANGED faults
     \/ FileFails \/ OpenTask \/ Getdents \/ RowSched \/ RowStatus \/ CloseTask
  /\ UNCHANGED <<kern, ep, io, text, topo>>

-------------------------------------------------------------------------------
(* An episode: pressure and snapshot, then snapshot and pressure, each        *)
(* stamped just before it is read.  The callers discard the error of          *)
(* LirePressionPSI and keep the stamp and the zeros it left.  `from` is, for  *)
(* the properties, the kernel when the episode began, `gap` the time between  *)
(* the snapshots, and `unread` names the pressures that could not be read.    *)

NoPression == [t |-> 0, us |-> 0, avg |-> 0]
NoEpisode == [pc |-> "idle", tid |-> 0, psi0 |-> NoPression, debut |-> NoSnap, base |-> 0, life |-> 0,
              verdict |-> "none", exec |-> 0, sw |-> 0, io |-> 0, abstains |-> FALSE,
              from |-> [exits |-> 0, ticks |-> 0, steps |-> 0, psi |-> 0], gap |-> 0, unread |-> {}]

\* cpu, then io, then memory: a failure of the first leaves every total at 0,
\* a failure of another leaves the one that is used.
Pressure == [t |-> kern.clock, us |-> kern.psi, avg |-> kern.avg]
Missing == [NoPression EXCEPT !.t = kern.clock]
LirePressionPSI(p) ==
  \/ p = Pressure /\ UNCHANGED faults
  \/ p \in {Pressure, Missing} /\ faults < MaxFaults /\ faults' = faults + 1

Snapshot(tid) == sn' = [Idle EXCEPT !.pc = "stat", !.tid = tid, !.snap.at = kern.clock]

EpisodeBegins ==
  /\ ep.pc = "idle" /\ sn.pc = "idle"
  /\ \E tid \in {0} \cup Tids, p \in {Pressure, Missing} :
       /\ LirePressionPSI(p)
       /\ ep' = [NoEpisode EXCEPT !.pc = "debut", !.tid = tid, !.psi0 = p,
                    !.from = [exits |-> kern.exits, ticks |-> kern.ticks, steps |-> kern.steps, psi |-> kern.psi],
                    !.unread = IF p = Pressure THEN {} ELSE {"first"}]
       /\ Snapshot(tid)

Refused == ep' = [ep EXCEPT !.pc = "end", !.verdict = "error"] /\ sn' = Idle

SecondBegins ==
  /\ ep.pc = "debut" /\ sn.pc = "end"
  /\ \/ sn.err # "" /\ Refused
     \/ sn.err = "" /\ ep' = [ep EXCEPT !.pc = "fin", !.debut = sn.snap, !.base = sn.base,
                                             !.gap = kern.ticks - ep.from.ticks] /\ Snapshot(ep.tid)
  /\ UNCHANGED faults

\* The checks of EvaluerEpisodeCinetique, in its order.
EvaluerAnyTask(d, f) ==   \* mutant: the start of the task is not compared
  IF f.at <= d.at THEN "horloge"
  ELSE IF f.exec < d.exec \/ f.sw < d.sw \/ f.io < d.io THEN "recul" ELSE "ok"

Evaluer(d, f) ==
  IF d.life # f.life THEN "reuse"
  ELSE IF f.at <= d.at THEN "horloge"
  ELSE IF f.exec < d.exec \/ f.sw < d.sw \/ f.io < d.io THEN "recul" ELSE "ok"

\* The share of the interval that tasks waited, or that of the last seconds
\* when the stamps went back.
Pression(p0, p1) ==
  IF p1.t <= p0.t THEN p1.avg
  ELSE IF p1.us < p0.us THEN 0 ELSE Min({1000, ((p1.us - p0.us) * 1000) \div (p1.t - p0.t)})

EpisodeEnds ==
  /\ ep.pc = "fin" /\ sn.pc = "end"
  /\ \/ sn.err # "" /\ Refused /\ UNCHANGED faults
     \/ /\ sn.err = "" /\ sn' = Idle
        /\ \E p \in {Pressure, Missing} :
             /\ LirePressionPSI(p)
             /\ LET v == Evaluer(ep.debut, sn.snap)
                IN ep' = [ep EXCEPT !.pc = "end", !.verdict = v, !.life = sn.snap.life,
                            !.exec = sn.snap.exec - ep.debut.exec, !.sw = sn.snap.sw - ep.debut.sw,
                            !.io = sn.snap.io - ep.debut.io,
                            !.abstains = v = "ok" /\ Ceiling > 0 /\ Pression(ep.psi0, p) > Ceiling,
                            !.unread = IF p = Pressure THEN @ ELSE @ \cup {"last"}]

Episode == (EpisodeBegins \/ SecondBegins \/ EpisodeEnds) /\ UNCHANGED <<kern, io, text, topo>>

-------------------------------------------------------------------------------
(* lireFluxCompletFD: reads of any length, interrupted or not, until the      *)
(* stream ends; a full buffer is followed by a read of one sentinel byte.     *)

NoStream == [pc |-> "idle", size |-> 0, got |-> 0, result |-> "none"]

StreamOpens(n) == io.pc = "idle" /\ io' = [NoStream EXCEPT !.pc = "read", !.size = n]

StreamRead ==
  /\ io.pc = "read" /\ io.got < Buffer
  /\ \/ \E n \in 1 .. Min({Buffer - io.got, io.size - io.got}) : io' = [io EXCEPT !.got = @ + n]
     \/ io.got = io.size /\ io' = [io EXCEPT !.pc = "end", !.result = "whole"]
     \/ io' = [io EXCEPT !.pc = "end", !.result = "error"]
     \/ UNCHANGED io   \* EINTR

Sentinel ==
  /\ io.pc = "read" /\ io.got = Buffer
  /\ io' = [io EXCEPT !.pc = "end", !.result = IF io.size > io.got THEN "saturated" ELSE "whole"]

Stream ==
  /\ (\E n \in 0 .. Buffer + 1 : StreamOpens(n)) \/ StreamRead \/ Sentinel
  /\ UNCHANGED <<kern, sn, ep, text, topo, faults>>

-------------------------------------------------------------------------------
(* The parsers.  A text is a sequence of bytes for stat, whose second field   *)
(* is the name the program gave itself, and for the decimals; for the other   *)
(* files it is a sequence of lines [key, num], num -1 where no number parses, *)
(* and `cut` says that the last line has no end.                              *)

Opening == 40
Closing == 41
Space == 32
Newline == 10
IsDigit(c) == c \in 48 .. 57
MaxUint == 25   \* the largest number of the model's word

NotANumber == -1
parserUintDecimal(s) ==
  LET acc[i \in 0 .. Len(s)] ==
        IF i = 0 THEN 0
        ELSE LET d == s[i] - 48 a == acc[i - 1]
             IN IF a = NotANumber \/ ~IsDigit(s[i]) THEN NotANumber
                ELSE IF a > (MaxUint - d) \div 10 THEN NotANumber ELSE a * 10 + d
  IN IF s = <<>> THEN NotANumber ELSE acc[Len(s)]

Where(s, c) == {i \in 1 .. Len(s) : s[i] = c}

\* The tokens of a rest, by their first and last byte.
Tokens(s) ==
  LET starts == {i \in 1 .. Len(s) : s[i] # Space /\ (i = 1 \/ s[i - 1] = Space)}
      ends(i) == Min({j \in i .. Len(s) : j = Len(s) \/ s[j + 1] = Space})
      row == SetToSortSeq(starts, <)
  IN [k \in 1 .. Len(row) |-> SubSeq(s, row[k], ends(row[k]))]

\* The fields the sensor keeps stand at the positions of Kept.
Kept == {2, 3}
Unread == [pid |-> NotANumber, kept |-> <<>>]
AnalyserStatProc(s) ==
  LET open == Where(s, Opening)
      close == Where(s, Closing)
      rest == SubSeq(s, Max(close) + 2, Len(s) - 1)
      pid == parserUintDecimal(SubSeq(s, 1, Min(open) - 2))
      row == Tokens(rest)
      kept == [i \in 1 .. Cardinality(Kept) |-> parserUintDecimal(row[SetToSortSeq(Kept, <)[i]])]
  IN IF s = <<>> \/ s[Len(s)] # Newline \/ open = {} \/ close = {} THEN Unread
     ELSE IF Min(open) <= 1 \/ Max(close) <= Min(open) \/ Max(close) + 2 >= Len(s) THEN Unread
     ELSE IF pid = NotANumber \/ s[Min(open) - 1] # Space \/ s[Max(close) + 1] # Space THEN Unread
     ELSE IF Len(row) < Max(Kept) THEN Unread
     ELSE IF \E i \in DOMAIN kept : kept[i] = NotANumber THEN Unread
     ELSE [pid |-> pid, kept |-> kept]

\* Every known line must hold a number, the last of a key counts, and the
\* keys of Needed must all have been met.
Known == [schedstat |-> {"run", "wait", "slices"},
          status |-> {"hwm", "rss", "threads", "vol", "nonvol"},
          io |-> {"rchar", "wchar", "syscr", "syscw", "read", "write", "cancelled"},
          psi |-> {"some", "full"}]
Needed == [schedstat |-> Known.schedstat, status |-> {"vol", "nonvol"},
           io |-> Known.io \ {"cancelled"}, psi |-> {"some"}]
AnalyserLignes(file, t) ==
  LET of(k) == {i \in DOMAIN t.lines : t.lines[i].key = k}
      met == {k \in Known[file] : of(k) # {}}
  IN IF t.cut \/ t.lines = <<>> \/ \E k \in met : \E i \in of(k) : t.lines[i].num = NotANumber
        \/ ~(Needed[file] \subseteq met)
     THEN [ok |-> FALSE, values |-> <<>>]
     ELSE [ok |-> TRUE, values |-> [k \in met |-> t.lines[Max(of(k))].num]]

NoText == [of |-> "none"]
ParseText(t) ==
  /\ text = NoText
  /\ text' = t @@ (IF t.of = "stat" THEN [stat |-> AnalyserStatProc(t.bytes)]
                   ELSE [lines |-> AnalyserLignes(t.of, t.text)])
  /\ UNCHANGED <<kern, sn, ep, io, topo, faults>>

-------------------------------------------------------------------------------
(* The processors: the cpus files of the two domains, the masks, and the pair *)
(* a bench pins its thread on.                                                *)

NoTopo == [of |-> "none"]

\* A list is a sequence of segments <<first, last>>; a segment out of order or
\* past the width refuses the list, and an unreadable file is an empty list.
AnalyserListeCPUs(list) ==
  IF list = <<>> \/ \E i \in DOMAIN list : list[i][1] < 0 \/ list[i][2] < list[i][1] \/ list[i][2] >= Width
  THEN <<>>
  ELSE FlattenSeq([i \in DOMAIN list |-> [k \in 1 .. list[i][2] - list[i][1] + 1 |-> list[i][1] + k - 1]])

ConstruireTopologieHybride(core, atom) ==
  [perf |-> Range(core) \cap 0 .. Width - 1, eff |-> Range(atom) \cap 0 .. Width - 1,
   hybride |-> core # <<>> /\ atom # <<>>]

ClasseDuCoeur(t, c) == IF c \in t.eff THEN "atom" ELSE IF c \in t.perf THEN "core" ELSE "inconnue"

\* The first candidate of the mask that is not processor 0, else the first.
premierCoeurDansMasque(list, mask, except) ==
  LET ok(i, low) == list[i] >= low /\ list[i] # except /\ list[i] \in mask
      first(low) == {i \in DOMAIN list : ok(i, low)}
  IN IF first(1) # {} THEN list[Min(first(1))] ELSE IF first(0) # {} THEN list[Min(first(0))] ELSE -1

choisirPaireCoeurs(core, atom, mask) ==
  LET c == premierCoeurDansMasque(core, mask, -1)
      a == premierCoeurDansMasque(atom, mask, c)
      row == SetToSortSeq(mask, <)
  IN IF c >= 0 /\ a >= 0 THEN <<c, a>>
     ELSE IF row = <<>> THEN <<>> ELSE IF Len(row) = 1 THEN <<row[1], row[1]>> ELSE <<row[1], row[2]>>

ChargerTopologie(l1, l2, mask) ==
  /\ topo = NoTopo
  /\ LET core == AnalyserListeCPUs(l1) atom == AnalyserListeCPUs(l2)
     IN topo' = [of |-> "host", core |-> core, atom |-> atom, mask |-> mask,
                 masks |-> ConstruireTopologieHybride(core, atom),
                 pair |-> choisirPaireCoeurs(core, atom, mask)]
  /\ UNCHANGED <<kern, sn, ep, io, text, faults>>

-------------------------------------------------------------------------------
Init ==
  /\ kern \in {Pid, Group} /\ sn = Idle /\ ep = NoEpisode
  /\ io = NoStream /\ text = NoText /\ topo = NoTopo /\ faults = 0

Sensor == Kernel \/ Reading \/ Episode
Parsing == \E t \in Texts : ParseText(t)
Topology == \E l1, l2 \in CpuLists, m \in Allowed : ChargerTopologie(l1, l2, m)
Next == Sensor \/ Stream \/ Parsing \/ Topology

Spec == Init /\ [][Next]_vars

-------------------------------------------------------------------------------
(* What makes the sensor correct.                                             *)

Watched == IF ep.tid = 0 THEN Leader ELSE ep.tid
Held == kern.born[Watched] = ep.life

\* Unless its task was replaced after the second stat was read, an episode
\* the engine accepts measures the task whose stat was read first: the threads
\* are read one after another while they run, start and leave, and still no
\* delta is larger than the work of that task since.  It is refused as
\* another task only when it is one, for its clock only when that was set back
\* or did not move, and for a counter that went back only when a thread left.
EpisodeMeasures ==
  ep.pc = "end" /\ Held =>
    LET done == (IF ep.tid = 0 THEN kern.total ELSE kern.run[Watched]) - ep.base
    IN /\ ep.verdict = "ok" => /\ ep.debut.life = kern.born[Watched]
                               /\ ep.exec \in 0 .. done /\ ep.sw \in 0 .. done /\ ep.io \in 0 .. done
       /\ ep.verdict = "reuse" => ep.debut.life # kern.born[Watched]
       /\ ep.verdict = "horloge" => kern.steps > ep.from.steps \/ ep.gap = 0
       /\ ep.verdict = "recul" => ep.tid = 0 /\ kern.exits > ep.from.exits

\* While the clock is not set back, the engine abstains for a pressure that
\* was not there only when the first pressure could not be read, and misses
\* one only when the last could not.
AbstentionGrounded ==
  ep.verdict = "ok" /\ kern.steps = ep.from.steps =>
    LET waited == (kern.psi - ep.from.psi) * 1000
        lasted == kern.ticks - ep.from.ticks
    IN /\ ep.abstains /\ "first" \notin ep.unread => waited > Ceiling * lasted
       /\ waited >= (Ceiling + 1) * lasted /\ Ceiling > 0 /\ "last" \notin ep.unread => ep.abstains

\* A stream that fits the buffer exactly is whole, and one byte more is never
\* taken for a whole file.
StreamWhole ==
  /\ io.result = "whole" => io.got = io.size
  /\ io.result = "saturated" => io.size > Buffer

\* A stat line gives the fields that follow the name, whatever parentheses,
\* spaces and digits the name is made of, and no strict prefix of it is read;
\* a file is read when, and only when, it is complete.
ParseExact ==
  /\ text.of = "stat" =>
       text.stat = IF text.whole THEN [pid |-> text.pid, kept |-> text.kept] ELSE Unread
  /\ text.of \notin {"stat", "none"} => text.lines.ok = text.whole

\* The pair is inside the mask, of two processors when the mask has two, and
\* of the two domains when each has a processor of its own in the mask.
PairSound ==
  topo.of = "host" =>
    LET p == topo.pair m == topo.mask core == Range(topo.core) atom == Range(topo.atom)
    IN /\ p = <<>> <=> m = {}
       /\ p # <<>> => /\ {p[1], p[2]} \subseteq m
                      /\ p[1] = p[2] => Cardinality(m) = 1
                      /\ core \cap m # {} /\ atom \cap m # {} /\ core \cap atom = {} =>
                           /\ ClasseDuCoeur(topo.masks, p[1]) = "core"
                           /\ ClasseDuCoeur(topo.masks, p[2]) = "atom"

SensorSound == EpisodeMeasures /\ AbstentionGrounded /\ StreamWhole /\ ParseExact /\ PairSound
===============================================================================
