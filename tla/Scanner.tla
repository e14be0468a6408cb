------------------------------ MODULE Scanner ------------------------------
(***************************************************************************)
(* runScan of cmd/c2scanner: a walk that hands paths to workers, each of   *)
(* them a producer that slides a window over a stream buffer and a         *)
(* consumer that searches the codebook, joined by a bounded channel and a  *)
(* "done" flag.  A file is its length, the places of its line ends, of the *)
(* signatures in it, of its comments and of its binary zeros, which stand  *)
(* for the six characters of filling; read(2) returns any part of what is  *)
(* left.                                                                   *)
(***************************************************************************)
EXTENDS Integers, Sequences, FiniteSets

CONSTANTS
  Files,        \* in the order of the walk: [stat, size, lines, hits, comments, zeros, fault]
  Workers,
  Window,       \* windowBytes
  Stride,       \* the flag -stride
  Buffer,       \* streamBufferSize
  Capacity,     \* of the channel between producer and consumer
  MaxBytes,     \* maxFileBytes
  Normalize,    \* the flag -normalize: comments are removed
  MinEntropy    \* the flag -min-entropy is positive

ScannerAssumption ==
  /\ {Window, Capacity, MaxBytes} \subseteq Nat \ {0} /\ Stride \in Int /\ Buffer \in Nat /\ Buffer >= Window
  /\ {Normalize, MinEntropy} \subseteq BOOLEAN

VARIABLES
  main,      \* runScan: its place and the paths that it still walks
  paths,     \* the channel of paths
  prod,      \* per worker: scanFile
  cons,      \* per worker: the place of consume
  ch,        \* per worker: its channel of windows
  done,      \* per worker: the flag
  inspected, \* history: the windows that inspect saw, a sequence
  alerts,    \* the alerts in the sink
  failed     \* the files of which a worker recorded an error

vars == <<main, paths, prod, cons, ch, done, inspected, alerts, failed>>

stride == IF Stride <= 0 \/ Stride > Window THEN Window ELSE Stride
Fresh == [pc |-> "next", file |-> 0, base |-> 0, valid |-> 0, total |-> 0, eof |-> FALSE,
          cursor |-> 0, line |-> 1, counted |-> 0]

Init ==
  /\ main = [pc |-> "walk", next |-> 1, err |-> FALSE, written |-> FALSE]
  /\ paths = <<>> /\ prod = [w \in Workers |-> Fresh] /\ cons = [w \in Workers |-> "read"]
  /\ ch = [w \in Workers |-> <<>>] /\ done = [w \in Workers |-> FALSE]
  /\ inspected = <<>> /\ alerts = {} /\ failed = {}

-----------------------------------------------------------------------------
(* runScan: the walk, both waits, and the alerts in order.  A walk that    *)
(* fails still closes the channel and waits, and the alerts are written    *)
(* although a worker failed.                                               *)

Walk ==
  /\ main.pc = "walk" /\ main.next <= Len(Files)
  /\ paths' = Append(paths, main.next) /\ main' = [main EXCEPT !.next = @ + 1]
  /\ UNCHANGED <<prod, cons, ch, done, inspected, alerts, failed>>

WalkEnds ==
  /\ main.pc = "walk"
  /\ main' = [main EXCEPT !.pc = "wait", !.err = main.next <= Len(Files)]
  /\ UNCHANGED <<paths, prod, cons, ch, done, inspected, alerts, failed>>

Report ==
  /\ main.pc = "wait" /\ \A w \in Workers : prod[w].pc = "end" /\ cons[w] = "end"
  /\ \E flushed \in BOOLEAN :
       main' = [main EXCEPT !.pc = "done", !.err = @ \/ failed # {} \/ ~flushed, !.written = flushed]
  /\ UNCHANGED <<paths, prod, cons, ch, done, inspected, alerts, failed>>

-----------------------------------------------------------------------------
(* The producer.                                                           *)

Step(w, p) == prod' = [prod EXCEPT ![w] = p]
RecordError(w) == failed \cup {prod[w].file}

produce(w) ==
  /\ prod[w].pc = "next"
  /\ \/ paths # <<>> /\ Step(w, [Fresh EXCEPT !.pc = "open", !.file = Head(paths)]) /\ paths' = Tail(paths)
        /\ UNCHANGED done
     \/ paths = <<>> /\ main.pc # "walk" /\ Step(w, [Fresh EXCEPT !.pc = "end"])
        /\ done' = [done EXCEPT ![w] = TRUE] /\ UNCHANGED paths
  /\ UNCHANGED <<main, cons, ch, inspected, alerts, failed>>

OpenFile(w) ==
  /\ prod[w].pc = "open"
  /\ \E f \in {Files[prod[w].file]} :
       IF f.fault = "open" \/ f.stat > MaxBytes THEN failed' = RecordError(w) /\ Step(w, Fresh)
       ELSE Step(w, [prod[w] EXCEPT !.pc = "fill"]) /\ UNCHANGED failed
  /\ UNCHANGED <<main, paths, cons, ch, done, inspected, alerts>>

(* One Read into the buffer.  A file that grew past the limit while it was *)
(* read is an error; so is a failing read.                                 *)
Fill(w) ==
  /\ prod[w].pc = "fill"
  /\ \E f \in {Files[prod[w].file]}, p \in {prod[w]} :
     \/ (p.eof \/ p.valid = Buffer)
        /\ Step(w, IF p.valid = 0 THEN Fresh ELSE [p EXCEPT !.pc = "scan", !.cursor = 0]) /\ UNCHANGED failed
     \/ ~p.eof /\ p.valid < Buffer /\ f.fault = "read" /\ p.total > 0 /\ failed' = RecordError(w) /\ Step(w, Fresh)
     \/ ~p.eof /\ p.valid < Buffer /\ p.total >= MaxBytes
        /\ IF f.size > p.total THEN failed' = RecordError(w) /\ Step(w, Fresh) ELSE Step(w, [p EXCEPT !.eof = TRUE]) /\ UNCHANGED failed
     \/ ~p.eof /\ p.valid < Buffer /\ p.total < MaxBytes /\ f.size = p.total
        /\ Step(w, [p EXCEPT !.eof = TRUE]) /\ UNCHANGED failed
     \/ /\ ~p.eof /\ p.valid < Buffer /\ p.total < MaxBytes
        /\ \E n \in 1 .. Buffer :
             /\ n <= Buffer - p.valid /\ n <= MaxBytes - p.total /\ n <= f.size - p.total
             /\ Step(w, [p EXCEPT !.valid = @ + n, !.total = @ + n])
        /\ UNCHANGED failed
  /\ UNCHANGED <<main, paths, cons, ch, done, inspected, alerts>>

(* The line ends between the last place counted and the cursor.            *)
Lines(p) ==
  p.line + Cardinality({n \in Files[p.file].lines : n >= p.base + p.counted /\ n < p.base + p.cursor})
Piece(p, length) == [file |-> p.file, start |-> p.base + p.cursor, length |-> length, line |-> Lines(p)]
Send(w, window) == Len(ch[w]) < Capacity /\ ch' = [ch EXCEPT ![w] = Append(@, window)]

(* write spins until the channel has room.                                 *)
WholeWindow(w) ==
  /\ prod[w].pc = "scan"
  /\ \E p \in {prod[w]} :
       /\ p.cursor + Window <= p.valid /\ Send(w, Piece(p, Window))
       /\ Step(w, IF p.cursor + Window = p.valid /\ p.eof THEN Fresh
                  ELSE [p EXCEPT !.line = Lines(p), !.counted = p.cursor, !.cursor = @ + stride])
  /\ UNCHANGED <<main, paths, cons, done, inspected, alerts, failed>>

(* The rest of the buffer moves to its front and is completed.             *)
Slide(w) ==
  /\ prod[w].pc = "scan"
  /\ \E p \in {prod[w]} :
       /\ p.cursor + Window > p.valid /\ ~p.eof
       /\ Step(w, [p EXCEPT !.pc = "fill", !.line = Lines(p), !.counted = 0, !.base = @ + p.cursor,
                            !.valid = @ - p.cursor, !.cursor = 0])
  /\ UNCHANGED <<main, paths, cons, ch, done, inspected, alerts, failed>>

(* The code tests that something is left; it always is, for a stride is no *)
(* longer than a window and a last whole window ended the file.            *)
LastWindow(w) ==
  /\ prod[w].pc = "scan"
  /\ \E p \in {prod[w]} :
       /\ p.cursor + Window > p.valid /\ p.eof
       /\ p.cursor < p.valid /\ Send(w, Piece(p, p.valid - p.cursor))
  /\ Step(w, Fresh)
  /\ UNCHANGED <<main, paths, cons, done, inspected, alerts, failed>>

-----------------------------------------------------------------------------
(* The consumer: an empty channel ends it only if it is still empty after  *)
(* "done" was read.                                                        *)

Within(v, places) == {h \in places : h >= v.start /\ h < v.start + v.length}
Hits(v) == Within(v, Files[v.file].hits \ (IF Normalize THEN Files[v.file].comments ELSE {}))

(* What a window of filling is: more than three quarters of it are one     *)
(* character, the zeros after a short window or a removed comment counted. *)
Dull(v) ==
  LET gone == IF Normalize THEN Within(v, Files[v.file].comments) ELSE {}
      padding == Window - v.length + Cardinality(gone)
  IN  MinEntropy /\ 4 * (padding + Cardinality(Within(v, Files[v.file].zeros) \ gone)) > 3 * Window

(* The extraction refuses only a long payload, which a window never has.   *)
Inspect(w) ==
  /\ inspected' = Append(inspected, Head(ch[w])) /\ ch' = [ch EXCEPT ![w] = Tail(@)]
  /\ alerts' = IF Dull(Head(ch[w])) \/ Hits(Head(ch[w])) = {} THEN alerts ELSE alerts \cup {Head(ch[w])}
  /\ cons' = [cons EXCEPT ![w] = "read"]

consume(w) ==
  /\ cons[w] \in {"read", "again"}
  /\ \/ ch[w] # <<>> /\ Inspect(w)
     \/ ch[w] = <<>> /\ cons' = [cons EXCEPT ![w] = IF @ = "read" THEN "flag" ELSE "end"]
        /\ UNCHANGED <<inspected, ch, alerts>>
  /\ UNCHANGED <<main, paths, prod, done, failed>>

(* Mutant of ReadDone: the channel is not looked at again.                 *)
ReadDoneOnce(w) ==
  /\ cons[w] = "flag" /\ cons' = [cons EXCEPT ![w] = IF done[w] THEN "end" ELSE "read"]
  /\ UNCHANGED <<main, paths, prod, ch, done, inspected, alerts, failed>>

ReadDone(w) ==
  /\ cons[w] = "flag" /\ cons' = [cons EXCEPT ![w] = IF done[w] THEN "again" ELSE "read"]
  /\ UNCHANGED <<main, paths, prod, ch, done, inspected, alerts, failed>>

-----------------------------------------------------------------------------
Produce(w) == produce(w) \/ OpenFile(w) \/ Fill(w) \/ WholeWindow(w) \/ Slide(w) \/ LastWindow(w)
Consume(w) == consume(w) \/ ReadDone(w)
Next == Walk \/ WalkEnds \/ Report \/ \E w \in Workers : Produce(w) \/ Consume(w)

Fairness ==
  /\ WF_vars(Walk \/ WalkEnds) /\ WF_vars(Report)
  /\ \A w \in Workers : WF_vars(Produce(w)) /\ WF_vars(Consume(w))
Spec == Init /\ [][Next]_vars /\ Fairness

-----------------------------------------------------------------------------
Walked == 1 .. main.next - 1

(* A scan that returns inspected every byte of every file that it walked   *)
(* and recorded no error of, whatever the reads returned and whoever ended *)
(* first; each window once, with the line on which it begins, and each     *)
(* signature is in an alert unless it is in a comment that was to be       *)
(* removed or in windows of filling alone.  Without an error every file    *)
(* was walked and read, and every alert written.                           *)
Sees(i, k, b) == inspected[i].file = k /\ inspected[i].start <= b /\ b < inspected[i].start + inspected[i].length
Pruned(k, b) == (Normalize /\ b \in Files[k].comments) \/ \A i \in DOMAIN inspected : Sees(i, k, b) => Dull(inspected[i])
ScanComplete ==
  main.pc = "done" =>
    /\ main.err \/ (Walked = DOMAIN Files /\ failed = {} /\ main.written)
    /\ \A k \in Walked \ failed, b \in 0 .. MaxBytes :
         b < Files[k].size =>
           /\ \E i \in DOMAIN inspected : Sees(i, k, b)
           /\ b \in Files[k].hits => Pruned(k, b) \/ \E a \in alerts : a.file = k /\ b \in Hits(a)
    /\ \A i, j \in DOMAIN inspected : inspected[i] = inspected[j] => i = j
    /\ \A i \in DOMAIN inspected :
         inspected[i].line = 1 + Cardinality({n \in Files[inspected[i].file].lines : n < inspected[i].start})

(* The scan ends: neither side of a channel waits for the other for ever.  *)
Ended == main.pc = "done"
ScanEnds == <>Ended
=============================================================================
