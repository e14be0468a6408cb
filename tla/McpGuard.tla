------------------------------ MODULE McpGuard ------------------------------
(***************************************************************************)
(* The guard between an MCP client and its server (c2blue-mcp-guard): the  *)
(* filter that judges a line, the grammar of the tools it knows, and the   *)
(* relay of two goroutines around a child process.  A line is the sequence *)
(* of its JSON tokens with the tree that encoding/json reads in them: the  *)
(* guard's own scanner works on the tokens, its validation on the tree.    *)
(***************************************************************************)
EXTENDS Integers, Sequences, FiniteSets, FiniteSetsExt, SequencesExt

CONSTANTS
  Sessions,     \* what a client sends: sequences of lines [toks, tree, long]
  MaxDepth,     \* of uniqueJSON (128)
  Catalog,      \* calls of RegisterToolGrammar: [name, sample, mask, threshold]
  NameBytes,    \* the bytes of a tool's name, of the strings that may name one
  NameSize,     \* bytes of Tool_name (32)
  MaxTools,     \* C2BT_MAX_MCP_TOOLS (32)
  Alphabet,     \* the bytes of a payload, in order; a token stands for one
  Scale,        \* 256: the sum of a distribution
  Log2,         \* log2SymQ8: c |-> c_log2_c_table[c] / c
  Pipe,         \* lines that the child's standard input holds
  MaxSignals    \* bound: signals to the guard

VARIABLES g
vars == <<g>>

Tok(t, v) == [t |-> t, v |-> v]
NoTree == [kind |-> "none", v |-> "", members |-> <<>>]

-----------------------------------------------------------------------------
(* The grammar of tools: a distribution of bytes for each, and the distance *)
(* of a payload to it.                                                      *)

GrammarAssumption ==
  /\ \A c \in DOMAIN Catalog : Catalog[c].name \in DOMAIN NameBytes
  /\ DOMAIN Log2 = 0 .. 2 * Scale

\* histNormalize256 in three steps, each a function of the one before: the counts, the proportions
\* rounded down, and the rest, given to the most frequent byte and then to the first ones.
Frequencies(payload) == [i \in DOMAIN Alphabet |-> Cardinality({k \in DOMAIN payload : payload[k] = Alphabet[i]})]
Proportions(freq, n) == [i \in DOMAIN Alphabet |-> Min({(freq[i] * Scale) \div n, Scale - 1})]
MostFrequent(freq) == CHOOSE i \in DOMAIN freq : \A j \in DOMAIN freq : freq[j] < freq[i] \/ (freq[j] = freq[i] /\ i <= j)
Rest(raw) == Scale - FoldFunction(+, 0, raw)
Spread(full) ==
  [i \in DOMAIN full |-> IF full[i] < Scale - 1 /\ Cardinality({j \in 1 .. i : full[j] < Scale - 1}) <= Rest(full)
                         THEN full[i] + 1 ELSE full[i]]
Topped(raw, top) == [raw EXCEPT ![top] = Min({@ + Rest(raw), Scale - 1})]
histNormalize256(payload) ==
  CHOOSE d \in UNION {{Spread(full) : full \in {Topped(raw, MostFrequent(freq)) : raw \in {Proportions(freq, Len(payload))}}} :
                        freq \in {Frequencies(payload)}} : TRUE

klPmQ8(p, q) ==
  LET acc == MapThenSumSet(LAMBDA i : p[i] * (Log2[p[i]] - Log2[p[i] + q[i]] + 256), DOMAIN Alphabet)
  IN Max({acc, 0}) \div Scale
C2bt_calc_djs_q8(p, q) == (klPmQ8(p, q) + klPmQ8(q, p)) \div 2

\* The table keeps a name in NameSize bytes, padded with zeros; a match needs a zero after it.
Padded(name) == [j \in 1 .. NameSize |-> IF j <= Len(NameBytes[name]) THEN NameBytes[name][j] ELSE 0]
grammarFindTool(table, name) ==
  LET b == NameBytes[name]
      at == {i \in DOMAIN table : Len(b) < NameSize /\ SubSeq(Padded(table[i].name), 1, Len(b)) = b
                                  /\ Padded(table[i].name)[Len(b) + 1] = 0}
  IN IF b = <<>> \/ at = {} THEN 0 ELSE Min(at)

C2bt_grammar_register_tool(table, c) ==
  LET at == grammarFindTool(table, c.name) b == NameBytes[c.name]
      slot == [name |-> c.name, dist |-> histNormalize256(c.sample), mask |-> c.mask, threshold |-> c.threshold]
  IN IF b = <<>> \/ Len(b) >= NameSize \/ (\E j \in DOMAIN b : b[j] = 0) \/ c.sample = <<>> THEN table
     ELSE IF at # 0 THEN [table EXCEPT ![at] = slot]
     ELSE IF Len(table) >= MaxTools THEN table ELSE Append(table, slot)

\* loadDefaultCatalog and the programs that embed the engine register before they judge.
loadDefaultCatalog == FoldLeft(C2bt_grammar_register_tool, <<>>, Catalog)

C2bt_grammar_eval(table, name, args) ==
  LET at == grammarFindTool(table, name)
  IN CASE at = 0 -> "unknown"
       [] args = <<>> -> "nominal"
       [] at # 0 /\ args # <<>> /\ (\E k \in DOMAIN args : args[k] \notin table[at].mask) -> "veto"
       [] OTHER -> IF \E p \in {histNormalize256(args)} : C2bt_calc_djs_q8(p, table[at].dist) > table[at].threshold
                   THEN "veto" ELSE "nominal"

\* The bytes of the arguments, which json.Marshal writes again; only their number matters.
Payload(toks) == [k \in DOMAIN toks |-> toks[k].v]

EvalToolCall(name, args) == C2bt_grammar_eval(g.table, name, args)

-----------------------------------------------------------------------------
(* The validation, on the tree.                                             *)

Keys(node) == {node.members[i].k : i \in DOMAIN node.members}
Get(node, key) == node.members[CHOOSE i \in DOMAIN node.members : node.members[i].k = key].v

RECURSIVE uniqueJSON(_, _)
uniqueJSON(node, depth) ==
  /\ depth <= MaxDepth
  /\ node.kind = "obj" => Cardinality(Keys(node)) = Len(node.members)
  /\ \A i \in DOMAIN node.members : uniqueJSON(node.members[i].v, depth + 1)

validEnvelope(node) ==
  /\ node.kind = "obj"
  /\ "jsonrpc" \in Keys(node) /\ Get(node, "jsonrpc").kind = "str" /\ Get(node, "jsonrpc").v = "2.0"
  /\ Keys(node) \subseteq {"jsonrpc", "id", "method", "params", "result", "error"}
  /\ "method" \in Keys(node) => Get(node, "method").kind = "str" /\ Get(node, "method").v # ""
  /\ "method" \in Keys(node) /\ Get(node, "method").v = "tools/call" =>
       /\ "params" \in Keys(node) /\ Get(node, "params").kind = "obj"
       /\ Keys(Get(node, "params")) \subseteq {"name", "arguments", "_meta"}

-----------------------------------------------------------------------------
(* The scanner, on the tokens: 0 is a failure, otherwise the next position.  *)

Is(b, i, t) == i <= Len(b) /\ b[i].t = t

parseString(b, i) == IF Is(b, i, "str") THEN i + 1 ELSE 0

skipContainer(b, i) ==
  LET opens(k) == Cardinality({j \in i .. k : b[j].t \in {"{", "["}})
      closes(k) == Cardinality({j \in i .. k : b[j].t \in {"}", "]"}})
      ends == {k \in i .. Len(b) : opens(k) <= closes(k)}
  IN IF ends = {} THEN 0 ELSE IF opens(Min(ends)) = closes(Min(ends)) THEN Min(ends) + 1 ELSE 0

skipNumber(b, i) == IF Is(b, i, "num") THEN i + 1 ELSE 0

skipValue(b, i) ==
  CASE i > Len(b) -> 0
    [] Is(b, i, "str") -> parseString(b, i)
    [] Is(b, i, "{") \/ Is(b, i, "[") -> skipContainer(b, i)
    [] Is(b, i, "lit") -> i + 1
    [] OTHER -> skipNumber(b, i)

\* next = 0: the line is refused.
NoCall == [next |-> 0, method |-> "", id |-> <<>>, name |-> "", args |-> <<>>, hasID |-> FALSE]

\* The value of a member, at i: parseParams for "params", a string for the names, any value otherwise.
RECURSIVE Members(_, _, _, _)
Value(b, i, key, deep, acc) ==
  LET next == skipValue(b, i) IN
  CASE ~deep /\ key = "params" -> IF Is(b, i, "{") THEN Members(b, i + 1, TRUE, acc) ELSE NoCall
    [] deep /\ key = "name" -> IF Is(b, i, "str") THEN [acc EXCEPT !.next = i + 1, !.name = b[i].v] ELSE NoCall
    [] ~deep /\ key = "method" -> IF Is(b, i, "str") THEN [acc EXCEPT !.next = i + 1, !.method = b[i].v] ELSE NoCall
    [] deep /\ key = "arguments" /\ next # 0 -> [acc EXCEPT !.next = next, !.args = SubSeq(b, i, next - 1)]
    [] ~deep /\ key = "id" /\ next # 0 -> [acc EXCEPT !.next = next, !.id = SubSeq(b, i, next - 1), !.hasID = TRUE]
    [] OTHER -> [acc EXCEPT !.next = next]

\* The members of an object from i on; the object of the params is read in the same way.
Members(b, i, deep, acc) ==
  CASE Is(b, i, "}") -> [acc EXCEPT !.next = i + 1]
    [] parseString(b, i) # 0 /\ Is(b, i + 1, ":") ->
         CHOOSE r \in {CASE got.next = 0 -> NoCall
                         [] got.next # 0 /\ Is(b, got.next, ",") -> Members(b, got.next + 1, deep, got)
                         [] got.next # 0 /\ Is(b, got.next, "}") -> [got EXCEPT !.next = @ + 1]
                         [] OTHER -> NoCall : got \in {Value(b, i + 2, b[i].v, deep, acc)}} : TRUE
    [] OTHER -> NoCall

validCall(c) ==
  /\ c.hasID => c.id # <<>> /\ (c.id[1].t \in {"str", "num"} \/ c.id = <<Tok("lit", "null")>>)
  /\ c.method = "tools/call" => c.name # "" /\ c.args # <<>> /\ c.args[1].t = "{"

\* parseMCPCall: what encoding/json accepts, without a repeated key, in the envelope, then the scan.
parseMCPCall(line) ==
  IF line.tree # NoTree /\ uniqueJSON(line.tree, 0) /\ validEnvelope(line.tree) /\ Is(line.toks, 1, "{")
  THEN CHOOSE r \in {IF validCall(call) THEN call ELSE NoCall : call \in {Members(line.toks, 2, FALSE, NoCall)}} : TRUE
  ELSE NoCall

Reply(id, code) == [id |-> id, code |-> code]
NoReply == Reply(<<>>, 0)
NullID == <<Tok("lit", "null")>>

\* What FilterLine makes of a parsed call c; a notification that is refused is dropped without an answer.
Verdict(c, eval) ==
  CASE c.next = 0 -> [forward |-> FALSE, reply |-> Reply(NullID, -32600)]
    [] c.next # 0 /\ eval = "nominal" -> [forward |-> TRUE, reply |-> NoReply]
    [] OTHER -> [forward |-> FALSE,
                 reply |-> IF c.hasID THEN Reply(c.id, IF eval = "unknown" THEN -32601 ELSE -32003) ELSE NoReply]

\* Only tools/call is judged by the grammar.
FilterLine(line) ==
  CHOOSE f \in UNION {{Verdict(c, eval) : eval \in {IF c.method = "tools/call" THEN EvalToolCall(c.name, args) ELSE "nominal" :
                                                    args \in {Payload(c.args)}}} : c \in {parseMCPCall(line)}} : TRUE

-----------------------------------------------------------------------------
(* The relay.  to and from are the pipes of the child, out what the client *)
(* is written, in halves, as a write may be cut; inp and cpy are the       *)
(* goroutines relayRequests and copyLocked, mu the holder of outMu, rel    *)
(* RunRelay, main the program around it.                                   *)

Init ==
  \E t \in {loadDefaultCatalog} :
  g \in {[table |-> t, lines |-> s, ends |-> e, deaf |-> d, closed |-> {}, signals |-> 0,
          inp |-> [pc |-> "scan", line |-> <<>>, reply |-> NoReply, err |-> FALSE],
          cpy |-> [pc |-> "read", line |-> 0, err |-> FALSE], mu |-> "free", out |-> <<>>,
          to |-> <<>>, from |-> <<>>, child |-> "up", reads |-> TRUE, writes |-> TRUE, wrote |-> 0,
          rel |-> "select", err |-> FALSE, main |-> "relay", code |-> -1,
          sent |-> 0, passed |-> <<>>, answers |-> <<>>] : s \in Sessions, e \in BOOLEAN, d \in BOOLEAN}

Half(who, n, k) == [who |-> who, n |-> n, k |-> k]
InDone(err) == [g EXCEPT !.inp.pc = "done", !.inp.err = err]
CpyDone(err) == [g EXCEPT !.cpy.pc = "done", !.cpy.err = err]
Alive == g.main # "exited"

\* relayRequests reads a line and judges it; a line over maxScanLine ends the scan with an error.
Scan ==
  /\ Alive /\ g.inp.pc = "scan" /\ "in" \notin g.closed /\ g.lines # <<>>
  /\ \E line \in {Head(g.lines)} : \E f \in {FilterLine(line)} :
       g' = IF line.long THEN InDone(TRUE)
            ELSE [g EXCEPT !.lines = Tail(@), !.sent = @ + 1, !.inp.line = <<line>>, !.inp.reply = f.reply,
                           !.inp.pc = IF f.forward THEN "forward" ELSE IF f.reply # NoReply THEN "lock" ELSE "scan"]
\* The end of the client's stream; a blocked read of a closed standard input may or may not wake.
ScanEnds ==
  /\ Alive /\ g.inp.pc = "scan"
  /\ \/ "in" \notin g.closed /\ g.lines = <<>> /\ g.ends /\ g' = InDone(FALSE)
     \/ "in" \in g.closed /\ g' = InDone(TRUE)

\* writeMessage to the child: one write, refused when the pipe is closed or its reader gone.
Forward ==
  /\ Alive /\ g.inp.pc = "forward"
  /\ \/ ("to" \in g.closed \/ g.child # "up") /\ g' = InDone(TRUE)
     \/ /\ "to" \notin g.closed /\ g.child = "up" /\ Len(g.to) < Pipe
        /\ g' = [g EXCEPT !.to = @ \o g.inp.line, !.passed = @ \o g.inp.line, !.inp.pc = "scan"]

\* A refusal, under outMu; a client that reads nothing more lets no write end.
Veto ==
  /\ Alive
  /\ \/ g.inp.pc = "lock" /\ g.mu = "free" /\ g' = [g EXCEPT !.mu = "inp", !.inp.pc = "veto"]
     \/ /\ g.inp.pc = "veto" /\ "out" \notin g.closed
        /\ g' = [g EXCEPT !.out = Append(@, Half("guard", g.sent, 1)), !.inp.pc = "rest"]
     \/ /\ g.inp.pc = "rest" /\ "out" \notin g.closed /\ ~g.deaf
        /\ g' = [g EXCEPT !.out = Append(@, Half("guard", g.sent, 2)), !.inp.pc = "scan", !.mu = "free",
                          !.answers = Append(@, [line |-> g.inp.line[1], reply |-> g.inp.reply])]
     \/ /\ g.inp.pc \in {"veto", "rest"} /\ "out" \in g.closed
        /\ g' = [InDone(TRUE) EXCEPT !.mu = "free"]

\* copyLocked: the lines of the child, each under the lock.
CopyRead ==
  /\ Alive /\ g.cpy.pc = "read"
  /\ \/ "from" \in g.closed /\ g' = CpyDone(TRUE)
     \/ "from" \notin g.closed /\ g.from # <<>> /\ g' = [g EXCEPT !.cpy.line = Head(g.from), !.from = Tail(@), !.cpy.pc = "lock"]
     \/ "from" \notin g.closed /\ g.from = <<>> /\ (g.child # "up" \/ ~g.writes) /\ g' = CpyDone(FALSE)
copyLocked ==
  /\ Alive
  /\ \/ g.cpy.pc = "lock" /\ g.mu = "free" /\ g' = [g EXCEPT !.mu = "cpy", !.cpy.pc = "write"]
     \/ /\ g.cpy.pc = "write" /\ "out" \notin g.closed
        /\ g' = [g EXCEPT !.out = Append(@, Half("child", g.cpy.line, 1)), !.cpy.pc = "rest"]
     \/ /\ g.cpy.pc = "rest" /\ "out" \notin g.closed /\ ~g.deaf
        /\ g' = [g EXCEPT !.out = Append(@, Half("child", g.cpy.line, 2)), !.cpy.pc = "read", !.mu = "free"]
     \/ /\ g.cpy.pc \in {"write", "rest"} /\ "out" \in g.closed
        /\ g' = [CpyDone(TRUE) EXCEPT !.mu = "free"]

-----------------------------------------------------------------------------
(* RunRelay: two channels of one message each, then the closes, then the   *)
(* goroutines are joined, for two seconds at most.                         *)

Returns(err) == [g EXCEPT !.rel = "close", !.err = err]

\* The select takes either message; an output that ends first is an error unless the input has ended too.
Select ==
  /\ g.rel = "select"
  /\ \/ g.cpy.pc = "done" /\ g' = Returns(g.cpy.err \/ g.inp.pc # "done" \/ g.inp.err)
     \/ g.inp.pc = "done" /\ g.inp.err /\ g' = Returns(TRUE)
     \/ g.inp.pc = "done" /\ ~g.inp.err /\ g' = [g EXCEPT !.rel = "drain", !.closed = @ \cup {"to"}]
Drain ==
  /\ g.rel = "drain"
  /\ \/ g.cpy.pc = "done" /\ g' = Returns(g.cpy.err)
     \/ g' = Returns(TRUE)                                   \* the timer
CloseAll == g.rel = "close" /\ g' = [g EXCEPT !.rel = "join", !.closed = {"in", "to", "from", "out"}]
RunRelay ==
  /\ g.rel = "join"
  /\ \/ g.inp.pc = "done" /\ g.cpy.pc = "done" /\ g' = [g EXCEPT !.rel = "returned"]
     \/ ~(g.inp.pc = "done" /\ g.cpy.pc = "done") /\ g' = [g EXCEPT !.rel = "returned"]   \* the timer

-----------------------------------------------------------------------------
(* The program: the child is killed after an error, or when it outlives    *)
(* its input by two seconds, and it is waited for in every case.           *)

Kill(s) == [s EXCEPT !.child = IF @ = "up" THEN "killed" ELSE @]

AfterRelay ==
  /\ g.main = "relay" /\ g.rel = "returned"
  /\ g' = IF g.err THEN [Kill(g) EXCEPT !.main = "wait"] ELSE [g EXCEPT !.main = "wait"]
WaitChild ==
  /\ g.main \in {"wait", "killed"} /\ g.child # "up"
  /\ g' = [g EXCEPT !.main = "exited", !.child = "reaped",
                    !.code = IF g.err \/ g.child # "exited" THEN 1 ELSE 0]
WaitTimer == g.main = "wait" /\ g.child = "up" /\ g' = [Kill(g) EXCEPT !.main = "killed"]

\* SIGINT or SIGTERM cancels the context, and CommandContext kills the child's group.
Signal ==
  /\ Alive /\ g.signals < MaxSignals
  /\ \/ g.child \notin {"exited", "reaped"} /\ g' = [Kill(g) EXCEPT !.signals = @ + 1]
     \/ \* a child that has ended but was not waited for: Wait may report the context instead of its status
        /\ g.child = "exited"
        /\ \E end \in {"exited", "killed"} : g' = [g EXCEPT !.child = end, !.signals = @ + 1]

\* The child takes a line and answers it, stops reading, closes its output, ends by itself, or at the end of its input.
ChildAnswers ==
  /\ g.child = "up" /\ g.reads /\ g.writes /\ g.to # <<>> /\ "from" \notin g.closed
  /\ g' = [g EXCEPT !.to = Tail(@), !.wrote = @ + 1, !.from = Append(@, g.wrote + 1)]
ChildStalls == g.child = "up" /\ g.reads /\ g' = [g EXCEPT !.reads = FALSE]
ChildMute == g.child = "up" /\ g.writes /\ g' = [g EXCEPT !.writes = FALSE]
ChildEnds ==
  /\ g.child = "up"
  /\ \E end \in {"exited", "failed"} : g' = [g EXCEPT !.child = end]
ChildSeesEOF == g.child = "up" /\ g.reads /\ g.to = <<>> /\ "to" \in g.closed /\ g' = [g EXCEPT !.child = "exited"]

Input == Scan \/ ScanEnds \/ Forward \/ Veto
Output == CopyRead \/ copyLocked
Main == Select \/ Drain \/ CloseAll \/ RunRelay \/ AfterRelay \/ WaitChild \/ WaitTimer
Child == ChildAnswers \/ ChildStalls \/ ChildMute \/ ChildEnds \/ ChildSeesEOF

Next == Input \/ Output \/ Main \/ Child \/ Signal

\* A read of a closed standard input is not promised to wake, so ScanEnds is fair only before the close.
Reads == Scan \/ (ScanEnds /\ "in" \notin g.closed) \/ Forward
Fairness ==
  /\ WF_vars(Reads) /\ SF_vars(Veto)
  /\ SF_vars(Output) /\ WF_vars(Main)
Spec == Init /\ [][Next]_vars /\ Fairness

-----------------------------------------------------------------------------
(* How a server may read a line: the first or the last of repeated keys,   *)
(* and keys with or without regard to their case.                          *)
Fold(k) == CASE k = "Method" -> "method" [] k = "Name" -> "name" [] OTHER -> k
Readings == [last : BOOLEAN, fold : BOOLEAN]
Hits(node, key, how) == {i \in DOMAIN node.members : node.members[i].k = key \/ (how.fold /\ Fold(node.members[i].k) = key)}
Read(node, key, how) ==
  LET at == Hits(node, key, how)
  IN IF at = {} THEN NoTree ELSE node.members[IF how.last THEN Max(at) ELSE Min(at)].v

RECURSIVE Bag(_)
Bag(node) ==      \* the tokens of a value in any order, as the grammar counts them
  IF node.kind \notin {"obj", "arr"} THEN <<node.v>>
  ELSE <<IF node.kind = "obj" THEN "{" ELSE "[", IF node.kind = "obj" THEN "}" ELSE "]">>
       \o FlattenSeq([i \in DOMAIN node.members |->
            (IF node.kind = "obj" THEN <<node.members[i].k, ":">> ELSE <<>>) \o Bag(node.members[i].v)
            \o (IF i < Len(node.members) THEN <<",">> ELSE <<>>)])

Permitted(node, how) ==
  LET params == Read(node, "params", how) name == Read(params, "name", how) args == Read(params, "arguments", how)
  IN Read(node, "method", how).v = "tools/call" =>
       params.kind = "obj" /\ name.kind = "str" /\ args.kind = "obj" /\ C2bt_grammar_eval(g.table, name.v, Bag(args)) = "nominal"

Acceptable(node) ==
  LET how == [last |-> TRUE, fold |-> FALSE] params == Read(node, "params", how)
  IN /\ node # NoTree /\ uniqueJSON(node, 0) /\ validEnvelope(node)
     /\ Read(node, "id", how) # NoTree => Read(node, "id", how).kind \in {"str", "num", "null"}
     /\ params # NoTree => params.kind = "obj" /\ Read(params, "name", how).kind \in {"none", "str"}
     /\ Read(node, "method", how).v = "tools/call" =>
          Read(params, "name", how).v # "" /\ Read(params, "arguments", how).kind = "obj"

(* A line that passes is one that every reading of it permits: the scanner *)
(* and the decoder see the same call, and no repeated or differently cased *)
(* key says something else to the server.  A refusal carries the id of the *)
(* request, and a line is called invalid only for a reason of the tree.    *)
LinesSound ==
  /\ \A k \in DOMAIN g.passed : \A how \in Readings : Permitted(g.passed[k].tree, how)
  /\ \A k \in DOMAIN g.answers :
       LET a == g.answers[k] tree == a.line.tree
       IN IF a.reply.code = -32600 THEN ~Acceptable(tree)
          ELSE /\ a.reply.id = <<Tok(IF Get(tree, "id").kind = "null" THEN "lit" ELSE Get(tree, "id").kind, Get(tree, "id").v)>>
               /\ ~Permitted(tree, [last |-> TRUE, fold |-> FALSE])

(* Each line read is passed or answered, once, or was a refused            *)
(* notification.  Lines to the client are whole but for one that the end   *)
(* cut, whoever writes; and a guard that exits with 0 has judged every     *)
(* line, handed over every line of the child, and reaped it.               *)
RelaySound ==
  /\ Len(g.passed) + Len(g.answers) <= g.sent
  /\ \A k \in DOMAIN g.out : g.out[k].k = IF k % 2 = 1 THEN 1 ELSE 2
  /\ \A k \in DOMAIN g.out : k % 2 = 0 => g.out[k] = [g.out[k - 1] EXCEPT !.k = 2]
  /\ g.main = "exited" => g.child = "reaped"
  /\ g.code = 0 => /\ g.lines = <<>>
                   /\ Len(SelectSeq(g.out, LAMBDA h : h.who = "child" /\ h.k = 2)) = g.wrote

(* When the child is gone or the client's stream has been read to its end, *)
(* the guard ends and the child is reaped, although the child may stall    *)
(* and a goroutine may stay blocked; a client that reads is needed.        *)
Over == (g.child # "up" \/ g.inp.pc = "done") /\ ~g.deaf
Exited == g.main = "exited" /\ g.child = "reaped"
GuardEnds == Over ~> Exited

=============================================================================
