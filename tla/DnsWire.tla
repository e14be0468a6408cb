------------------------------ MODULE DnsWire ------------------------------
(***************************************************************************)
(* DNS names on the wire.  Three decoders walk the same bytes:             *)
(* decodeDNSWireName (message parser, pointers strictly backwards),        *)
(* decompresserNomDNS (response trackers, any target, bounded jumps) and   *)
(* parseDNSQueryWire (questions, one pointer, no chain); then              *)
(* populateDomainParts cuts the name into its parts, and decodeRRSection   *)
(* walks the records.  Beside them, the two capture readers that feed the  *)
(* parsers walk the same frames.                                           *)
(*                                                                         *)
(* A packet is the sequence of bytes after the header, at offsets 12 on; a *)
(* byte below 64 is a label length, 192 and above the first byte of a      *)
(* pointer, as in the code.  The name limits are scaled: MaxName stands    *)
(* for 253, MaxName + 2 for 255.                                           *)
(***************************************************************************)
EXTENDS Integers, Sequences, SequencesExt, FiniteSets

CONSTANTS
    Packets,     \* sequences of bytes that follow the 12 header bytes
    HeaderBytes, \* the 12 header bytes, as a lenient pointer reads them
    Counts,      \* pairs <<QDCount, record count>> announced by the header
    MaxName,     \* 253: bytes of a decoded name
    MaxJumps,    \* maxPointerJumps, 8
    MaxRR,       \* MaxDNSMessageRRs, 16
    MaxRData,    \* MaxDNSRDataBytes, 1536
    QFix, RRFix, \* fixed bytes after a name: 4 (question) and 10 (record)
    TwoLevel,    \* texts isTwoLevelPublicSuffix recognises
    Links,       \* link types of captures
    Records,     \* captured records: frames with the fields below
    MaxRecords   \* bound: records per capture

Header == 12
Dot == 46

DnsWireAssumption ==
    /\ {MaxName, MaxJumps, MaxRR, MaxRData, QFix, RRFix, MaxRecords} \subseteq Nat \ {0}
    /\ HeaderBytes \in [1..Header -> 0..255]
    /\ \A p \in Packets : \A i \in DOMAIN p : p[i] \in 0..255
    /\ \A c \in Counts : c[1] \in Nat /\ c[2] \in Nat

VARIABLES dec,  \* one packet and what the decoders have made of it
          cap   \* one capture and the two readers

vars == <<dec, cap>>

(***************************************************************************)
(* Bytes.                                                                  *)
(***************************************************************************)
End(raw) == Header + Len(raw)
At(raw, pos) == IF pos < Header THEN HeaderBytes[pos + 1] ELSE raw[pos - Header + 1]
Fold(b) == IF b \in 65..90 THEN b + 32 ELSE b
dnsLabelByte(b) == b \in 97..122 \/ b \in 48..57 \/ b \in {45, 95}
isDNSEncodingByte(b) == b \in {43, 47, 61}
IsPointer(b) == b >= 192
Target(raw, pos) == (At(raw, pos) - 192) * 256 + At(raw, pos + 1)
Content(raw, pos, n) == [i \in 1..n |-> Fold(At(raw, pos + i))]
Join(text, label) == IF text = <<>> THEN label ELSE text \o <<Dot>> \o label

Cursor(pos) == [pos |-> pos, next |-> -1, jumps |-> 0, wire |-> 0, text |-> <<>>,
                starts |-> <<>>, verdict |-> "go"]
Refuse(c, why) == [c EXCEPT !.verdict = why]
Jump(raw, c) == [c EXCEPT !.pos = Target(raw, c.pos), !.jumps = @ + 1,
                          !.next = IF @ < 0 THEN c.pos + 2 ELSE @]
Finish(c) == [c EXCEPT !.verdict = "ok", !.wire = @ + 1,
                       !.next = IF @ < 0 THEN c.pos + 1 ELSE @]
Take(raw, c) ==
    LET n == At(raw, c.pos)  text == Join(c.text, Content(raw, c.pos, n))
    IN [c EXCEPT !.text = text, !.starts = Append(@, Len(text) - n),
                 !.wire = @ + n + 1, !.pos = @ + n + 1]

(***************************************************************************)
(* One turn of the loop of each decoder.                                   *)
(***************************************************************************)
decodeDNSWireName(raw, c) ==
    IF c.pos >= End(raw) THEN Refuse(c, "label")
    ELSE LET b == At(raw, c.pos) IN
    CASE b = 0 -> Finish(c)
      [] IsPointer(b) ->
           IF c.pos + 1 >= End(raw) THEN Refuse(c, "label")
           ELSE IF \/ Target(raw, c.pos) < Header
                   \/ Target(raw, c.pos) >= c.pos
                   \/ c.jumps + 1 > MaxJumps
                THEN Refuse(c, "loop")
                ELSE Jump(raw, c)
      [] b \in 64..191 -> Refuse(c, "label")
      [] OTHER ->
           IF c.pos + 1 + b > End(raw) THEN Refuse(c, "label")
           ELSE IF Len(Take(raw, c).text) > MaxName THEN Refuse(c, "long")
                ELSE Take(raw, c)

(* Mutant of decompresserNomDNS: the jumps are not counted.                *)
decompresserSansBorne(raw, c) ==
    IF c.pos >= End(raw) THEN Refuse(c, "label")
    ELSE LET b == At(raw, c.pos) IN
    CASE b = 0 -> Finish(c)
      [] IsPointer(b) -> IF c.pos + 1 >= End(raw) \/ Target(raw, c.pos) >= End(raw)
                         THEN Refuse(c, "loop") ELSE [Jump(raw, c) EXCEPT !.jumps = 0]
      [] b \in 64..191 -> Refuse(c, "label")
      [] OTHER -> IF c.pos + 1 + b > End(raw) THEN Refuse(c, "label")
                  ELSE IF c.wire + b + 1 > MaxName + 2 THEN Refuse(c, "long") ELSE Take(raw, c)

(* Until the first jump the inline bound applies (here the packet's end,   *)
(* as for a name outside RDATA), afterwards the packet's end.              *)
decompresserNomDNS(raw, c) ==
    IF c.pos >= End(raw) THEN Refuse(c, "label")
    ELSE LET b == At(raw, c.pos) IN
    CASE b = 0 -> IF c.wire + 1 > MaxName + 2 THEN Refuse(c, "long") ELSE Finish(c)
      [] IsPointer(b) ->
           IF \/ c.pos + 1 >= End(raw)
              \/ c.jumps + 1 > MaxJumps
              \/ Target(raw, c.pos) >= End(raw)
           THEN Refuse(c, "loop") ELSE Jump(raw, c)
      [] b \in 64..191 -> Refuse(c, "label")
      [] OTHER ->
           IF c.pos + 1 + b > End(raw) THEN Refuse(c, "label")
           ELSE IF c.wire + b + 1 > MaxName + 2 THEN Refuse(c, "long")
                ELSE Take(raw, c)

copierLabelQuestion(raw, pos, tolerant) ==
    tolerant \/ \A i \in 1..At(raw, pos) :
                   LET b == Fold(At(raw, pos + i)) IN dnsLabelByte(b) \/ isDNSEncodingByte(b)

(* After the single pointer a second one is refused, and the end of the    *)
(* pointed name ends the question.                                         *)
parseDNSQueryWire(raw, c, tolerant) ==
    IF c.pos >= End(raw) THEN Refuse(c, "short")
    ELSE LET b == At(raw, c.pos) IN
    CASE b = 0 -> Finish(c)
      [] IsPointer(b) /\ c.jumps > 0 -> Refuse(c, "loop")
      [] IsPointer(b) /\ c.jumps = 0 ->
           IF c.pos + 1 >= End(raw) THEN Refuse(c, "short")
           ELSE IF Target(raw, c.pos) \notin Header..(End(raw) - 1) THEN Refuse(c, "label")
                ELSE IF Target(raw, c.pos) = c.pos THEN Refuse(c, "loop")
                     ELSE Jump(raw, c)
      [] b \in 64..191 -> Refuse(c, "label")
      [] OTHER ->
           IF c.pos + 1 + b > End(raw) THEN Refuse(c, "short")
           ELSE IF Len(c.text) + b + 1 > MaxName + 1 THEN Refuse(c, "long")
                ELSE IF ~copierLabelQuestion(raw, c.pos, tolerant) THEN Refuse(c, "label")
                     ELSE Take(raw, c)

(* The checks after the name: four more bytes, its length, a name at all,  *)
(* a type (its byte stands for the two of the code).                       *)
QuestionEnds(raw, c) ==
    IF c.next + QFix > End(raw) THEN Refuse(c, "short")
    ELSE IF Len(c.text) > MaxName THEN Refuse(c, "long")
         ELSE IF c.text = <<>> \/ At(raw, c.next) = 0 THEN Refuse(c, "contract") ELSE c

(***************************************************************************)
(* The parts of a name.                                                    *)
(***************************************************************************)
Slice(text, from, to) == SubSeq(text, from + 1, to)       \* text[from:to]
Fits(text, n) == IF Len(text) \in 1..n THEN text ELSE <<>>
populateDomainParts(text, starts) ==
    LET n == Len(starts)  len == Len(text)
        two == n >= 3 /\ Slice(text, starts[n - 1], len) \in TwoLevel
        s == IF two THEN starts[n - 2] ELSE starts[n - 1]
        t == IF two THEN starts[n - 1] ELSE starts[n]
    IN IF n >= 2
       THEN [parent |-> Fits(Slice(text, s, len), 128),
             sld |-> IF t > s + 1 THEN Fits(Slice(text, s, t - 1), 64) ELSE <<>>,
             tld |-> Fits(Slice(text, t, len), 64),
             sub |-> IF s > 1 THEN Fits(Slice(text, 0, s - 1), 256) ELSE <<>>]
       ELSE [parent |-> Fits(text, 128), sld |-> Fits(text, 64), tld |-> <<>>, sub |-> <<>>]

(* ParseDNSName reads the dotted text again; <<>> starts stand for a       *)
(* refusal.                                                                *)
ParseDNSName(text) ==
    LET cut == {0} \cup {i \in 1..Len(text) : text[i] = Dot}
        starts == [k \in 1..Cardinality(cut) |->
                     CHOOSE i \in cut : Cardinality({j \in cut : j < i}) = k - 1]
        size(k) == (IF k = Len(starts) THEN Len(text) ELSE starts[k + 1] - 1) - starts[k]
    IN IF /\ Len(text) \in 1..MaxName
          /\ \A k \in DOMAIN starts : size(k) \in 1..63
          /\ \A i \in 1..Len(text) :
                text[i] = Dot \/ dnsLabelByte(text[i]) \/ isDNSEncodingByte(text[i])
       THEN starts ELSE <<>>

(* HasNonLDH is about the bytes of the labels: a '.' octet inside a label  *)
(* sets it, the separators do not.                                         *)
splitWireQName(text, starts, qtype) ==
    LET separators == {starts[k] : k \in 2..Len(starts)}
        hasNonLDH == \E i \in DOMAIN text \ separators : ~dnsLabelByte(text[i])
        again == ParseDNSName(text)
    IN IF ~hasNonLDH /\ qtype # 0 /\ again # <<>> THEN populateDomainParts(text, again)
       ELSE populateDomainParts(text, starts)

(***************************************************************************)
(* ParseDNSMessage: QDCount questions, then the records of the sections.   *)
(* msg.items holds the extent <<from, to>> of every element read.          *)
(***************************************************************************)
NoParts == [parent |-> <<>>, sld |-> <<>>, tld |-> <<>>, sub |-> <<>>]
NewMessage(count) ==
    [cur |-> Cursor(Header), qd |-> count[1], rr |-> count[2], items |-> <<>>, parts |-> NoParts,
     verdict |-> IF count[1] = 0 THEN "contract" ELSE "go"]

Item(m, to) == [m EXCEPT !.items = Append(@, <<IF @ = <<>> THEN Header ELSE @[Len(@)][2], to>>),
                         !.cur = Cursor(to)]
QuestionRead(raw, m) ==
    IF m.cur.next + QFix > End(raw) THEN [m EXCEPT !.verdict = "contract"]
    ELSE [Item(m, m.cur.next + QFix) EXCEPT !.qd = @ - 1,
            !.parts = IF m.items = <<>> THEN splitWireQName(m.cur.text, m.cur.starts, At(raw, m.cur.next)) ELSE @,
            !.verdict = IF m.qd = 1 /\ m.rr > MaxRR THEN "many" ELSE @]

decodeRRSection(raw, m) ==
    LET body == m.cur.next + RRFix
        size == At(raw, body - 1)          \* RDLENGTH closes the fixed part
    IN IF body > End(raw) THEN [m EXCEPT !.verdict = "label"]
       ELSE IF body + size > End(raw) THEN [m EXCEPT !.verdict = "label"]
            ELSE IF size > MaxRData THEN [m EXCEPT !.verdict = "rdata"]
                 ELSE [Item(m, body + size) EXCEPT !.rr = @ - 1]

ParseDNSMessage(raw, m) ==
    CASE m.qd = 0 /\ m.rr = 0 -> [m EXCEPT !.verdict = "ok"]
      [] ~(m.qd = 0 /\ m.rr = 0) /\ m.cur.verdict = "go" -> [m EXCEPT !.cur = decodeDNSWireName(raw, @)]
      [] m.cur.verdict \notin {"go", "ok"} -> [m EXCEPT !.verdict = m.cur.verdict]
      [] m.cur.verdict = "ok" /\ m.qd > 0 -> QuestionRead(raw, m)
      [] m.cur.verdict = "ok" /\ m.qd = 0 /\ m.rr > 0 -> decodeRRSection(raw, m)

(***************************************************************************)
(* The packet is handed to the decoders in turn.                           *)
(***************************************************************************)
InitDec ==
    \E p \in Packets, c \in Counts, t \in BOOLEAN :
        dec = [raw |-> p, count |-> c, tolerant |-> t, wire |-> Cursor(Header), name |-> Cursor(Header),
               query |-> IF c[1] = 1 THEN Cursor(Header) ELSE Refuse(Cursor(Header), "contract"), msg |-> NewMessage(c)]

Wire ==
    /\ dec.wire.verdict = "go"
    /\ dec' = [dec EXCEPT !.wire = decodeDNSWireName(dec.raw, @)]
Name ==
    /\ dec.wire.verdict # "go" /\ dec.name.verdict = "go"
    /\ dec' = [dec EXCEPT !.name = decompresserNomDNS(dec.raw, @)]
Query ==
    /\ dec.name.verdict # "go" /\ dec.query.verdict = "go"
    /\ \E c \in {parseDNSQueryWire(dec.raw, dec.query, dec.tolerant)} :
         dec' = [dec EXCEPT !.query = IF c.verdict = "ok" THEN QuestionEnds(dec.raw, c) ELSE c]
Message ==
    /\ "go" \notin {dec.name.verdict, dec.query.verdict} /\ dec.msg.verdict = "go"
    /\ dec' = [dec EXCEPT !.msg = ParseDNSMessage(dec.raw, @)]

Decode == (Wire \/ Name \/ Query \/ Message) /\ UNCHANGED cap

(***************************************************************************)
(* Frames.  f.size counts the captured bytes, f.ether and f.inner the      *)
(* types before and after a VLAN tag, f.ver the version nibble, f.ihl the  *)
(* IPv4 header length, f.total the IP total (or IPv6 payload) length.      *)
(***************************************************************************)
IPv4 == 2048
IPv6 == 34525
VLAN == 33024

stripL2(link, f) ==
    LET cut(n, e) == [ok |-> f.size >= n, proto |-> e, at |-> n]
    IN CASE link = 276 -> cut(20, f.ether)
         [] link = 113 -> cut(16, f.ether)
         [] link = 1 -> IF f.ether = VLAN /\ f.size >= 14 THEN cut(18, f.inner) ELSE cut(14, f.ether)
         [] link = 228 -> cut(0, IPv4)
         [] link = 229 -> cut(0, IPv6)
         [] link = 101 -> cut(1, IF f.ver = 4 THEN IPv4 ELSE IF f.ver = 6 THEN IPv6 ELSE 0)
L3(link, f) == IF link = 101 THEN 0 ELSE stripL2(link, f).at

(* classifyPCAPPacket: the category it counts and the payload's extent.    *)
Category(what) == [what |-> what, from |-> 0, to |-> 0]
classifyPCAPPacket(link, f) ==
    LET l2 == stripL2(link, f)  left == f.size - L3(link, f)
        at == L3(link, f) + (IF l2.proto = IPv4 THEN f.ihl ELSE 40)
        len == IF l2.proto = IPv4 THEN f.total - f.ihl ELSE f.total
    IN CASE ~l2.ok \/ l2.proto \notin {IPv4, IPv6} -> Category("other")
         [] l2.ok /\ l2.proto = IPv4 /\ (left < 20 \/ f.ver # 4 \/ f.ihl < 20 \/ f.total < f.ihl \/ left < f.total) -> Category("other")
         [] l2.ok /\ l2.proto = IPv6 /\ (left < 40 \/ f.ver # 6 \/ left < 40 + f.total) -> Category("other")
         [] OTHER ->
              IF l2.proto = IPv4 /\ f.frag THEN Category("fragment")
              ELSE IF len < 4 THEN Category("other")
              ELSE IF f.proto = 6
                   THEN Category(IF 53 \in {f.sport, f.dport} THEN "tcp" ELSE "other")
              ELSE IF f.proto # 17 \/ len < 8 \/ f.udp < 8 \/ f.udp > len THEN Category("other")
              ELSE IF f.dport = 53 THEN [what |-> "question", from |-> at + 8, to |-> at + f.udp]
              ELSE Category(IF f.sport = 53 THEN "response" ELSE "other")

(* extractDNSPayload: what the second reader visits.  It believes neither  *)
(* the IP lengths nor the fragment offset.                                 *)
extractDNSPayload(link, f) ==
    LET l2 == stripL2(link, f)  left == f.size - L3(link, f)
        at == L3(link, f) + (IF l2.proto = IPv4 THEN f.ihl ELSE 40)
        seg == f.size - at
        whole == [what |-> "visit", from |-> at + 8, to |-> IF f.udp <= seg THEN at + f.udp ELSE f.size]
    IN IF /\ l2.ok /\ left > 0 /\ l2.proto \in {IPv4, IPv6}
          /\ l2.proto = IPv4 => left >= 20 /\ f.ihl >= 20 /\ left >= f.ihl
          /\ l2.proto = IPv6 => left >= 40
          /\ f.proto = 17 /\ seg >= 8 /\ 53 \in {f.sport, f.dport} /\ f.udp >= 8
       THEN whole ELSE Category("skip")

(***************************************************************************)
(* The readers.  A record r carries its frame, whether the file is cut in  *)
(* it, whether it was captured short, what each parser says of its         *)
(* payload and whether the visitor fails.                                  *)
(***************************************************************************)
Tally == [records |-> 0, truncated |-> 0, other |-> 0, fragment |-> 0, tcp |-> 0, question |-> 0,
          response |-> 0, accepted |-> 0, short |-> 0, label |-> 0, loop |-> 0, long |-> 0, contract |-> 0,
          queries |-> 0, replies |-> 0, malformed |-> 0, skip |-> 0]
Reader == [at |-> 1, state |-> "header", n |-> Tally, seen |-> {}]
Captures == UNION {[1..k -> Records] : k \in 0..MaxRecords}
InitCap ==
    \E l \in Links, rs \in Captures, m \in BOOLEAN :
        cap = [link |-> l, records |-> rs, magic |-> m, first |-> Reader, second |-> Reader]

OpenQuestions ==
    /\ cap.first.state = "header"
    /\ cap' = [cap EXCEPT !.first.state =
         IF ~cap.magic THEN "magic" ELSE IF cap.link \in {276, 113, 1, 101, 228, 229} THEN "reading" ELSE "link"]
OpenWire ==
    /\ cap.first.state \notin {"header", "reading"} /\ cap.second.state = "header"
    /\ cap' = [cap EXCEPT !.second.state =
         IF ~cap.magic THEN "magic" ELSE IF cap.link \in {1, 101, 113} THEN "reading" ELSE "link"]

Count(r, fields) == [r EXCEPT !.n = [x \in DOMAIN r.n |-> IF x \in fields THEN r.n[x] + 1 ELSE r.n[x]],
                              !.at = @ + 1]

(* readPCAPDNSQuestionsMode, one record.                                   *)
Question(link, r, rec) ==
    LET c == classifyPCAPPacket(link, rec)
        parsed == IF rec.query = "ok" THEN "accepted" ELSE rec.query
    IN CASE rec.cut -> [r EXCEPT !.state = "cut"]
         [] ~rec.cut /\ rec.clipped -> Count(r, {"records", "truncated"})
         [] ~rec.cut /\ ~rec.clipped /\ c.what # "question" -> Count(r, {"records", c.what})
         [] OTHER ->
              [Count(r, {"records", "question", parsed}) EXCEPT
                 !.seen = @ \cup {<<r.at, c.from, c.to>>},
                 !.state = IF parsed = "accepted" /\ rec.fails THEN "visitor" ELSE @]

ReadQuestion ==
    /\ cap.first.state = "reading"
    /\ cap' = [cap EXCEPT !.first = IF @.at > Len(cap.records) THEN [@ EXCEPT !.state = "end"]
                                    ELSE Question(cap.link, @, cap.records[@.at])]

(* ReadPCAPDNSWire with the visitor of ReadPCAPDNSMessages, one record.    *)
WireRecord(link, r, rec) ==
    LET e == extractDNSPayload(link, rec)
        seen == r.seen \cup {<<r.at, e.from, e.to>>}
    IN CASE rec.cut -> [r EXCEPT !.state = "cut"]
         [] ~rec.cut /\ e.what = "skip" -> Count(r, {"records", "skip"})
         [] OTHER ->
              [Count(r, {"records", rec.message}) EXCEPT !.seen = seen,
                 !.state = IF rec.message # "malformed" /\ rec.fails THEN "visitor" ELSE @]

ReadWire ==
    /\ cap.second.state = "reading"
    /\ cap' = [cap EXCEPT !.second = IF @.at > Len(cap.records) THEN [@ EXCEPT !.state = "end"]
                                     ELSE WireRecord(cap.link, @, cap.records[@.at])]

Capture == (OpenQuestions \/ OpenWire \/ ReadQuestion \/ ReadWire) /\ UNCHANGED dec

Init == InitDec /\ InitCap
Next == Decode \/ Capture
Fairness == WF_vars(Decode) /\ WF_vars(Capture)
Spec == Init /\ [][Next]_vars /\ Fairness

(***************************************************************************)
(* Properties.                                                             *)
(***************************************************************************)

(* The decoders never disagree about a name: what the strict decoder or    *)
(* the question parser accepts, the trackers' decoder accepts too, with    *)
(* the same text and the same next offset, although the three bound the    *)
(* name in three different ways (text 253, output 254, wire 255) and       *)
(* police pointers differently; an accepted text fits its buffer.          *)
DecodersAgree ==
    /\ \A c \in {dec.wire, dec.query} :
         c.verdict = "ok" /\ dec.name.verdict # "go" =>
            /\ dec.name.verdict = "ok"
            /\ dec.name.text = c.text /\ dec.name.next = c.next
            /\ Len(c.text) <= MaxName
    /\ dec.wire.verdict = "ok" /\ dec.query.verdict = "ok" => dec.wire.next = dec.query.next

(* The parts of an accepted question name put back together are the name,  *)
(* whichever branch cut it, and each begins where a label of the wire      *)
(* begins although a label may hold a '.' octet; the elements of an        *)
(* accepted message tile the packet from the header on and stay inside it. *)
PartsWhole ==
    LET m == dec.msg  text == dec.wire.text
        from(part) == Len(text) - Len(part) IN
    /\ m.items # <<>> /\ text # <<>> =>
         /\ text = IF m.parts.sub = <<>> THEN m.parts.parent ELSE m.parts.sub \o <<Dot>> \o m.parts.parent
         /\ m.parts.parent = IF m.parts.tld = <<>> THEN m.parts.sld
                             ELSE m.parts.sld \o <<Dot>> \o m.parts.tld
         /\ {from(m.parts.parent)} \cup {from(t) : t \in {m.parts.tld} \ {<<>>}} \subseteq ToSet(dec.wire.starts)
    /\ m.verdict = "ok" => Len(m.items) = dec.count[1] + dec.count[2]
    /\ \A i \in DOMAIN m.items :
         /\ m.items[i][1] < m.items[i][2] /\ m.items[i][2] <= End(dec.raw)
         /\ i > 1 => m.items[i][1] = m.items[i - 1][2]

(* Every record read is counted in exactly one category and every question *)
(* in exactly one outcome; every question the first reader parses is       *)
(* visited by the second with the same bytes, when both read that record.  *)
ReadersAgree ==
    LET n == cap.first.n  m == cap.second.n IN
    /\ n.records = n.truncated + n.other + n.fragment + n.tcp + n.question + n.response
    /\ n.question = n.accepted + n.short + n.label + n.loop + n.long + n.contract
    /\ m.records = m.queries + m.replies + m.malformed + m.skip
    /\ cap.second.state # "header" =>
         \A q \in cap.first.seen : q[1] < cap.second.at => q \in cap.second.seen

(* Every decoder and every reader comes to an end on every input, pointer  *)
(* cycles included.                                                        *)
DecodingEnds == <>(/\ "go" \notin {dec.wire.verdict, dec.name.verdict, dec.query.verdict, dec.msg.verdict}
                   /\ "reading" \notin {cap.first.state, cap.second.state})
=============================================================================
