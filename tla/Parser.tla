------------------------------- MODULE Parser -------------------------------
(***************************************************************************)
(* The protocol parser of a gnatsd connection (server/parser.go, with      *)
(* processPub and processMsgArgs of server/client.go).  readLoop reads     *)
(* into one buffer again and again, and parse walks over what was read; an *)
(* operation may be cut anywhere, so parse keeps what it needs of it in    *)
(* c.scratch or in a buffer of its own until the next read overwrites the  *)
(* read buffer.                                                            *)
(*                                                                         *)
(* A slice is a record [at, lo, hi]: the bytes lo..hi of the memory named  *)
(* by at, so that two slices of the same memory share it as they do in Go. *)
(* Indices start at 1.  A letter stands for both of its cases, "sp" for    *)
(* blank and tab.  The state of the automaton is the keyword read so far   *)
(* and the phase after it.                                                 *)
(***************************************************************************)
EXTENDS Integers, Sequences

SeqExt == INSTANCE SequencesExt

CONSTANTS
    Streams,       \* what the peer may send: the bytes, what is to be processed of
                   \* them (expect), whether they break the protocol then (bad), whether
                   \* a line is over MaxControlLine (long), c.typ, the need to CONNECT
    Capacity,      \* MAX_CONTROL_LINE_SIZE, the size of c.scratch
    MaxControlLine,
    MaxPayload     \* c.mpay

ASSUME ParserAssumption ==
    Capacity \in Nat /\ MaxControlLine \in Nat /\ MaxPayload \in Nat

VARIABLES
    sent,          \* the member of Streams being sent; fixed
    taken,         \* bytes of it read so far
    authTimer,     \* the auth timer of the connection is set
    authSet,       \* parse's copy of that
    mem,           \* the read buffer, c.scratch, and the buffers append and make give
    at,            \* "read" in readLoop, "parse" in the loop of parse
    i,             \* parse's index
    word, phase,   \* c.state
    as, drop,      \* c.as, c.drop
    argBuf, msgBuf,
    pa,            \* c.pa
    done,          \* operations processed, with their arguments
    err            \* the error parse returned, after which the connection is closed

held == <<argBuf, msgBuf, mem, pa>>
vars == <<sent, taken, authTimer, authSet, at, i, word, phase, as, drop, held, done, err>>

buf == mem.buf
b == buf[i]

\* The operations, and the states between their letters.
PUB == <<"P", "U", "B">>
SUB == <<"S", "U", "B">>
UNSUB == <<"U", "N", "S", "U", "B">>
PING == <<"P", "I", "N", "G">>
PONG == <<"P", "O", "N", "G">>
CONNECT == <<"C", "O", "N", "N", "E", "C", "T">>
MSG == <<"M", "S", "G">>
INFO == <<"I", "N", "F", "O">>
OK == <<"+", "O", "K">>
ERR == <<"-", "E", "R", "R">>

NoArgs == {PING, PONG, OK}
Keywords == NoArgs \cup {PUB, SUB, UNSUB, CONNECT, MSG, INFO, ERR}

-----------------------------------------------------------------------------
(* Slices *)

Nil == [at |-> "nil", lo |-> 1, hi |-> 0]
Slice(where, lo, hi) == [at |-> where, lo |-> lo, hi |-> hi]
Size(s) == s.hi - s.lo + 1
BytesIn(m, s) == IF s.at = "nil" THEN <<>> ELSE SubSeq(m[s.at], s.lo, s.hi)
Bytes(s) == BytesIn(mem, s)

\* append(s, bs...): in place while the scratch area has room, behind whatever
\* else is there; otherwise into a new buffer, named heap.
Fits(s, bs) == s.at = "scratch" /\ s.hi + Len(bs) <= Capacity
Put(m, s, bs, heap) ==
    IF Fits(s, bs)
    THEN [m EXCEPT !.scratch = [k \in 1..Capacity |->
              IF k \in s.hi + 1..s.hi + Len(bs) THEN bs[k - s.hi] ELSE @[k]]]
    ELSE [m EXCEPT ![heap] = BytesIn(m, s) \o bs]
Grown(s, bs, heap) ==
    IF Fits(s, bs) THEN [s EXCEPT !.hi = @ + Len(bs)] ELSE Slice(heap, 1, Size(s) + Len(bs))

\* splitArg, which processPub and processMsgArgs repeat: the words of arg.
Blank == {"sp", "cr", "lf"}
splitArg(arg) ==
    LET bs == Bytes(arg)
        first(k) == bs[k] \notin Blank /\ (k = 1 \/ bs[k - 1] \in Blank)
        last(k) == bs[k] \notin Blank /\ (k = Len(bs) \/ bs[k + 1] \in Blank)
        starts == SeqExt!SetToSortSeq({k \in 1..Len(bs) : first(k)}, <)
        ends == SeqExt!SetToSortSeq({k \in 1..Len(bs) : last(k)}, <)
    IN [n \in 1..Len(starts) |-> Slice(arg.at, arg.lo + starts[n] - 1, arg.lo + ends[n] - 1)]

\* parseSize of one digit: the sizes of the streams are below ten.
Digits == <<"0", "1", "2", "3", "4", "5", "6", "7", "8", "9">>
parseSize(s) ==
    IF Size(s) = 1 /\ SeqExt!Contains(Digits, Bytes(s)[1])
    THEN (CHOOSE n \in 0..9 : Digits[n + 1] = Bytes(s)[1]) ELSE -1

NoPubArg == [subject |-> Nil, reply |-> Nil, sid |-> Nil, szb |-> Nil, size |-> 0]

-----------------------------------------------------------------------------
Init ==
    /\ sent \in Streams /\ taken = 0
    /\ authTimer = sent.auth /\ authSet = FALSE
    /\ mem = [buf |-> <<>>, scratch |-> [k \in 1..Capacity |-> "nul"], arg |-> <<>>,
              msg |-> <<>>]
    /\ at = "read" /\ i = 1
    /\ word = <<>> /\ phase = "op" /\ as = 1 /\ drop = 0
    /\ argBuf = Nil /\ msgBuf = Nil /\ pa = NoPubArg
    /\ done = <<>> /\ err = ""

\* The next read fills the read buffer with the next n bytes.
Read(n) ==
    /\ at = "read" /\ err = "" /\ n \in 1..Len(sent.bytes) - taken
    /\ mem' = [mem EXCEPT !.buf = SubSeq(sent.bytes, taken + 1, taken + n)]
    /\ taken' = taken + n
    /\ at' = "parse" /\ i' = 1
    /\ authSet' = authTimer
    /\ UNCHANGED <<sent, authTimer, word, phase, as, drop, argBuf, msgBuf, pa, done, err>>

\* What a step of the loop leaves alone, and where it goes.
Goto(w, p, j) == word' = w /\ phase' = p /\ i' = j
Rest == UNCHANGED <<sent, taken>>
Same == Rest /\ UNCHANGED <<authTimer, authSet, at, err>>

Fail(e) ==
    /\ err' = e /\ at' = "read"
    /\ Rest /\ UNCHANGED <<authTimer, authSet, i, word, phase, as, drop, held, done>>

Looping == at = "parse" /\ i <= Len(buf)

-----------------------------------------------------------------------------
(* Keywords *)

Spells(w) == \E k \in Keywords : SeqExt!IsPrefix(w, k)

\* The cases OP_START, OP_P, OP_PU ...: one more letter.  A client may not say
\* MSG, and nothing but CONNECT while it has not been authorized.
Letter ==
    /\ Looping /\ phase = "op" /\ word \notin Keywords
    /\ LET w == Append(word, b) IN
       IF word = <<>> /\ b # "C" /\ authSet THEN Fail("auth")
       ELSE IF ~Spells(w) \/ (sent.typ = "CLIENT" /\ w = <<"M">>) THEN Fail("parse")
       ELSE /\ Goto(w, "op", i + 1)
            /\ Same /\ UNCHANGED <<as, drop, held, done>>

\* OP_PING, OP_PONG, OP_PLUS_OK: anything up to the end of the line.
EndOfWord ==
    /\ Looping /\ phase = "op" /\ word \in NoArgs
    /\ IF b = "lf"
       THEN /\ done' = IF word = OK THEN done ELSE Append(done, [op |-> word])
            /\ Goto(<<>>, "op", i + 1) /\ drop' = 0
       ELSE Goto(word, "op", i + 1) /\ UNCHANGED <<drop, done>>
    /\ Same /\ UNCHANGED <<as, held>>

\* The blanks after the keyword, of which CONNECT and INFO need none.
Space ==
    /\ Looping /\ phase \in {"op", "spc"} /\ word \in Keywords \ NoArgs
    /\ IF phase = "op" /\ word \notin {CONNECT, INFO} /\ b # "sp" THEN Fail("parse")
       ELSE /\ IF b = "sp"
               THEN /\ Goto(word, IF word \in {CONNECT, INFO} THEN "op" ELSE "spc", i + 1)
                    /\ as' = as
               ELSE Goto(word, "arg", i + 1) /\ as' = i
            /\ Same /\ UNCHANGED <<drop, held, done>>

-----------------------------------------------------------------------------
(* Control lines *)

InArg(w) == Looping /\ phase = "arg" /\ word = w

\* A byte of the line; the argument is collected only once it has been cut.
ArgByte ==
    /\ Looping /\ phase = "arg" /\ b # "lf"
    /\ drop' = IF b = "cr" THEN 1 ELSE drop
    /\ IF argBuf # Nil /\ b # "cr"
       THEN argBuf' = Grown(argBuf, <<b>>, "arg") /\ mem' = Put(mem, argBuf, <<b>>, "arg")
       ELSE UNCHANGED <<argBuf, mem>>
    /\ Goto(word, "arg", i + 1)
    /\ Same /\ UNCHANGED <<as, msgBuf, pa, done>>

Arg == IF argBuf # Nil THEN argBuf ELSE Slice("buf", as, i - 1 - drop)

\* The line is complete and its operation accepts the argument or not.
LineEnds(w, accepted) ==
    /\ InArg(w) /\ b = "lf"
    /\ IF ~accepted THEN Fail("argument")
       ELSE /\ done' = Append(done, [op |-> w, arg |-> Bytes(Arg)])
            /\ Goto(<<>>, "op", i + 1)
            /\ argBuf' = Nil /\ drop' = 0
            /\ as' = IF w = CONNECT THEN as ELSE i + 1
            /\ authTimer' = (authTimer /\ w # CONNECT)
            /\ authSet' = (authSet /\ w # CONNECT)
            /\ Rest /\ UNCHANGED <<at, err, msgBuf, mem, pa>>

\* What json.Unmarshal accepts.
IsJSON(arg) == Size(arg) > 0 /\ Bytes(arg)[1] = "{"

SubArg == LineEnds(SUB, Len(splitArg(Arg)) \in {2, 3})
UnsubArg == LineEnds(UNSUB, Len(splitArg(Arg)) \in {1, 2})
ConnectArg == LineEnds(CONNECT, IsJSON(Arg))
InfoArg == LineEnds(INFO, IsJSON(Arg))
ErrArg == LineEnds(ERR, TRUE)

\* The message starts after the line: parse skips its bytes, as far as they are
\* in the read buffer.
MessageFollows(args, j) ==
    /\ pa' = args
    /\ as' = i + 1 /\ drop' = 0
    /\ Goto(word, "payload", j)
    /\ Same /\ UNCHANGED <<argBuf, msgBuf, mem, done>>

processPub(a) ==
    [pa EXCEPT !.subject = a[1], !.reply = IF Len(a) = 3 THEN a[2] ELSE Nil,
               !.szb = a[Len(a)], !.size = parseSize(a[Len(a)])]

processMsgArgs(a) ==
    [subject |-> a[1], sid |-> a[2], reply |-> IF Len(a) = 4 THEN a[3] ELSE Nil,
     szb |-> a[Len(a)], size |-> parseSize(a[Len(a)])]

\* Mutant: two bytes too far.
PubSkips_Far(p) == i + p.size + 2
\* The index after the line of a PUB: the last byte of the message.
PubSkips(p) == IF msgBuf = Nil THEN i + p.size ELSE i + 1

PubArg ==
    /\ InArg(PUB) /\ b = "lf"
    /\ LET a == splitArg(Arg) IN
       IF Len(a) \notin {2, 3} THEN Fail("argument")
       ELSE LET p == processPub(a) IN
            IF p.size < 0 THEN Fail("argument")
            ELSE IF MaxPayload > 0 /\ p.size > MaxPayload THEN Fail("payload")
            ELSE MessageFollows(p, PubSkips(p))

MsgArg ==
    /\ InArg(MSG) /\ b = "lf"
    /\ LET a == splitArg(Arg) IN
       IF Len(a) \notin {3, 4} THEN Fail("argument")
       ELSE LET p == processMsgArgs(a) IN
            IF p.size < 0 THEN Fail("argument")
            ELSE MessageFollows(p, i + 1 + p.size)

-----------------------------------------------------------------------------
(* Messages *)

\* MSG_PAYLOAD: copy what is there of a message that has been cut; of one that
\* has not, look whether all has been passed.
Payload ==
    /\ Looping /\ phase = "payload"
    /\ IF msgBuf # Nil
       THEN LET wanted == pa.size - Size(msgBuf)
                avail == Len(buf) - i + 1
                n == IF wanted <= 0 THEN 1 ELSE IF avail < wanted THEN avail ELSE wanted
                bs == SubSeq(buf, i, i + n - 1)
            IN /\ msgBuf' = Grown(msgBuf, bs, "msg")
               /\ mem' = Put(mem, msgBuf, bs, "msg")
               /\ Goto(word, IF Size(msgBuf') >= pa.size THEN "end" ELSE "payload", i + n)
       ELSE /\ Goto(word, IF i - as >= pa.size THEN "end" ELSE "payload", i + 1)
            /\ UNCHANGED <<msgBuf, mem>>
    /\ Same /\ UNCHANGED <<as, drop, argBuf, pa, done>>

processMsg(msg) ==
    [op |-> "message", subject |-> Bytes(pa.subject), reply |-> Bytes(pa.reply),
     sid |-> Bytes(pa.sid), szb |-> Bytes(pa.szb), msg |-> msg]

\* MSG_END: the message must end exactly where its size says.
End ==
    /\ Looping /\ phase = "end"
    /\ LET msg == IF msgBuf # Nil THEN Append(Bytes(msgBuf), b) ELSE SubSeq(buf, as, i) IN
       IF b # "lf"
       THEN /\ IF msgBuf # Nil
               THEN msgBuf' = Grown(msgBuf, <<b>>, "msg") /\ mem' = Put(mem, msgBuf, <<b>>, "msg")
               ELSE UNCHANGED <<msgBuf, mem>>
            /\ Goto(word, "end", i + 1)
            /\ Same /\ UNCHANGED <<as, drop, argBuf, pa, done>>
       ELSE IF Len(msg) # pa.size + 2 THEN Fail("parse")
       ELSE /\ done' = Append(done, processMsg(msg))
            /\ argBuf' = Nil /\ msgBuf' = Nil
            /\ drop' = 0 /\ as' = i + 1
            /\ Goto(<<>>, "op", i + 1)
            /\ Same /\ UNCHANGED <<pa, mem>>

-----------------------------------------------------------------------------
(* The end of what was read *)

\* A control line has been cut: keep its argument in c.scratch.
SplitArg ==
    /\ at = "parse" /\ i > Len(buf) /\ phase = "arg"
    /\ LET bs == SubSeq(buf, as, Len(buf) - drop)
           none == Slice("scratch", 1, 0)
           a == IF argBuf = Nil THEN Grown(none, bs, "arg") ELSE argBuf
       IN IF Size(a) > MaxControlLine THEN Fail("control line")
          ELSE /\ argBuf' = a
               /\ mem' = IF argBuf = Nil THEN Put(mem, none, bs, "arg") ELSE mem
               /\ at' = "read"
               /\ Rest /\ UNCHANGED <<authTimer, authSet, i, word, phase, as, drop, msgBuf, pa,
                                      done, err>>

\* clonePubArg: c.pa refers to the read buffer; copy its parts to c.scratch.
Clone == Bytes(pa.subject) \o Bytes(pa.reply) \o Bytes(pa.sid) \o Bytes(pa.szb)

\* Mutant: c.pa is left as it is.
clonePubArg_Shared(a) == pa
clonePubArg(a) ==
    LET n1 == Size(pa.subject)
        n2 == n1 + Size(pa.reply)
        n3 == n2 + Size(pa.sid)
        part(s, lo, hi) == IF s = Nil THEN Nil ELSE Slice(a.at, lo + 1, hi)
    IN [subject |-> Slice(a.at, 1, n1), reply |-> part(pa.reply, n1, n2),
        sid |-> part(pa.sid, n2, n3), szb |-> Slice(a.at, n3 + 1, Size(a)), size |-> pa.size]

\* A message has been cut: keep its beginning behind the argument in c.scratch,
\* or in a buffer of its own if that is too small.
SplitMsg ==
    /\ at = "parse" /\ i > Len(buf) /\ phase \in {"payload", "end"} /\ msgBuf = Nil
    /\ LET none == Slice("scratch", 1, 0)
           a == IF argBuf = Nil THEN Grown(none, Clone, "arg") ELSE argBuf
           m == IF argBuf = Nil THEN Put(mem, none, Clone, "arg") ELSE mem
           bs == SubSeq(buf, as, Len(buf))
           large == pa.size > Capacity - Size(a)
           behind == Slice("scratch", Size(a) + 1, Size(a))
       IN IF large /\ Len(bs) > pa.size + 2 THEN Fail("parse")
          ELSE /\ argBuf' = a
               /\ pa' = IF argBuf = Nil THEN clonePubArg(a) ELSE pa
               /\ msgBuf' = IF large THEN Slice("msg", 1, Len(bs)) ELSE Grown(behind, bs, "msg")
               /\ mem' = IF large THEN [m EXCEPT !.msg = bs] ELSE Put(m, behind, bs, "msg")
               /\ at' = "read"
               /\ Rest /\ UNCHANGED <<authTimer, authSet, i, word, phase, as, drop, done, err>>

ReadMore ==
    /\ at = "parse" /\ i > Len(buf)
    /\ phase \in {"op", "spc"} \/ (phase \in {"payload", "end"} /\ msgBuf # Nil)
    /\ at' = "read"
    /\ Rest /\ UNCHANGED <<authTimer, authSet, i, word, phase, as, drop, held, done, err>>

-----------------------------------------------------------------------------
Next ==
    \/ \E n \in 1..Len(sent.bytes) : Read(n)
    \/ Letter \/ EndOfWord \/ Space \/ ArgByte
    \/ SubArg \/ UnsubArg \/ ConnectArg \/ InfoArg \/ ErrArg \/ PubArg \/ MsgArg
    \/ Payload \/ End \/ SplitArg \/ SplitMsg \/ ReadMore

Spec == Init /\ [][Next]_vars

-----------------------------------------------------------------------------
(* Properties *)

InMemory(s) == s.at = "nil" \/ (s.at \in DOMAIN mem /\ s.lo \in 1..s.hi + 1 /\ s.hi <= Len(mem[s.at]))

\* Every slice parse holds lies inside the memory it refers to.
TypeOK ==
    /\ taken \in 0..Len(sent.bytes) /\ at \in {"read", "parse"}
    /\ drop \in {0, 1} /\ as \in Nat /\ i \in Nat
    /\ Spells(word) /\ phase \in {"op", "spc", "arg", "payload", "end"}
    /\ InMemory(argBuf) /\ InMemory(msgBuf)

\* However the bytes of the peer are cut into reads, the operations processed
\* are the ones it sent, in order, with the arguments and the payload it sent,
\* and the connection is closed exactly where it breaks the protocol.  Only a
\* line over MaxControlLine is refused or not depending on where it is cut.
ProcessesWhatWasSent ==
    /\ SeqExt!IsPrefix(done, sent.expect)
    /\ (err # "" => IF err = "control line" THEN sent.long
                    ELSE err = sent.bad /\ done = sent.expect)
    /\ (taken = Len(sent.bytes) /\ at = "read" /\ err = "" =>
            sent.bad = "" /\ done = sent.expect)

\* Between two reads parse refers to nothing in the read buffer, which the next
\* read overwrites.
NothingLeftInBuffer ==
    at = "read" /\ err = "" /\ phase \in {"payload", "end"} =>
        \A s \in {argBuf, msgBuf, pa.subject, pa.reply, pa.szb} : s.at # "buf"

\* What is kept of a control line between two reads is at most MaxControlLine.
ControlLineBounded == at = "read" /\ err = "" /\ phase = "arg" => Size(argBuf) <= MaxControlLine

\* What parse keeps for the next read is its own, and bounded.
KeptIsSafe == NothingLeftInBuffer /\ ControlLineBounded
=============================================================================
