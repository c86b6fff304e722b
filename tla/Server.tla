------------------------------- MODULE Server -------------------------------
(***************************************************************************)
(* LSMServer: the RESP parser, the command handlers and the callback that  *)
(* muduo's loop thread runs for whatever has arrived on a connection.      *)
(*                                                                         *)
(* A byte is a string; "CR" and "LF" end a line.  TCP keeps the order of a *)
(* connection's bytes and nothing else: a callback may find part of a      *)
(* request, or the rest of one and the next.  The loop thread is the only  *)
(* caller of the database, so a handler is one step; what it sees of       *)
(* DBImpl is a memtable and a cache in front of it.  Sizes, hashes and     *)
(* the order of use are left out, so that any SET may flush the memtable   *)
(* and any key new to the cache may push another one out of it.            *)
(***************************************************************************)
EXTENDS Integers, Sequences, SequencesExt, FiniteSets, Functions

CONSTANTS
    Conns,          \* connections
    Chars,          \* the bytes that mean nothing to the protocol
    Commands,       \* what clients ask: sequences of byte strings
    Raw,            \* what they send that is not in RESP
    MaxSends,       \* bound: requests sent
    Cuts,           \* bound: the lengths of the parts of it that may arrive alone
    MaxCuts         \* bound: how often that happens

VARIABLES
    wire,       \* wire[c]: the bytes sent and not yet arrived
    buf,        \* buf[c]: the bytes that have arrived, muduo's input buffer
    asked,      \* asked[c]: the command c waits to be answered, or NoCommand
    answer,     \* answer[c]: the last answer c received
    mem_table,  \* the memtable: a value for every key written
    cached,     \* the cache: a value for every key inserted
    proc,       \* "up" or "down"
    sends, cuts,        \* how much of each bound is used
    misread,    \* history: has a callback found anything but one request that can be read?
    acked,      \* history: the values of the SETs of a key that were answered +OK
    fresh,      \* history: those since the last DEL of the key was answered
    erased,     \* history: the keys of DELs, and of SETs that were answered with an error
    recent      \* history: the keys of SETs and DELs since the memtable was last flushed

dbVars == <<mem_table, cached>>
historyVars == <<misread, acked, fresh, erased, recent>>
boundVars == <<sends, cuts>>
vars == <<wire, buf, asked, answer, dbVars, proc, boundVars, historyVars>>

(***************************************************************************)
(* The RESP protocol.                                                      *)
(***************************************************************************)
CRLF == <<"CR", "LF">>
Digit == <<"0", "1", "2", "3", "4", "5", "6", "7", "8", "9">>
DigitOf(n) == Digit[n + 1]
Byte == Chars \cup ToSet(Digit) \cup {"STAR", "DOLLAR", "SP", "MINUS", "CR", "LF"}

\* A client's request: lengths below ten take one digit.
Encode(args) ==
    <<"STAR", DigitOf(Len(args))>> \o CRLF
        \o FlattenSeq([i \in 1 .. Len(args) |->
                          <<"DOLLAR", DigitOf(Len(args[i]))>> \o CRLF \o args[i] \o CRLF])

\* The first position from i on, counting from 0, where the byte is not one
\* of set; the length of s if there is none.
Skip(s, i, set) ==
    CHOOSE j \in i .. Len(s) :
        /\ \A k \in i + 1 .. j : s[k] \in set
        /\ j < Len(s) => s[j + 1] \notin set

\* What std::stoi reads from position i on: blanks, a sign, digits.  It
\* throws when there are no digits.
Number(s, i) ==
    LET start == Skip(s, i, {"SP", "CR", "LF"})
        minus == start < Len(s) /\ s[start + 1] = "MINUS"
        first == IF minus THEN start + 1 ELSE start
    IN  [minus |-> minus, digits |-> SubSeq(s, first + 1, Skip(s, first, ToSet(Digit)))]

Throws(s, i) == Number(s, i).digits = <<>>

Stoi(s, i) ==
    LET value == FoldLeft(LAMBDA n, d : 10 * n + (CHOOSE x \in 0 .. 9 : DigitOf(x) = d),
                          0, Number(s, i).digits)
    IN  IF Number(s, i).minus THEN -value ELSE value

\* find('\n', pos) + 1, which is 0 when there is none: npos + 1 wraps.
AfterLine(s, pos) == SelectInSubSeq(s, pos + 1, Len(s), LAMBDA b : b = "LF")

\* A negative length is a huge one for substr, which stops at the end.
Substr(s, pos, len) ==
    SubSeq(s, pos + 1, IF len < 0 \/ pos + len > Len(s) THEN Len(s) ELSE pos + len)

\* Mutant: a length is taken to count the end of the line too.
NextArg_OnePast(s, pos) ==
    LET p == AfterLine(s, pos) IN [arg |-> Substr(s, p, Stoi(s, pos + 1) + 1), pos |-> AfterLine(s, p)]

\* One round of the loop.  The next one starts behind the first newline
\* after the start of this argument, be it inside the argument or not.
NextArg(s, pos) ==
    LET p == AfterLine(s, pos) IN [arg |-> Substr(s, p, Stoi(s, pos + 1)), pos |-> AfterLine(s, p)]

\* parseRESP.  Whatever it cannot read, by a check or by an exception, ends
\* it with the arguments found so far.
ParseRESP(s) ==
    LET n == Stoi(s, 1)
        from[i \in Nat] ==
            [pos \in Nat |->
                IF i >= n \/ pos >= Len(s) \/ s[pos + 1] # "DOLLAR" \/ Throws(s, pos + 1)
                THEN <<>>
                ELSE LET a == NextArg(s, pos) IN <<a.arg>> \o from[i + 1][a.pos]]
    IN  IF s[1] # "STAR" \/ Throws(s, 1) THEN <<>> ELSE from[0][AfterLine(s, 0)]

(***************************************************************************)
(* The database as the handlers see it.                                    *)
(***************************************************************************)
Set(f, k, v) == [x \in DOMAIN f \cup {k} |-> IF x = k THEN v ELSE f[x]]

\* The memtable has the value.
Written(db, k, v) == [mem |-> Set(db.mem, k, v), cache |-> db.cache]

\* What inserting into the cache may leave: it keeps the value it has for a
\* key, and may push out another one for a new key.
Inserted(cache, k, v) ==
    IF k \in DOMAIN cache THEN {cache}
    ELSE {Set(Restrict(cache, kept), k, v) :
              kept \in {DOMAIN cache} \cup {DOMAIN cache \ {x} : x \in DOMAIN cache}}

\* Past its checks, Put inserts into the cache and may flush the memtable.
Stored(db, k, v) ==
    {[mem |-> mem, cache |-> cache] :
        mem \in {Set(db.mem, k, v), <<>>}, cache \in Inserted(db.cache, k, v)}

PutSucceeds(k, v) == k # <<>> /\ v # <<>>

\* Mutant: the arguments are looked at first.
Put_ChecksFirst(db, k, v) == IF PutSucceeds(k, v) THEN Stored(db, k, v) ELSE {db}

\* Mutant: the cache is filled before the arguments are looked at.
Put_CachesFirst(db, k, v) == Stored(db, k, v)

\* Put: the databases it may leave.  It writes the memtable before it looks
\* at its arguments.
Put(db, k, v) == IF PutSucceeds(k, v) THEN Stored(db, k, v) ELSE {Written(db, k, v)}

(***************************************************************************)
(* Handlers.  Each returns the answers it may give, with what it has made  *)
(* of db.                                                                  *)
(***************************************************************************)
Answer(kind, val) == [kind |-> kind, val |-> val]
Error == Answer("error", <<>>)
Reply(db, a) == [db |-> db, answer |-> a, down |-> FALSE]

\* Mutant: the value is taken from the place of the key.
HandleSet_SameArg(db, args) ==
    IF Len(args) # 3 THEN {Reply(db, Error)}
    ELSE {Reply(d, IF PutSucceeds(args[2], args[2]) THEN Answer("ok", <<>>) ELSE Error) :
              d \in Put(db, args[2], args[2])}

HandleSet(db, args) ==
    IF Len(args) # 3 THEN {Reply(db, Error)}
    ELSE {Reply(d, IF PutSucceeds(args[2], args[3]) THEN Answer("ok", <<>>) ELSE Error) :
              d \in Put(db, args[2], args[3])}

\* Get looks in the cache and in the memtable; a key in neither takes the
\* process down on the way to the sst files.
HandleGet(db, args) ==
    IF Len(args) # 2 \/ (Len(args) = 2 /\ args[2] = <<>>) THEN {Reply(db, Error)}
    ELSE LET k == args[2] IN
         IF k \in DOMAIN db.cache THEN {Reply(db, Answer("bulk", db.cache[k]))}
         ELSE IF k \in DOMAIN db.mem THEN {Reply(db, Answer("bulk", db.mem[k]))}
         ELSE {[db |-> db, answer |-> Error, down |-> TRUE]}

\* DEL is a Put of the empty string for every key, which gets no further
\* than the memtable; it counts the Puts that succeed.
HandleDel(db, args) ==
    IF Len(args) < 2 THEN {Reply(db, Error)}
    ELSE {Reply(FoldLeft(LAMBDA d, k : Written(d, k, <<>>), db, Tail(args)),
                Answer("int", Cardinality({i \in 2 .. Len(args) : PutSucceeds(args[i], <<>>)})))}

\* handleRequest with the commands of initCommandHandlers.
HandleRequest(db, s) ==
    LET args == ParseRESP(s) IN
    CASE s = <<"P", "I", "N", "G">> \o CRLF -> {Reply(db, Answer("pong", <<>>))}
      [] s # <<"P", "I", "N", "G">> \o CRLF /\ args = <<>> -> {Reply(db, Error)}
      [] args # <<>> ->
           CASE args[1] = <<"S", "E", "T">> -> HandleSet(db, args)
             [] args[1] = <<"G", "E", "T">> -> HandleGet(db, args)
             [] args[1] = <<"D", "E", "L">> -> HandleDel(db, args)
             [] OTHER -> {Reply(db, Error)}

(***************************************************************************)
(* The connections.                                                        *)
(***************************************************************************)
NoCommand == <<>>
Requests == Commands \cup {<<bytes>> : bytes \in Raw}

\* No argument but the last has a newline, which would end it for parseRESP.
Plain(m) == \A i \in 1 .. Len(m) - 1 : ~Contains(m[i], "LF")

\* Every count and length has one digit, as Encode writes it.
ASSUME RequestAssumption ==
    \A m \in Requests :
        /\ m \in Seq(Seq(Byte))
        /\ Len(m) \in 1 .. 9
        /\ \A i \in 1 .. Len(m) : Len(m[i]) <= 9

ASSUME BoundAssumption == MaxSends \in Nat /\ MaxCuts \in Nat

Init ==
    /\ wire = [c \in Conns |-> <<>>]
    /\ buf = [c \in Conns |-> <<>>]
    /\ asked = [c \in Conns |-> NoCommand]
    /\ answer = [c \in Conns |-> Answer("none", <<>>)]
    /\ mem_table = <<>>
    /\ cached = <<>>
    /\ proc = "up"
    /\ sends = 0
    /\ cuts = 0
    /\ misread = FALSE
    /\ acked = <<>>
    /\ fresh = <<>>
    /\ erased = {}
    /\ recent = {}

Waits(c) == asked[c] # NoCommand

\* A client sends a request when it has the answer to the one before.
Send(c) ==
    /\ proc = "up"
    /\ ~Waits(c)
    /\ sends < MaxSends
    /\ sends' = sends + 1
    /\ \/ \E m \in Commands :
              asked' = [asked EXCEPT ![c] = m] /\ wire' = [wire EXCEPT ![c] = @ \o Encode(m)]
       \/ \E bytes \in Raw :
              asked' = [asked EXCEPT ![c] = <<bytes>>] /\ wire' = [wire EXCEPT ![c] = @ \o bytes]
    /\ UNCHANGED <<buf, answer, dbVars, proc, cuts, historyVars>>

\* Bytes arrive, in order, all that were sent or the first of them.
Arrive(c) ==
    /\ \E s \in Prefixes(wire[c]) \ {<<>>} :
           /\ s # wire[c] => cuts < MaxCuts /\ Len(s) \in Cuts
           /\ cuts' = IF s = wire[c] THEN cuts ELSE cuts + 1
           /\ buf' = [buf EXCEPT ![c] = @ \o s]
           /\ wire' = [wire EXCEPT ![c] = SubSeq(@, Len(s) + 1, Len(@))]
    /\ UNCHANGED <<asked, answer, dbVars, proc, sends, historyVars>>

IsSet(m) == Len(m) = 3 /\ m[1] = <<"S", "E", "T">>
IsDel(m) == Len(m) >= 2 /\ m[1] = <<"D", "E", "L">>

\* What a client knows once m is answered with a.
Remember(m, a) ==
    LET old(f, k) == IF k \in DOMAIN f THEN f[k] ELSE {} IN
    /\ erased' = erased \cup (IF IsDel(m) THEN ToSet(Tail(m))
                              ELSE IF IsSet(m) /\ a = Error THEN {m[2]} ELSE {})
    /\ recent' = IF mem_table' = <<>> THEN {}
                 ELSE recent \cup (IF IsDel(m) THEN ToSet(Tail(m))
                                   ELSE IF IsSet(m) THEN {m[2]} ELSE {})
    /\ IF IsSet(m) /\ a.kind = "ok"
       THEN /\ acked' = Set(acked, m[2], old(acked, m[2]) \cup {m[3]})
            /\ fresh' = Set(fresh, m[2], old(fresh, m[2]) \cup {m[3]})
       ELSE /\ UNCHANGED acked
            /\ fresh' = [k \in DOMAIN fresh |->
                            IF IsDel(m) /\ k \in ToSet(Tail(m)) THEN {} ELSE fresh[k]]

\* Mutant: a request that is an error gets no answer.
Sent_NoErrors(c, a) ==
    IF a = Error THEN UNCHANGED <<answer, asked>>
    ELSE /\ answer' = [answer EXCEPT ![c] = a]
         /\ asked' = [asked EXCEPT ![c] = NoCommand]

\* conn->send.
Sent(c, a) ==
    /\ answer' = [answer EXCEPT ![c] = a]
    /\ asked' = [asked EXCEPT ![c] = NoCommand]

\* buf->retrieveAllAsString().
RetrieveAll(c) ==
    /\ proc = "up"
    /\ buf[c] # <<>>
    /\ buf' = [buf EXCEPT ![c] = <<>>]

\* All that c has sent has arrived, and it is a request whose arguments can
\* be told apart, or nothing parseRESP takes for one.
Readable(c) ==
    /\ wire[c] = <<>>
    /\ \/ buf[c] = Encode(asked[c]) /\ Plain(asked[c])
       \/ <<buf[c]>> = asked[c] /\ ParseRESP(buf[c]) = <<>>

\* onMessage takes all that has arrived from c and gives one answer to it,
\* whatever it is.
OnMessage(c) ==
    /\ RetrieveAll(c)
    /\ misread' = (misread \/ ~Readable(c))
    /\ \E r \in HandleRequest([mem |-> mem_table, cache |-> cached], buf[c]) :
       /\ mem_table' = r.db.mem
       /\ cached' = r.db.cache
       /\ IF r.down
          THEN proc' = "down" /\ UNCHANGED <<asked, answer, acked, fresh, erased, recent>>
          ELSE /\ UNCHANGED proc
               /\ Sent(c, r.answer)
               /\ Remember(asked[c], r.answer)
    /\ UNCHANGED <<wire, boundVars>>

Next == \E c \in Conns : Send(c) \/ Arrive(c) \/ OnMessage(c)

\* What is sent arrives, and the loop thread comes back to every connection
\* that has bytes.  Only OnMessage(c) empties buf[c], and it can whenever
\* RetrieveAll(c) can, so this is the weak fairness of OnMessage(c).
Spec ==
    /\ Init
    /\ [][Next]_vars
    /\ \A c \in Conns : WF_vars(Arrive(c)) /\ WF_buf(RetrieveAll(c))

(***************************************************************************)
(* Properties.                                                             *)
(***************************************************************************)
IsGet(m) == Len(m) = 2 /\ m[1] = <<"G", "E", "T">>

\* Every variable has the type of its C++ counterpart.  The cache holds no
\* empty value.
TypeOK ==
    /\ \A c \in Conns :
           /\ asked[c] \in Requests \cup {NoCommand}
           /\ answer[c].kind \in {"none", "pong", "error", "ok", "bulk", "int"}
    /\ proc \in {"up", "down"}
    /\ misread \in BOOLEAN
    /\ cuts \in 0 .. MaxCuts
    /\ sends \in 0 .. MaxSends
    /\ \A k \in DOMAIN cached : cached[k] # <<>>

\* parseRESP is the inverse of the encoding for a request that arrives in
\* one piece, also when its last argument has newlines or looks like RESP.
ParseInverts ==
    \A c \in Conns :
        buf[c] = Encode(asked[c]) /\ Waits(c) /\ Plain(asked[c]) => ParseRESP(buf[c]) = asked[c]

\* As long as every request arrives in one piece and can be read, a GET that
\* is answered answers one of the values the key was SET to, whichever
\* connection did so and whatever was flushed or evicted since, or the empty
\* value if the key is one that was erased.
GetsAnswerSets ==
    [][\A c \in Conns :
        IsGet(asked[c]) /\ ~Waits(c)' /\ ~misread' /\ asked[c][2] # <<>> =>
            LET k == asked[c][2] IN
            /\ answer'[c].kind = "bulk"
            /\ answer'[c].val \in (IF k \in DOMAIN acked THEN acked[k] ELSE {})
                                    \cup (IF k \in erased THEN {<<>>} ELSE {})]_vars

\* A key that some client has named in a SET or a DEL, accepted or refused,
\* can be asked for until the memtable is flushed: as long as every request
\* can be read, the server goes down only for a GET of a key that nobody has
\* named since.
RecentKeysAnswered ==
    proc = "down" /\ ~misread =>
        \E c \in Conns : IsGet(asked[c]) /\ buf[c] = <<>> /\ asked[c][2] \notin recent

\* Whoever waits gets an answer, however TCP has cut or joined what was
\* sent, unless the process goes down.
Answered == \A c \in Conns : Waits(c) ~> (~Waits(c) \/ proc = "down")

(***************************************************************************)
(* What the repository says of the program and the code does not do.       *)
(***************************************************************************)

\* DEL deletes by writing a marker: a later GET answers no value that was
\* SET before.
DelDeletes ==
    [][\A c \in Conns :
        IsGet(asked[c]) /\ ~Waits(c)' /\ ~misread' /\ answer'[c].kind = "bulk" =>
            LET k == asked[c][2] IN
            answer'[c].val \in {<<>>} \cup (IF k \in DOMAIN fresh THEN fresh[k] ELSE {})]_vars
=============================================================================
