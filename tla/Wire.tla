--------------------------------- MODULE Wire ---------------------------------
(***************************************************************************)
(* The wire protocol side of one logical connection (wasmpg/pgproto.go,    *)
(* Conn.Write and handleLocally in wasmpg/conn.go, sessionOutcome in       *)
(* wasmpg/mux.go).  pgx writes a byte stream in chunks that respect no     *)
(* message boundary; Write reassembles the messages, answers the startup   *)
(* phase and Terminate itself, watches Query and Parse for LISTEN, and     *)
(* hands the rest to the backend; each reply is searched for notifications *)
(* and for the session's transaction status.                               *)
(*                                                                         *)
(* A byte stream is a sequence of cells: a type, a length (which counts    *)
(* itself and what follows, in cells), a request code, a character, "NUL". *)
(***************************************************************************)
EXTENDS Listen

CONSTANTS Scripts,     \* what pgx writes: sequences of frontend messages
          Replies(_),  \* what the round trips of a script may return
          maxMessageSize

VARIABLES script, unsent, \* the messages, and the cells not yet written
          wbuf, startup,  \* c.wbuf, c.startup
          wpc,            \* where Write is: "idle", "decode" or "error"
          forward,        \* the cells this Write has gathered for the backend
          life,           \* "open", "eof" or "closed"
          backend,        \* the batches the backend has been handed, in order
          answers,        \* what the shim has answered by itself, in order
          listens,        \* the operations applied to the routing table, in order
          reply, clean, inline, status \* the last reply, and what was made of it

replyVars == <<reply, clean, inline, status>>
wireVars == <<script, unsent, wbuf, startup, wpc, forward, life, backend,
              answers, listens, replyVars>>

startupCodes == {"ssl", "gss", "cancel", "v3"}
Untyped(m) == m.typ \in startupCodes

\* A message as it crosses the wire; bad is what is wrong with its length.
Payload(m) ==
    CASE m.typ = "Q" -> Sql(m.sql) \o <<"NUL">>
      [] m.typ = "P" -> m.name \o <<"NUL">> \o Sql(m.sql) \o <<"NUL", "oids">>
      [] OTHER       -> m.body

Raw(m) ==
    LET body == Payload(m)
    IN  IF Untyped(m) THEN <<Len(body) + 2, m.typ>> \o body
        ELSE <<m.typ, CASE m.bad = "small" -> 0
                        [] m.bad = "large" -> maxMessageSize + 1
                        [] OTHER           -> Len(body) + 1>> \o body

RawAll(ms) == FlattenSeq([i \in DOMAIN ms |-> Raw(ms[i])])

\* What pgx may write: first the untyped messages of the startup phase, which
\* asking for encryption or cancelling does not end; texts that PostgreSQL would
\* cut as they were put together; messages of a size the length word can say,
\* but for one whose length word is wrong.
WellFormed(m) ==
    /\ IsSequence(Payload(m))
    /\ m.typ \in {"Q", "P"} => LegalText(m.sql)
    /\ m.typ = "P" => IsSequence(m.name) /\ "NUL" \notin ToSet(m.name)
    /\ m.bad \in {"no", "small", "large"}
    /\ Untyped(m) => m.bad = "no"
    /\ m.bad = "no" => Len(Payload(m)) + (IF Untyped(m) THEN 2 ELSE 1) <= maxMessageSize

ASSUME ScriptsAssumption ==
    /\ maxMessageSize \in Nat
    /\ \A ms \in Scripts :
         /\ IsSequence(ms) /\ ms # <<>>
         /\ \A i \in DOMAIN ms : WellFormed(ms[i])
         /\ \A i \in DOMAIN ms \ {1} :
              Untyped(ms[i]) <=> ms[i - 1].typ \in {"ssl", "gss", "cancel"}

-----------------------------------------------------------------------------
\* The codec

Partial == [n |-> 0, err |-> FALSE]
Framing == [n |-> 0, err |-> TRUE]
Complete(n) == [n |-> n, err |-> FALSE]

\* The type byte left out of the count.
nextFrontendMessage_NoTypeByte(buf) ==
    LET length == IF startup THEN buf[1] ELSE buf[2]
    IN  CASE Len(buf) < 2                          -> Partial
          [] Len(buf) >= 2 /\ length < (IF startup THEN 2 ELSE 1) -> Framing
          [] Len(buf) >= 2 /\ length > maxMessageSize -> Framing
          [] OTHER -> IF Len(buf) < length THEN Partial
                      ELSE Complete(length)

\* How many cells of buf its first message takes; none while it is partial.
nextFrontendMessage(buf) ==
    LET length == IF startup THEN buf[1] ELSE buf[2]
        total == IF startup THEN length ELSE length + 1
    IN  CASE Len(buf) < 2                          -> Partial
          [] Len(buf) >= 2 /\ length < (IF startup THEN 2 ELSE 1) -> Framing
          [] Len(buf) >= 2 /\ length > maxMessageSize -> Framing
          [] OTHER -> IF Len(buf) < total THEN Partial
                      ELSE Complete(total)

\* Where the first NUL is, or 0 (cstring).
CStringEnd(s) == LET nul == {i \in DOMAIN s : s[i] = "NUL"}
                 IN  IF nul = {} THEN 0 ELSE Min(nul)

sql(msg) ==
    LET query(s) == IF CStringEnd(s) = 0 THEN <<>> ELSE SubSeq(s, 1, CStringEnd(s) - 1)
        body == SubSeq(msg, 3, Len(msg))
    IN  CASE msg[1] = "Q" -> query(body)
          [] msg[1] = "P" -> IF CStringEnd(body) = 0 THEN <<>>
                             ELSE query(From(body, CStringEnd(body) + 1))
          [] OTHER -> <<>>

\* Where the first complete backend frame of buf ends, or 0.
nextBackendMessage(buf) ==
    IF Len(buf) >= 2 /\ buf[2] \in 1..maxMessageSize /\ Len(buf) >= buf[2] + 1
    THEN buf[2] + 1 ELSE 0

Frame(f) == <<f.typ, Len(f.body) + 1>> \o f.body
FrameAll(fs) == FlattenSeq([i \in DOMAIN fs |-> Frame(fs[i])])

\* What a round trip may return: whole frames, and what has arrived of another.
\* A notification is a pid and two strings; one that is not well-formed has not
\* the two NULs that would end them.
CString(s) == s \o <<"NUL">>
NoNul(s) == \A i \in DOMAIN s : s[i] # "NUL"

WellFormedFrame(f) ==
    /\ IsSequence(f.body) /\ Len(f.body) + 1 <= maxMessageSize
    /\ f.typ = "A" /\ f.wellFormed =>
         /\ IsSequence(f.note.channel) /\ NoNul(f.note.channel)
         /\ IsSequence(f.note.payload) /\ NoNul(f.note.payload)
         /\ f.note = [channel |-> f.note.channel, payload |-> f.note.payload]
         /\ f.body = <<"pid">> \o (CString(f.note.channel) \o CString(f.note.payload))
    /\ f.typ = "A" /\ ~f.wellFormed =>
         \A i, j \in 2..Len(f.body) : f.body[i] = "NUL" /\ f.body[j] = "NUL" => i = j

ASSUME RepliesAssumption ==
    \A ms \in Scripts : \A r \in Replies(ms) :
      /\ IsSequence(r.frames) /\ \A i \in DOMAIN r.frames : WellFormedFrame(r.frames[i])
      /\ IsSequence(r.tail) /\ nextBackendMessage(r.tail) = 0

\* The frames of a reply, and what is left when framing is lost.
Frames(buf) ==
    LET split[i \in 1..Len(buf) + 1] ==
          LET total == nextBackendMessage(From(buf, i))
          IN  IF i > Len(buf) THEN <<>>
              ELSE IF total = 0 THEN <<From(buf, i)>>
              ELSE <<SubSeq(buf, i, i + total - 1)>> \o split[i + total]
    IN  split[1]

IsWhole(frame) == nextBackendMessage(frame) = Len(frame) /\ frame # <<>>

decodeNotification(body) ==
    LET rest == Tail(body)
        text == From(rest, CStringEnd(rest) + 1)
    IN  IF body = <<>> THEN {}
        ELSE IF CStringEnd(rest) = 0 \/ CStringEnd(text) = 0 THEN {}
        ELSE {[channel |-> SubSeq(rest, 1, CStringEnd(rest) - 1),
               payload |-> SubSeq(text, 1, CStringEnd(text) - 1)]}
\* splitNotifications: the reply without its NotificationResponse frames, and
\* the notifications that were in them; a partial frame stays where it is.
Stays(frame) == ~IsWhole(frame) \/ frame[1] # "A"

splitNotifications(buf) ==
    LET frames == Frames(buf)
    IN  [clean |-> FlattenSeq([i \in DOMAIN frames |-> IF Stays(frames[i]) THEN frames[i] ELSE <<>>]),
         found |-> UNION {decodeNotification(From(f, 3)) : f \in {x \in ToSet(frames) : ~Stays(x)}}]

IsReady(frame) == IsWhole(frame) /\ frame[1] = "Z" /\ Len(frame) = 3

\* Where the frames of a reply report the session's state.
Reports(frames) == {i \in DOMAIN frames : IsReady(frames[i])}

\* The first report in the reply, where a batch has several.
lastReadyForQuery_First(buf) ==
    LET frames == Frames(buf)
    IN  IF Reports(frames) = {} THEN "none" ELSE frames[Min(Reports(frames))][3]

lastReadyForQuery(buf) ==
    LET frames == Frames(buf)
    IN  IF Reports(frames) = {} THEN "none" ELSE frames[Max(Reports(frames))][3]

sessionOutcome(buf) == IF lastReadyForQuery(buf) = "I" THEN "idle" ELSE "inTx"

-----------------------------------------------------------------------------
\* Conn.Write

WireInit ==
    /\ script \in Scripts
    /\ unsent = RawAll(script)
    /\ wbuf = <<>> /\ startup = Untyped(script[1]) /\ wpc = "idle" /\ forward = <<>>
    /\ life = "open"
    /\ backend = <<>> /\ answers = <<>> /\ listens = <<>>
    /\ reply = [frames |-> <<>>, tail |-> <<>>]
    /\ clean = <<>> /\ inline = {} /\ status = "idle"

\* pgx writes its next n cells.
Write(n) ==
    /\ wpc = "idle" /\ life = "open"
    /\ n \in 1..Len(unsent)
    /\ wbuf' = wbuf \o SubSeq(unsent, 1, n)
    /\ unsent' = From(unsent, n + 1)
    /\ forward' = <<>>
    /\ wpc' = "decode"
    /\ UNCHANGED <<script, startup, life, backend, answers, listens, replyVars>>

Next1 == nextFrontendMessage(wbuf)
Message == SubSeq(wbuf, 1, Next1.n)
Decoded == wpc = "decode" /\ ~Next1.err /\ Next1.n > 0
consume == wbuf' = From(wbuf, Next1.n + 1)

\* submit: one round trip, unless the connection has closed.
Submitted ==
    /\ life = "open"
    /\ backend' = backend \o forward
    /\ forward' = <<>>
    /\ reply' \in Replies(script)
    /\ LET out == FrameAll(reply'.frames) \o reply'.tail
       IN  /\ clean' = splitNotifications(out).clean
           /\ inline' = splitNotifications(out).found
           /\ status' = sessionOutcome(out)

\* The round trip fails, or finds the connection closed: Write returns an error
\* and the batch is gone.
SubmitFails ==
    /\ forward # <<>>
    /\ forward' = <<>> /\ wpc' = "error"
    /\ UNCHANGED <<backend, replyVars>>

\* What is delivered to a connection that has gone is dropped.
deliver(a) == answers' = IF life = "open" THEN answers \o a ELSE answers

\* Framing is lost: an error in the backend's manner, and the end.
FramingLost ==
    /\ wpc = "decode" /\ Next1.err
    /\ deliver(<<"error">>)
    /\ life' = IF life = "open" THEN "closed" ELSE life
    /\ wpc' = "error"
    /\ UNCHANGED <<script, unsent, wbuf, startup, forward, backend, listens, replyVars>>

\* The rest of the buffer is less than a message: flush, and return.
WriteReturns ==
    /\ wpc = "decode" /\ ~Next1.err /\ Next1.n = 0
    /\ \/ forward = <<>> /\ wpc' = "idle" /\ UNCHANGED <<backend, forward, replyVars>>
       \/ forward # <<>> /\ wpc' = "idle" /\ Submitted
       \/ SubmitFails
    /\ UNCHANGED <<script, unsent, wbuf, startup, life, answers, listens>>

\* handleLocally in the startup phase.
AnswerStartup ==
    /\ Decoded /\ startup
    /\ consume
    /\ LET code == Message[2]
       IN  /\ deliver(CASE code \in {"ssl", "gss"} -> <<"N">>
                        [] code = "cancel"         -> <<>>
                        [] OTHER                   -> <<"handshake">>)
           /\ startup' = (code \in {"ssl", "gss", "cancel"})
           /\ life' = IF code = "cancel" /\ life = "open" THEN "closed" ELSE life
    /\ UNCHANGED <<script, unsent, wpc, forward, backend, listens, replyVars>>

\* Terminate stops here: what was gathered before it is still owed a reply.
AnswerTerminate ==
    /\ Decoded /\ ~startup /\ Message[1] = "X"
    /\ consume
    /\ \/ /\ forward = <<>>
          /\ life' = IF life = "open" THEN "eof" ELSE life
          /\ UNCHANGED <<wpc, backend, forward, replyVars>>
       \/ /\ forward # <<>> /\ Submitted
          /\ life' = "eof"
          /\ UNCHANGED wpc
       \/ SubmitFails /\ UNCHANGED life
    /\ UNCHANGED <<script, unsent, startup, answers, listens>>

\* Everything else goes on to the backend; Query and Parse are read for LISTEN.
Gather ==
    /\ Decoded /\ ~startup /\ Message[1] # "X"
    /\ consume
    /\ listens' = listens \o observeListen(sql(Message))
    /\ forward' = forward \o Message
    /\ UNCHANGED <<script, unsent, startup, wpc, life, backend, answers, replyVars>>

\* Another goroutine closes the connection; Multiplexer has the shutdown's parts.
Close ==
    /\ life = "open"
    /\ life' = "closed"
    /\ UNCHANGED <<script, unsent, wbuf, startup, wpc, forward, backend, answers,
                   listens, replyVars>>

WireNext ==
    \/ \E n \in DOMAIN unsent : Write(n)
    \/ FramingLost \/ WriteReturns \/ AnswerStartup \/ AnswerTerminate \/ Gather
    \/ Close

WireSpec == WireInit /\ [][WireNext]_wireVars

-----------------------------------------------------------------------------
\* What the connection promises, in terms of messages

Fatal(m) == m.typ \in {"X", "cancel"} \/ m.bad # "no"
Forwardable(m) == ~Untyped(m) /\ ~Fatal(m)

\* The messages that count: up to the one that ends the connection.
Counting(ms) ==
    LET ends == {i \in DOMAIN ms : Fatal(ms[i])}
    IN  IF ends = {} THEN ms ELSE SubSeq(ms, 1, Min(ends) - 1)

\* The messages pgx has written whole.
WrittenWhole ==
    LET written == Len(RawAll(script)) - Len(unsent)
        whole == {k \in 0..Len(script) : Len(RawAll(SubSeq(script, 1, k))) <= written}
    IN  SubSeq(script, 1, Max(whole))

AnswerTo(m) == CASE m.typ \in {"ssl", "gss"} -> <<"N">>
                 [] m.typ = "v3"             -> <<"handshake">>
                 [] OTHER                    -> <<>>

Meant(m) == IF m.typ \notin {"Q", "P"} THEN <<>>
            ELSE FlattenSeq([i \in DOMAIN m.sql |->
                   IF Meaning(m.sql[i]) = NoOp THEN <<>> ELSE <<Meaning(m.sql[i])>>])

Forwarded(ms) == FlattenSeq([i \in DOMAIN ms |-> IF Forwardable(ms[i]) THEN Raw(ms[i]) ELSE <<>>])
AnswersTo(ms) == FlattenSeq([i \in DOMAIN ms |-> AnswerTo(ms[i])])
ListensIn(ms) == FlattenSeq([i \in DOMAIN ms |-> Meant(ms[i])])

\* However pgx's bytes are cut into writes, when a Write has returned every
\* message written whole has had its effect, once and in order: the backend has
\* been handed the forwardable ones and the shim has answered the others; and
\* at no time does the backend see part of a message, a message out of order,
\* or anything behind a Terminate, a cancel or lost framing
\* (nextFrontendMessage, Conn.Write, handleLocally).
StreamReassembled ==
    /\ IsPrefix(backend, Forwarded(Counting(script)))
    /\ wpc = "idle" /\ life = "open" =>
         backend = Forwarded(WrittenWhole) /\ answers = AnswersTo(WrittenWhole)

\* Each LISTEN and UNLISTEN of the statements handed over has been applied, in
\* order and under the channel the backend knows it by, and nothing that a
\* literal, a quoted name, a dollar-quoted body or a comment merely mentions
\* (observeListen, splitStatements, skipLeading, parseIdentifier).
ListensObserved ==
    wpc = "idle" /\ life = "open" => listens = ListensIn(WrittenWhole)

\* Of a reply the connection reads everything but the notifications, those are
\* all found, and the lock follows the last report of the session's state: idle
\* only when the backend has said so last (splitNotifications,
\* lastReadyForQuery, sessionOutcome).
ReplyRead ==
    reply.frames # <<>> =>
      LET fs == reply.frames
          reports == {i \in DOMAIN fs : fs[i].typ = "Z" /\ Len(fs[i].body) = 1}
      IN  /\ clean = FlattenSeq([i \in DOMAIN fs |-> IF fs[i].typ = "A" THEN <<>> ELSE Frame(fs[i])])
                       \o reply.tail
          /\ inline = {f.note : f \in {x \in ToSet(fs) : x.typ = "A" /\ x.wellFormed}}
          /\ status = "idle" <=> reports # {} /\ fs[Max(reports)].body = <<"I">>
=============================================================================
