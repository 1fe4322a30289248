-------------------------------- MODULE Http --------------------------------
(***************************************************************************)
(* The client's side of HTTP (src/src/bitcoin/rpcprotocol.cpp): reading    *)
(* one reply after the other from a connection that may be cut anywhere.   *)
(*                                                                         *)
(* A stream is a sequence of lines and of bytes of a body.  Each counts as *)
(* one character where a body is read; a line with bytes in front of it is *)
(* neither empty nor a header that anybody knows.                          *)
(***************************************************************************)
EXTENDS Integers, Sequences

CONSTANTS MaxLength,    \* MAX_SIZE
          Replies,      \* what a peer may send in a row
          MaxReplies,
          Close, KeepAlive, Other   \* values of headers that are not numbers

HTTP_OK == 200
HTTP_INTERNAL_SERVER_ERROR == 500

StatusLine(code, proto) == [is |-> "status", code |-> code, proto |-> proto]
Header(name, value) == [is |-> "header", name |-> name, value |-> value]
Blank == [is |-> "blank"]
Body(bytes) == [i \in DOMAIN bytes |-> [is |-> "byte", byte |-> bytes[i]]]

\* A reply as its peer means it, and on the wire.
Reply(code, proto, headers, body) == [code |-> code, proto |-> proto, headers |-> headers, body |-> body]
OnWire(r) == <<StatusLine(r.code, r.proto)>> \o r.headers \o <<Blank>> \o Body(r.body)

\* The second word of a line that has two: of a header line it is the value,
\* of which atoi makes zero if it is none.  One word leaves the protocol alone.
Number(value) == IF value \in {Close, KeepAlive, Other} THEN 0 ELSE value

ASSUME HttpAssumption ==
  /\ MaxLength \in Nat /\ MaxReplies \in Nat /\ Close # KeepAlive
  /\ \A r \in Replies :
       /\ r.headers = [i \in 1 .. Len(r.headers) |-> Header(r.headers[i].name, r.headers[i].value)]
       /\ r.body = [i \in 1 .. Len(r.body) |-> r.body[i]]
       /\ Len(r.headers) \in Nat /\ Len(r.body) \in Nat
       /\ \A i \in 1 .. Len(r.headers) : Number(r.headers[i].value) \in Int

VARIABLES wire,      \* what can still be read
          replies,   \* what the peer meant to send
          cut,       \* how much of it was lost
          turn,      \* of the replies: how many have been read, "status" or "message" next
          got        \* what the calls returned last

httpVars == <<wire, replies, cut, turn, got>>

\* The characters up to the end of a line, the lines that nothing spoils, and
\* the empty line that ends the headers.
IsLine(s, i) == s[i].is # "byte"
IsClean(s, i) == IsLine(s, i) /\ (i = 1 \/ IsLine(s, i - 1))
Earliest(places) == CHOOSE i \in places : \A j \in places : i <= j
Lines(s) == {i \in DOMAIN s : IsLine(s, i)}
After(s, i) == SubSeq(s, i + 1, Len(s))
LineEnd(s) == IF Lines(s) = {} THEN Len(s) ELSE Earliest(Lines(s))
Blanks(s) == {i \in DOMAIN s : IsClean(s, i) /\ s[i].is = "blank"}
EndOfHeaders(s) == IF Blanks(s) = {} THEN Len(s) + 1 ELSE Earliest(Blanks(s))
HeaderLines(s) == {i \in 1 .. EndOfHeaders(s) - 1 : IsClean(s, i) /\ s[i].is = "header"}

\* Bytes in front of the line change neither its second word nor what is looked
\* for in it.
ReadHTTPStatus(s, proto) ==
  LET rest == After(s, LineEnd(s))
      line == IF Lines(s) = {} THEN Blank ELSE s[Earliest(Lines(s))]
  IN CASE line.is = "status" -> [status |-> line.code, proto |-> line.proto, rest |-> rest]
       [] line.is = "header" -> [status |-> Number(line.value), proto |-> 0, rest |-> rest]
       [] line.is = "blank" -> [status |-> HTTP_INTERNAL_SERVER_ERROR, proto |-> proto, rest |-> rest]

\* The last header of a name counts.
LastOfName(s, name) ==
  LET at == {i \in HeaderLines(s) : s[i].name = name} IN s[CHOOSE i \in at : \A j \in at : j <= i].value
\* Slip: the headers of the reply before are still in the map.
HeadersAdded(s, old) ==
  LET names == {s[i].name : i \in HeaderLines(s)}
  IN [n \in names \cup DOMAIN old |-> IF n \in names THEN LastOfName(s, n) ELSE old[n]]
Headers(s, old) == [n \in {s[i].name : i \in HeaderLines(s)} |-> LastOfName(s, n)]
Length(headers) == IF "content-length" \in DOMAIN headers THEN Number(headers["content-length"]) ELSE 0

Connection(headers, proto) ==
  [n \in DOMAIN headers \cup {"connection"} |->
     IF n # "connection" THEN headers[n]
     ELSE IF n \in DOMAIN headers /\ headers[n] \in {Close, KeepAlive} THEN headers[n]
     ELSE IF proto >= 1 THEN KeepAlive ELSE Close]

\* What the stream does not give stays zero, and nobody asks the stream.
ReadBody(s, n) == [i \in 1 .. n |-> IF i <= Len(s) THEN s[i] ELSE [is |-> "zero"]]
ReadHTTPMessage(s, old, proto) ==
  LET headers == Headers(s, old)
      nLen == Length(headers)
      rest == After(s, EndOfHeaders(s))
  IN IF nLen < 0 \/ nLen > MaxLength
     THEN [ret |-> HTTP_INTERNAL_SERVER_ERROR, headers |-> headers, message |-> <<>>, rest |-> rest]
     ELSE [ret |-> HTTP_OK, headers |-> Connection(headers, proto), message |-> ReadBody(rest, nLen),
           rest |-> After(rest, nLen)]

-----------------------------------------------------------------------------
NotYet == [status |-> 0, proto |-> 0, ret |-> 0, headers |-> <<>>, message |-> <<>>]
\* What the first k replies are on the wire.
Sent(rs) ==
  LET sent[k \in 0 .. Len(rs)] == IF k = 0 THEN <<>> ELSE sent[k - 1] \o OnWire(rs[k])
  IN sent
Wires(rs) == Sent(rs)[Len(rs)]

HttpInit ==
  /\ replies = <<>> /\ wire = <<>> /\ cut = 0
  /\ turn = [read |-> 0, next |-> "status"] /\ got = NotYet

\* The peer answers; of what it sends the end may be lost.
Connect ==
  /\ replies = <<>>
  /\ \E n \in 1 .. MaxReplies : replies' \in [1 .. n -> Replies]
  /\ \E lost \in 0 .. Len(Wires(replies')) :
       /\ cut' = lost
       /\ wire' = SubSeq(Wires(replies'), 1, Len(Wires(replies')) - lost)
  /\ UNCHANGED <<turn, got>>

ReadStatus ==
  /\ turn.next = "status" /\ turn.read < Len(replies)
  /\ LET r == ReadHTTPStatus(wire, got.proto)
     IN /\ got' = [got EXCEPT !.status = r.status, !.proto = r.proto]
        /\ wire' = r.rest
  /\ turn' = [turn EXCEPT !.next = "message"]
  /\ UNCHANGED <<replies, cut>>

ReadMessage ==
  /\ turn.next = "message"
  /\ LET r == ReadHTTPMessage(wire, got.headers, got.proto)
     IN /\ got' = [got EXCEPT !.ret = r.ret, !.headers = r.headers, !.message = r.message]
        /\ wire' = r.rest
  /\ turn' = [read |-> turn.read + 1, next |-> "status"]
  /\ UNCHANGED <<replies, cut>>

Disconnect ==
  /\ replies # <<>> /\ turn.next = "status"
  /\ replies' = <<>> /\ wire' = <<>> /\ cut' = 0
  /\ turn' = [read |-> 0, next |-> "status"] /\ got' = NotYet

HttpNext == Connect \/ ReadStatus \/ ReadMessage \/ Disconnect
HttpSpec == HttpInit /\ [][HttpNext]_httpVars

-----------------------------------------------------------------------------
\* Properties.
NameOf(r) == {r.headers[i].name : i \in DOMAIN r.headers}
\* The peer announces the length of its body, once.
Sound(r) ==
  LET announced == {i \in DOMAIN r.headers : r.headers[i].name = "content-length"}
  IN /\ Len(r.body) <= MaxLength
     /\ IF announced = {} THEN Len(r.body) = 0
        ELSE \E i \in announced : announced = {i} /\ Len(r.body) = Number(r.headers[i].value)
Sending(k) == Len(Sent(replies)[k])
Arrived == Len(Wires(replies)) - cut
InStep == (\A i \in 1 .. turn.read : Sound(replies[i])) /\ Sending(turn.read) <= Arrived
JustRead == turn.read > 0 /\ turn.next = "status"

\* Replies that announce their length and arrive are read as they were meant,
\* one after the other, and reading the one leaves the next as it was sent.
RepliesInStep ==
  JustRead /\ InStep =>
    LET r == replies[turn.read]
    IN /\ got.status = r.code /\ got.proto = r.proto /\ got.ret = HTTP_OK
       /\ got.message = Body(r.body)
       /\ wire = SubSeq(Wires(replies), Sending(turn.read) + 1, Arrived)

\* A reply that is cut short is read to the length it announces: the call says
\* HTTP_OK, and what is missing is zero.
CutIsPadded ==
  JustRead /\ got.ret = HTTP_OK =>
    /\ Len(got.message) = Length(got.headers)
    /\ \A i \in DOMAIN got.message :
         got.message[i].is = "zero" => wire = <<>> /\ \A j \in i .. Len(got.message) : got.message[j].is = "zero"

\* The headers of a reply are its own: none is left from the reply before,
\* unless the two have come out of step.
OwnHeaders ==
  JustRead /\ InStep => DOMAIN got.headers \subseteq NameOf(replies[turn.read]) \cup {"connection"}

\* Every reply that is taken says whether the connection stays, and stays only
\* if the peer says so or speaks a protocol that means it.
ConnectionSettled ==
  JustRead /\ got.ret = HTTP_OK =>
    /\ got.headers["connection"] \in {Close, KeepAlive}
    /\ got.headers["connection"] = KeepAlive =>
         got.proto >= 1 \/ \E r \in {replies[i] : i \in DOMAIN replies} : Header("connection", KeepAlive) \in {r.headers[i] : i \in DOMAIN r.headers}

\* Of replies in a row each is read as it was sent, with its own headers and its
\* own decision about the connection, or padded to its length if it is cut.
RepliesAreTheirOwn == RepliesInStep /\ CutIsPadded /\ OwnHeaders /\ ConnectionSettled
=============================================================================
