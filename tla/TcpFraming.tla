----------------------------- MODULE TcpFraming -----------------------------
(***************************************************************************)
(* How a TCP reader finds the SIP messages in a byte stream: it reads what *)
(* is there into the buffer of the connection, follows the header lines    *)
(* with an automaton until the empty line, then waits for as many bytes as *)
(* the Content-Length header said.  What is left in the buffer after a     *)
(* message is the beginning of the next.  A read may end anywhere.         *)
(*                                                                         *)
(* A stream is a sequence of tokens: line feed, carriage return, blank,    *)
(* colon, a digit, the name of the length header in either form (the       *)
(* states H_CONT_LEN1 to H_CONT_LEN13 spell it out) and any other byte.    *)
(***************************************************************************)
EXTENDS Naturals, Sequences, SequencesExt, FiniteSetsExt

CONSTANTS
  Streams,    \* the streams that may arrive
  BufSize     \* TCP_BUF_SIZE

VARIABLES
  stream,     \* what the other side sends
  arrived,    \* how much of it has been read
  req,        \* struct tcp_req
  received    \* the messages given to receive_msg

vars == <<stream, arrived, req, received>>

Digits == {"0", "1", "2"}
Value(d) == CASE d = "0" -> 0 [] d = "1" -> 1 [] d = "2" -> 2
Blank == {"LF", "CR", "SP"}

\* init_tcp_req: buf up to pos, and parsed and start as counts of bytes.
EmptyReq ==
  [buf |-> <<>>, parsed |-> 0, start |-> 0, state |-> "SKIP_EMPTY", content_len |-> 0,
   has_content_len |-> FALSE, bytes_to_go |-> 0, complete |-> FALSE, error |-> "OK"]

Init ==
  /\ stream \in Streams
  /\ arrived = 0 /\ req = EmptyReq /\ received = <<>>

(***************************************************************************)
(* tcp_read_headers.                                                       *)
(***************************************************************************)
crlf_default_skip_case(b) == IF b = "LF" THEN "LF" ELSE "SKIP"

content_len_beg_case(r, b, other) ==
  CASE b = "SP" -> IF r.has_content_len THEN "SKIP" ELSE "STARTWS"
    [] b = "N"  -> IF r.has_content_len THEN "SKIP" ELSE "L_COLON"
    [] OTHER    -> other

\* The empty line: the body follows, or the message is complete, or its end
\* cannot be found.
EndOfHeaders(r) ==
  IF r.has_content_len
    THEN [r EXCEPT !.state = "BODY", !.bytes_to_go = r.content_len,
                   !.complete = (r.content_len = 0)]
    ELSE [r EXCEPT !.state = "BODY", !.error = "BAD_LEN"]

\* One byte b of the headers.
HeaderByte(r, b) ==
  CASE r.state = "SKIP" -> [r EXCEPT !.state = crlf_default_skip_case(b)]
    [] r.state = "LF" ->
         IF b = "LF" THEN EndOfHeaders(r)
         ELSE [r EXCEPT !.state = IF b = "CR" THEN "LFCR" ELSE content_len_beg_case(r, b, "SKIP")]
    [] r.state = "LFCR" -> IF b = "LF" THEN EndOfHeaders(r) ELSE [r EXCEPT !.state = "SKIP"]
    [] r.state = "STARTWS" ->
         [r EXCEPT !.state = content_len_beg_case(r, b, crlf_default_skip_case(b))]
    [] r.state = "SKIP_EMPTY" ->
         IF b \in Blank THEN r
         ELSE [r EXCEPT !.state = IF b = "N" THEN "L_COLON" ELSE "SKIP", !.start = r.parsed]
    [] r.state = "L_COLON" ->
         [r EXCEPT !.state = CASE b = "SP" -> "L_COLON"
                               [] b = ":" -> "CONT_LEN_BODY"
                               [] OTHER -> crlf_default_skip_case(b)]
    [] r.state = "CONT_LEN_BODY" ->
         CASE b = "SP" -> r
           [] b \in Digits -> [r EXCEPT !.state = "CONT_LEN_BODY_PARSE", !.content_len = Value(b)]
           [] OTHER -> [r EXCEPT !.state = crlf_default_skip_case(b)]
    [] r.state = "CONT_LEN_BODY_PARSE" ->
         CASE b \in Digits -> [r EXCEPT !.content_len = @ * 10 + Value(b)]
           [] b \in Blank -> [r EXCEPT !.state = crlf_default_skip_case(b),
                                       !.has_content_len = TRUE]
           [] OTHER -> [r EXCEPT !.state = "SKIP"]

\* The bytes of the body that are there.
Body(r) ==
  LET remaining == Min({Len(r.buf) - r.parsed, r.bytes_to_go})
  IN [r EXCEPT !.parsed = @ + remaining, !.bytes_to_go = @ - remaining,
               !.complete = (remaining = r.bytes_to_go)]

RECURSIVE tcp_read_headers(_)
tcp_read_headers(r) ==
  IF r.parsed = Len(r.buf) \/ r.error # "OK" \/ r.complete THEN r
  ELSE tcp_read_headers(
         IF r.state = "BODY" THEN Body(r)
         ELSE [HeaderByte(r, r.buf[r.parsed + 1]) EXCEPT !.parsed = @ + 1])

(***************************************************************************)
(* tcp_read_req.                                                           *)
(***************************************************************************)
\* Mutant: the length of the message before it is kept.
PrepareKeepsLength(r) ==
  [EmptyReq EXCEPT !.buf = SubSeq(r.buf, r.parsed + 1, Len(r.buf)),
                   !.has_content_len = r.has_content_len, !.content_len = r.content_len]

\* Prepare for the next request: the bytes after this one are moved to the
\* front.
PrepareNext(r) == [EmptyReq EXCEPT !.buf = SubSeq(r.buf, r.parsed + 1, Len(r.buf))]

\* The messages that are complete are handed on one by one.
RECURSIVE HandleAll(_, _)
HandleAll(r, out) ==
  LET q == tcp_read_headers(r)
  IN IF ~q.complete THEN <<q, out>>
     ELSE LET msg == SubSeq(q.buf, q.start + 1, q.parsed)
              next == PrepareNext(q)
          IN IF next.buf = <<>> THEN <<next, Append(out, msg)>>
             ELSE HandleAll(next, Append(out, msg))

\* The connection has bytes: as many as happen to be there and fit are read
\* and looked at.
tcp_read_req(n) ==
  /\ req.error = "OK" /\ arrived + n <= Len(stream)
  /\ n <= BufSize - Len(req.buf)
  /\ LET read == [req EXCEPT !.buf = @ \o SubSeq(stream, arrived + 1, arrived + n)]
         done == HandleAll(read, received)
     IN req' = done[1] /\ received' = done[2]
  /\ arrived' = arrived + n
  /\ UNCHANGED stream

\* tcp_read finds no room in the buffer.
Overrun ==
  /\ req.error = "OK" /\ arrived < Len(stream) /\ Len(req.buf) = BufSize
  /\ req' = [req EXCEPT !.error = "OVERRUN"]
  /\ UNCHANGED <<stream, arrived, received>>

Next == Overrun \/ \E n \in 1..BufSize : tcp_read_req(n)

Spec == Init /\ [][Next]_vars

(***************************************************************************)
(* What a message is, without an automaton.                                *)
(***************************************************************************)
\* Positions of t from i on where p holds; the least one, or none.
FirstFrom(t, i, p(_)) ==
  LET s == {k \in i..Len(t) : p(k)} IN IF s = {} THEN Len(t) + 1 ELSE Min(s)

\* The run of tokens of t in set s that starts at i ends before this place.
After(t, i, s) == FirstFrom(t, i, LAMBDA k : t[k] \notin s)

\* The line of t from i on is a length header whose value is closed by a
\* blank or a line end: its value, or none.
LengthAt(t, i) ==
  LET name == After(t, i, {"SP"})
      colon == After(t, name + 1, {"SP"})
      value == After(t, colon + 1, {"SP"})
      end == After(t, value, Digits)
  IN IF /\ end <= Len(t) /\ value < end /\ t[end] \in Blank
        /\ t[name] = "N" /\ t[colon] = ":"
       THEN {FoldLeft(LAMBDA n, d : n * 10 + Value(d), 0, SubSeq(t, value, end - 1))}
       ELSE {}

\* The messages at the beginning of t, and whether what follows them can
\* never be one: a header part without a length.
RECURSIVE MessagesIn(_)
MessagesIn(t) ==
  LET start == After(t, 1, Blank)
      \* the line feed that ends the empty line
      empty == FirstFrom(t, start, LAMBDA k :
                 t[k] = "LF" /\ \/ k > start + 1 /\ t[k-1] = "LF"
                                \/ k > start + 2 /\ t[k-1] = "CR" /\ t[k-2] = "LF")
      lines == {start} \cup {k \in (start + 1)..empty : t[k-1] = "LF"}
      sized == {k \in lines : LengthAt(SubSeq(t, 1, empty), k) # {}}
      size == CHOOSE n \in LengthAt(t, Min(sized)) : TRUE
  IN IF empty > Len(t) THEN <<>>
     ELSE IF sized = {} THEN <<"bad">>
     ELSE IF empty + size > Len(t) THEN <<>>
     ELSE <<SubSeq(t, start, empty + size)>>
          \o MessagesIn(SubSeq(t, empty + size + 1, Len(t)))

(***************************************************************************)
(* Properties.                                                             *)
(***************************************************************************)
\* However the stream is cut into reads, what has been handed on is exactly
\* the messages that are complete in the bytes that arrived, each whole and
\* by itself, and the stream is given up for its length headers exactly
\* when a message has none.
Framed ==
  received \o (IF req.error = "BAD_LEN" THEN <<"bad">> ELSE <<>>)
    = MessagesIn(SubSeq(stream, 1, arrived))
=============================================================================
