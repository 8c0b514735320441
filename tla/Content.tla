------------------------------ MODULE Content -------------------------------
(***************************************************************************)
(* The body of a response on its way from the server to the client: it is  *)
(* tunnelled (FDTunnel::tunnel), or downloaded by the default download     *)
(* manager into memory or a temporary file (DataBuffer::in), uncompressed, *)
(* shown to the content scanners and the phrase filter, changed            *)
(* (contentFilter), and written out (DataBuffer::out), the rest of one     *)
(* that is too big being tunnelled after it.  The server may stop sending  *)
(* for longer than a timeout or close the connection at any point, data    *)
(* arrives in pieces of any size, and the client may leave.                *)
(*                                                                         *)
(* A byte is its place in the body.  A line (the size of a chunk) arrives  *)
(* whole.  Only the default download manager is supported in this version. *)
(***************************************************************************)
EXTENDS Integers, Sequences, FiniteSets, SequencesExt, FiniteSetsExt

CONSTANTS
  Responses,   \* [kind, n, chunks, gzip, text]: kind is "length", "close" or "chunked"
  Configs,     \* [check, scanners, filter, ram, file, block, forgiving]
  None

VARIABLES
  resp, conf,  \* the response; the limits, and whether it is checked at all
  last,        \* how much of it the server sends
  sock,        \* proxysock: what was read, what is buffered, the chunk, what went wrong
  d,           \* the DataBuffer and the variables of dminstance::in
  cm,          \* the flags of the NaughtyFilter
  peer,        \* what the client was sent, whether it has gone
  through,     \* FDTunnel::throughput
  persistProxy,
  step

contentvars == <<resp, conf, last, sock, d, cm, peer, through, persistProxy, step>>

-----------------------------------------------------------------------------
(* What the server sends. *)
Tokens == [kind : {"byte", "size", "cr", "lf", "blank", "plain", "changed", "end", "pad"}, n : Int]
Token(kind, n) == [kind |-> kind, n |-> n]
Byte(i) == Token("byte", i)
Bytes(m, n) == [i \in 1 .. n - m |-> Byte(m + i)]

(* The bytes in the first i chunks, and the chunks as they are sent. *)
Upto(chunks) ==
  LET u[i \in 0 .. Len(chunks)] == IF i = 0 THEN 0 ELSE u[i - 1] + chunks[i]
  IN  u

Framed(chunks) ==
  LET f[i \in 0 .. Len(chunks)] ==
        IF i = 0 THEN <<>>
        ELSE f[i - 1] \o <<Token("size", chunks[i])>> \o Bytes(Upto(chunks)[i - 1], Upto(chunks)[i])
                      \o <<Token("cr", 0), Token("lf", 0)>>
  IN  f

Chunked(chunks) == Framed(chunks)[Len(chunks)] \o <<Token("size", 0), Token("blank", 0)>>

(* A chunk is not empty; the sizes of the chunks add up to the size of the *)
(* body.  With scanners, the limits are in order, or the program does not  *)
(* start (OptionContainer.cpp:501 and :508).                               *)
ASSUME ContentAssumption ==
  /\ \A r \in Responses :
       /\ r.kind \in {"length", "close", "chunked"} /\ r.n \in Nat
       /\ r.gzip \in BOOLEAN /\ r.text \in BOOLEAN
       /\ r.kind = "chunked" => /\ r.chunks \in Seq(Nat \ {0})
                                /\ r.n = Upto(r.chunks)[Len(r.chunks)]
  /\ \A c \in Configs :
       /\ c.check \in BOOLEAN /\ c.bypass \in BOOLEAN /\ c.forgiving \in BOOLEAN
       /\ c.scanners \in Nat /\ c.filter \in Nat /\ c.ram \in Nat /\ c.file \in Nat
       /\ c.block \in Nat \ {0}
       /\ c.scanners > 0 => c.filter <= c.ram /\ c.ram <= c.file
  /\ None \notin {"stall", "closed", "split"} /\ None \notin Seq(Tokens)

Stream == [r \in Responses |-> IF r.kind = "chunked" THEN Chunked(r.chunks) ELSE Bytes(0, r.n)]
S == Stream[resp]

Body == Bytes(0, resp.n)
Inflated == [i \in 1 .. 2 * resp.n |-> Token("plain", i)]
Changed(s) == [i \in 1 .. Len(s) + 1 |-> Token("changed", i)]

contentLength == IF resp.kind = "length" THEN resp.n ELSE -1
Closes == last < Len(S) \/ resp.kind = "close"

NoBuffer == [data |-> <<>>, compressed |-> <<>>, file |-> <<>>, toobig |-> FALSE, got_all |-> FALSE,
             remaining |-> 0]
NoVerdict == [checked |-> FALSE, naughty |-> FALSE, exception |-> FALSE, shown |-> None, left |-> 0,
              docsize |-> 0, modified |-> FALSE, paused |-> FALSE]

(* The header was read, and with it up to the whole of the body. *)
ContentInit ==
  /\ resp \in Responses
  /\ conf \in Configs
  /\ last \in 0 .. Len(S)
  /\ sock \in [pos : {0}, buf : 0 .. last, chunk : {0}, fault : {None}]
  /\ d = [NoBuffer EXCEPT !.remaining = contentLength]
  /\ cm = NoVerdict
  /\ peer = [out |-> <<>>, header |-> "none", gone |-> FALSE]
  /\ through = 0
  /\ persistProxy = (resp.kind # "close")
  /\ step = "start"

-----------------------------------------------------------------------------
(* Reading from proxysock: the ways a read can end, with the return code   *)
(* rc and the place at which the next one begins.                          *)
Smallest(m, n) == IF m < n THEN m ELSE n

At(s, n, buf) == [s EXCEPT !.pos = @ + n, !.buf = buf]
Fault(s, what) == [s EXCEPT !.fault = IF @ = None THEN what ELSE @]
Ended(s) == IF last < Len(S) THEN Fault(s, "closed") ELSE s
Result(s, rc) == [sock |-> s, rc |-> rc]

(* readFromSocket: what is buffered, and then what is there; if nothing    *)
(* comes in time, what was buffered is lost.                               *)
readFromSocket(s, k) ==
  IF s.buf >= k THEN {Result(At(s, k, s.buf - k), k)}
  ELSE {Result(At(s, s.buf + x, 0), s.buf + x) : x \in 1 .. Smallest(k, last - s.pos) - s.buf}
       \cup {Result(Fault(At(s, s.buf, 0), "stall"), -1)}
       \cup (IF Closes /\ s.pos + s.buf = last THEN {Result(Ended(At(s, s.buf, 0)), s.buf)} ELSE {})

(* bufferReadFromSocket: until there are k, or a read fails. *)
bufferReadFromSocket(s, k) ==
  LET there == last - s.pos
      some == IF s.buf = 0 THEN 0 .. Smallest(k - 1, there) ELSE s.buf + 1 .. Smallest(k - 1, there)
  IN  IF s.buf >= k THEN {Result(At(s, k, s.buf - k), k)}
      ELSE (IF there >= k THEN {Result(At(s, k, 0), k)} ELSE {})
           \cup {Result(Fault(At(s, x, 0), "stall"), IF x = 0 THEN -1 ELSE x) : x \in some}
           \cup (IF s.buf > 0 THEN {Result(Fault(At(s, s.buf, 0), "stall"), -1)} ELSE {})
           \cup (IF Closes /\ there < k THEN {Result(Ended(At(s, there, 0)), there)} ELSE {})

(* getLine: it reads ahead. *)
getLine(s) ==
  IF s.buf > 0 THEN {Result(At(s, 1, s.buf - 1), 1)}
  ELSE {Result(At(s, 1, x), 1) : x \in 0 .. last - s.pos - 1}
       \cup {Result(Fault(s, "stall"), 0)}
       \cup (IF Closes /\ s.pos = last THEN {Result(Ended(s), 0)} ELSE {})

(* The size of the next chunk, unless one is being read. *)
ChunkSize(s) ==
  IF s.chunk # 0 THEN {Result(s, 1)}
  ELSE {Result([r.sock EXCEPT !.chunk = IF r.rc = 1 THEN S[s.pos + 1].n ELSE 0], r.rc) : r \in getLine(s)}

(* The two bytes behind a chunk; what was read of the chunk is lost when   *)
(* they do not come together.                                              *)
ChunkTail(s, rc) ==
  {IF r.rc = 2 THEN Result(r.sock, rc)
   ELSE Result(IF r.rc = 1 THEN Fault(r.sock, "split") ELSE r.sock, -1) : r \in readFromSocket(s, 2)}

readChunk(s, maxlen) ==
  UNION {IF r.rc < 1 THEN {Result(r.sock, -1)}
         ELSE IF r.sock.chunk = 0 THEN {Result(e.sock, 0) : e \in getLine(r.sock)}
         ELSE UNION {LET t == [b.sock EXCEPT !.chunk = @ - b.rc]
                     IN  IF b.rc < 0 THEN {b}
                         ELSE IF t.chunk > 0 THEN {Result(t, b.rc)}
                         ELSE ChunkTail(t, b.rc)
                       : b \in readFromSocket(r.sock, Smallest(r.sock.chunk, maxlen))}
           : r \in ChunkSize(s)}

(* The bytes a read of rc bytes that began at s has brought. *)
Got(s, rc) ==
  LET from == IF resp.kind = "chunked" /\ s.chunk = 0 THEN s.pos + 1 ELSE s.pos
  IN  SubSeq(S, from + 1, from + rc)

-----------------------------------------------------------------------------
(* check_content: a body that nobody wants to look at is tunnelled. *)
Start ==
  LET looks == conf.check /\ contentLength # 0 /\ (conf.scanners > 0 \/ resp.text)
  IN  /\ step = "start"
      /\ cm' = [cm EXCEPT !.checked = looks]
      /\ step' = IF looks THEN "loop" ELSE "header"
      /\ UNCHANGED <<resp, conf, last, sock, d, peer, through, persistProxy>>

wantall == conf.scanners > 0
geteverything == resp.kind # "length"
More == step = "loop" /\ (d.remaining > 0 \/ geteverything)

(* The client has waited: the first line of the header, to keep it there. *)
Trickle ==
  /\ More
  /\ peer.header = "none"
  /\ peer' = [peer EXCEPT !.header = "first"]
  /\ UNCHANGED <<resp, conf, last, sock, d, cm, through, persistProxy, step>>

Swapping == wantall /\ d.file = <<>> /\ Len(d.data) > conf.ram
Over == IF wantall THEN Len(d.file) > conf.file ELSE Len(d.data) > conf.filter

(* Too big for the limits, or no temporary file can be made. *)
TooBig ==
  /\ More
  /\ Over \/ Swapping
  /\ d' = [d EXCEPT !.toobig = TRUE]
  /\ step' = "inflate"
  /\ UNCHANGED <<resp, conf, last, sock, cm, peer, through, persistProxy>>

(* A mutant: the file begins with the block after the ones in memory. *)
SwappedEmpty(e) == [e EXCEPT !.file = SubSeq(e.data, Len(e.data), Len(e.data))]

(* The data goes to a temporary file. *)
Swapped(e) == [e EXCEPT !.file = e.data]

newsize(e) ==
  LET most == IF e.file = <<>> /\ Len(e.data) < conf.block THEN conf.block ELSE Len(e.data)
  IN  IF geteverything THEN most ELSE Smallest(most, e.remaining)

(* What was read is appended; once there is a file, the memory is only the *)
(* block that is read into.                                                *)
Stored(e, got) ==
  LET f == [e EXCEPT !.remaining = @ - Len(got)]
  IN  IF e.file = <<>> THEN [f EXCEPT !.data = @ \o got]
      ELSE [f EXCEPT !.file = @ \o got, !.data = got \o SubSeq(@, Len(got) + 1, Len(@))]

Block ==
  LET e == IF Swapping THEN Swapped(d) ELSE d
      reads == IF resp.kind = "chunked" THEN readChunk(sock, newsize(e)) ELSE bufferReadFromSocket(sock, newsize(e))
  IN  /\ More
      /\ ~Over
      /\ \/ /\ sock.buf = 0
            /\ sock' = Fault(sock, "stall")
            /\ d' = e
            /\ step' = "inflate"
         \/ \E r \in reads :
              /\ sock' = r.sock
              /\ d' = IF r.rc > 0 THEN Stored(e, Got(sock, r.rc))
                      ELSE [e EXCEPT !.got_all = (resp.kind = "chunked")]
              /\ step' = IF r.rc > 0 THEN "loop" ELSE "inflate"
      /\ UNCHANGED <<resp, conf, last, cm, peer, through, persistProxy>>

LoopEnds ==
  /\ step = "loop" /\ ~More
  /\ step' = "inflate"
  /\ UNCHANGED <<resp, conf, last, sock, d, cm, peer, through, persistProxy>>

(* zlibinflate: it succeeds on a whole body only, and not always. *)
Inflate ==
  /\ step = "inflate"
  /\ \/ d' = d
     \/ /\ resp.gzip /\ ~d.toobig /\ d.file = <<>>
        /\ d.data = Body /\ Body # <<>>
        /\ d' = [d EXCEPT !.data = Inflated, !.compressed = d.data]
  /\ step' = "filter"
  /\ UNCHANGED <<resp, conf, last, sock, cm, peer, through, persistProxy>>

-----------------------------------------------------------------------------
(* contentFilter. *)
swapbacktocompressed(e) ==
  IF e.compressed = <<>> THEN e ELSE [e EXCEPT !.data = e.compressed, !.compressed = <<>>]

isfile == d.file # <<>>
dblen == IF isfile THEN Len(d.file) ELSE Len(d.data)

(* A mutant: a file that is just as big as it may be is not scanned. *)
ToScanLess == IF isfile THEN dblen < conf.file ELSE dblen < conf.ram

ToScan == IF isfile THEN dblen <= conf.file ELSE dblen <= conf.ram

Measure ==
  /\ step = "filter"
  /\ cm' = [cm EXCEPT !.docsize = dblen, !.paused = d.toobig,
                      !.left = IF dblen > 0 /\ ToScan THEN conf.scanners ELSE 0]
  /\ d' = IF dblen = 0 THEN swapbacktocompressed(d) ELSE d
  /\ step' = IF dblen = 0 THEN "header" ELSE "scan"
  /\ UNCHANGED <<resp, conf, last, sock, peer, through, persistProxy>>

(* A scanner is shown the file or the memory.  It finds nothing or warns,  *)
(* it refuses, or it fails, which is a refusal unless the group forgives.  *)
Scan ==
  /\ step = "scan" /\ cm.left > 0
  /\ LET asked == [cm EXCEPT !.shown = IF isfile THEN d.file ELSE d.data]
     IN  \/ cm' = [asked EXCEPT !.left = @ - 1]
         \/ cm' = [asked EXCEPT !.left = 0, !.naughty = TRUE]
         \/ conf.forgiving /\ cm' = [asked EXCEPT !.left = 0]
  /\ UNCHANGED <<resp, conf, last, sock, d, peer, through, persistProxy, step>>

(* The phrase filter, for text that is not too big. *)
Phrases ==
  LET judged == ~cm.naughty /\ ~conf.bypass /\ dblen <= conf.filter /\ resp.text
  IN  /\ step = "scan" /\ cm.left = 0
      /\ \/ cm' = cm
         \/ judged /\ cm' = [cm EXCEPT !.naughty = TRUE]
         \/ judged /\ cm' = [cm EXCEPT !.exception = TRUE]
      /\ step' = "change"
      /\ UNCHANGED <<resp, conf, last, sock, d, peer, through, persistProxy>>

(* contentRegExp; what is not changed goes out as it came. *)
Change ==
  LET mayChange == ~cm.exception /\ ~conf.bypass /\ ~cm.naughty /\ dblen <= conf.filter /\ resp.text
  IN  /\ step = "change"
      /\ \/ /\ mayChange
            /\ d' = [d EXCEPT !.data = Changed(d.data)]
            /\ cm' = [cm EXCEPT !.modified = TRUE]
         \/ d' = swapbacktocompressed(d) /\ UNCHANGED cm
      /\ step' = "header"
      /\ UNCHANGED <<resp, conf, last, sock, peer, through, persistProxy>>

-----------------------------------------------------------------------------
(* What the client is sent. *)
EndMark == Token("end", 0)
Pad == Token("pad", 0)

Sends(s) == peer' = [peer EXCEPT !.out = @ \o s]
Leaves == peer' = [peer EXCEPT !.gone = TRUE]

(* The header, all of it, even if the first line has been sent; or the     *)
(* page that says the content is refused.                                  *)
Header ==
  /\ step = "header"
  /\ \/ /\ cm.naughty
        /\ peer' = [peer EXCEPT !.header = "refused"]
        /\ step' = "done"
        /\ UNCHANGED persistProxy
     \/ /\ ~cm.naughty
        /\ peer' = [peer EXCEPT !.header = "sent"]
        /\ step' = IF cm.checked THEN "out" ELSE "tunnel"
        /\ UNCHANGED persistProxy
     \/ /\ Leaves
        /\ step' = "done"
        /\ persistProxy' = FALSE
  /\ UNCHANGED <<resp, conf, last, sock, d, cm, through>>

(* A mutant: the last chunk is left to the tunnel. *)
WrittenBare ==
  LET content == IF isfile THEN d.file ELSE d.data
  IN  IF content = <<>> THEN <<IF resp.kind = "chunked" THEN EndMark ELSE Pad>> ELSE content

(* DataBuffer::out: the last chunk follows if the last one was read.  An   *)
(* empty body that is not in chunks is four bytes.                         *)
Written ==
  LET content == IF isfile THEN d.file ELSE d.data
  IN  content \o (IF resp.kind = "chunked" THEN (IF d.got_all \/ content = <<>> THEN <<EndMark>> ELSE <<>>)
                  ELSE IF content = <<>> THEN <<Pad>> ELSE <<>>)

out ==
  /\ step = "out"
  /\ \/ /\ Sends(Written)
        /\ d' = [d EXCEPT !.file = <<>>]
        /\ step' = IF cm.paused THEN "tunnel" ELSE "done"
        /\ UNCHANGED cm
     \/ /\ \E x \in 0 .. dblen : peer' = [peer EXCEPT !.gone = TRUE, !.out = @ \o SubSeq(Written, 1, x)]
        /\ cm' = [cm EXCEPT !.paused = FALSE]
        /\ step' = "done"
        /\ UNCHANGED d
  /\ UNCHANGED <<resp, conf, last, sock, through, persistProxy>>

(* FDTunnel::tunnel, in chunks: they are written whether the client is     *)
(* there or not, and ended however the reading ended.                      *)
TunnelChunk ==
  /\ step = "tunnel" /\ resp.kind = "chunked"
  /\ \E r \in readChunk(sock, conf.block) :
       /\ sock' = r.sock
       /\ IF r.rc > 0 THEN through' = through + r.rc /\ UNCHANGED step
                      ELSE step' = "done" /\ UNCHANGED through
       /\ \/ peer.gone /\ UNCHANGED peer
          \/ ~peer.gone /\ Sends(IF r.rc > 0 THEN Got(sock, r.rc) ELSE <<EndMark>>)
          \/ ~peer.gone /\ Leaves
  /\ UNCHANGED <<resp, conf, last, d, cm, persistProxy>>

targetthroughput == (IF cm.modified /\ ~resp.gzip THEN Len(d.data) ELSE contentLength) - cm.docsize

(* The socket's buffer first. *)
TunnelBuffer ==
  /\ step = "tunnel" /\ resp.kind # "chunked"
  /\ IF targetthroughput = 0
     THEN step' = "done" /\ UNCHANGED <<sock, peer, through, persistProxy>>
     ELSE \/ /\ Sends(SubSeq(S, sock.pos + 1, sock.pos + sock.buf))
             /\ through' = through + sock.buf
             /\ sock' = At(sock, sock.buf, 0)
             /\ step' = "pipe"
             /\ UNCHANGED persistProxy
          \/ /\ sock.buf > 0 /\ Leaves
             /\ persistProxy' = FALSE
             /\ step' = "done"
             /\ UNCHANGED <<sock, through>>
  /\ UNCHANGED <<resp, conf, last, d, cm>>

(* Then as much as is left, until the server or the client ends it. *)
Pipe ==
  LET wanted == targetthroughput < 0 \/ through < targetthroughput
      most == IF targetthroughput < 0 THEN conf.block ELSE Smallest(conf.block, targetthroughput - through)
  IN  /\ step = "pipe" /\ wanted
      /\ \E r \in readFromSocket(sock, most) :
           /\ sock' = r.sock
           /\ \/ /\ r.rc > 0
                 /\ Sends(Got(sock, r.rc))
                 /\ UNCHANGED step
              \/ /\ r.rc > 0 /\ Leaves
                 /\ step' = "piped"
              \/ /\ r.rc < 1
                 /\ step' = "piped"
                 /\ UNCHANGED peer
           /\ through' = through + (IF r.rc > 0 THEN r.rc ELSE 0)
      /\ UNCHANGED <<resp, conf, last, d, cm, persistProxy>>

Piped ==
  /\ \/ step = "piped"
     \/ step = "pipe" /\ targetthroughput > -1 /\ through >= targetthroughput
  /\ persistProxy' = (persistProxy /\ (targetthroughput > -1 => through >= targetthroughput))
  /\ step' = "done"
  /\ UNCHANGED <<resp, conf, last, sock, d, cm, peer, through>>

ContentNext ==
  \/ Start \/ Trickle \/ TooBig \/ Block \/ LoopEnds \/ Inflate
  \/ Measure \/ Scan \/ Phrases \/ Change
  \/ Header \/ out \/ TunnelChunk \/ TunnelBuffer \/ Pipe \/ Piped

ContentSpec == ContentInit /\ [][ContentNext]_contentvars

-----------------------------------------------------------------------------
(* What the client was sent, without the mark at its end. *)
Marked == peer.out # <<>> /\ Last(peer.out) \in {EndMark, Pad}
Sent == IF Marked THEN Front(peer.out) ELSE peer.out
Due == IF cm.modified THEN d.data ELSE Body

(* The client gets the body in order, no byte twice, none left out before  *)
(* one that is sent, and nothing behind the last chunk, which is no part   *)
(* of the body: whether it is tunnelled, checked, changed, kept in a file  *)
(* or too big for that, and wherever the server, the network or the client *)
(* fail.                                                                   *)
InOrder == IsPrefix(Sent, Due)

(* If nothing fails, the client gets all of a body that is not refused,    *)
(* ended as its header says, and a connection to the server that is used   *)
(* again has nothing of it left.                                           *)
WholeAndOver ==
  (step = "done" /\ ~cm.naughty /\ ~peer.gone /\ sock.fault = None) =>
    /\ Sent = Due
    /\ resp.kind = "chunked" => peer.out # <<>> /\ Last(peer.out) = EndMark
    /\ persistProxy => (sock.pos = Len(S) /\ sock.buf = 0)

(* What a scanner has not been shown.                                      *)
ContentSize == IF resp.gzip THEN 2 * resp.n ELSE resp.n
Unscanned == Sent # <<>> /\ cm.shown = None

(* Where there are scanners, nothing of a body that fits in memory is sent *)
(* before one was shown all of what is sent.                               *)
ScannedBeforeSent ==
  (cm.checked /\ wantall /\ ContentSize <= conf.ram) =>
    /\ ~Unscanned
    /\ (Sent # <<>> /\ ~cm.modified /\ cm.shown # Inflated) => IsPrefix(Sent, cm.shown)

(* conf/e2guardian.conf on maxcontentfilecachescansize: "This is the max   *)
(* size file that E2 will download so that it can be scanned or virus      *)
(* checked".  A body of that size at most is scanned before it is sent, if *)
(* nothing fails.                                                          *)
ScannedIfItFits ==
  (cm.checked /\ wantall /\ resp.n <= conf.file /\ ~resp.gzip
     /\ sock.fault = None /\ ~cm.paused) => ~Unscanned

=============================================================================
