-------------------------------- MODULE Codec --------------------------------
(***************************************************************************)
(* The message codec: codec/message.go and parser.go.  A message is its    *)
(* command and its payload; of the header the magic number, the length and *)
(* the checksum are kept (version, flags, sequence number and time add     *)
(* constants to the sum).  A byte is a number below Base, 256 in the code; *)
(* the 16-bit fields of the header are two bytes, the first the higher.    *)
(*                                                                         *)
(* One message after another goes over a TCP stream, which has no frames,  *)
(* and over a websocket, which keeps them apart; both deliver every byte   *)
(* in order.                                                               *)
(***************************************************************************)
EXTENDS Integers, Sequences, FiniteSets, SequencesExt

CONSTANTS
    Base,
    Magic,              \* magicNumber
    Cmds, Payloads,     \* what is sent
    MaxSent             \* bound: messages sent over both connections

Bytes == 0 .. Base - 1
W == Base * Base        \* 2^16: what a uint16 wraps at
HeaderLen == 5          \* 13 in the code: magic, length and checksum are 5 of its bytes

ASSUME CodecAssumption ==
    /\ Base \in Nat \ {0, 1} /\ Magic \in Bytes
    /\ Cmds \subseteq 0 .. W - 1 /\ Payloads \subseteq Seq(Bytes)

PutUint16(x) == <<x \div Base, x % Base>>
Uint16(s, at) == Base * s[at + 1] + s[at + 2]

(* Words of two bytes, a last single byte being the higher one. *)
WordsOf(payload) ==
    [i \in 1 .. (Len(payload) + 1) \div 2 |->
        Base * payload[2 * i - 1] + (IF 2 * i <= Len(payload) THEN payload[2 * i] ELSE 0)]

SumOf(words) ==
    LET upTo[i \in 0 .. Len(words)] == IF i = 0 THEN 0 ELSE upTo[i - 1] + words[i]
    IN  upTo[Len(words)]

(* The 32-bit sum with what is carried out of 16 bits added in again, complemented. *)
calculateCheckSum(len, cmd, payload) ==
    LET sum == (Magic + len + cmd + SumOf(WordsOf(payload))) % (W * W)
    IN  W - 1 - (IF sum = 0 THEN 0 ELSE 1 + ((sum - 1) % (W - 1)))

(* Mutant: the length also counts the command. *)
PackCountsCmd(m) ==
    LET len == (Len(m.payload) + 2) % W
    IN  <<Magic>> \o PutUint16(len) \o PutUint16(calculateCheckSum(len, m.cmd, m.payload))
        \o PutUint16(m.cmd) \o m.payload

(* The length is cut to 16 bits. *)
Pack(m) ==
    LET len == Len(m.payload) % W
    IN  <<Magic>> \o PutUint16(len) \o PutUint16(calculateCheckSum(len, m.cmd, m.payload))
        \o PutUint16(m.cmd) \o m.payload

-----------------------------------------------------------------------------
(* What a read comes to: it waits for more bytes, fails, panics, or returns a message and    *)
(* the rest.                                                                               *)
More   == [is |-> "more"]
Bad    == [is |-> "bad"]
Panics == [is |-> "panics"]

Checked(s, len, cmd, payload, rest) ==
    IF Uint16(s, 3) # calculateCheckSum(len, cmd, payload) THEN Bad
    ELSE [is |-> "msg", msg |-> [cmd |-> cmd, payload |-> payload], rest |-> rest]

(* io.ReadFull of the header, of the command and of as many bytes as the header says.       *)
(* (A length above MaxMessageSize, the largest 16-bit number, does not exist.)             *)
TcpRead(s) ==
    LET end == HeaderLen + 2 + Uint16(s, 1) IN
    IF Len(s) < HeaderLen THEN More
    ELSE IF s[1] # Magic THEN Bad
    ELSE IF Len(s) < end THEN More
    ELSE Checked(s, Uint16(s, 1), Uint16(s, HeaderLen), SubSeq(s, HeaderLen + 3, end),
                 SubSeq(s, end + 1, Len(s)))

(* The payload is the rest of the frame, whatever the header says.  A frame that ends with   *)
(* the header has command 0; one that ends within the command is out of range for Uint16.   *)
WsRead(op, s) ==
    IF op = "close" \/ Len(s) < HeaderLen \/ s[1] # Magic THEN Bad
    ELSE IF Len(s) = HeaderLen THEN Checked(s, Uint16(s, 1), 0, <<>>, <<>>)
    ELSE IF Len(s) = HeaderLen + 1 THEN Panics
    ELSE Checked(s, Uint16(s, 1), Uint16(s, HeaderLen), SubSeq(s, HeaderLen + 3, Len(s)), <<>>)

-----------------------------------------------------------------------------
VARIABLES
    tcp,        \* [sent, stream, got, bad]: the bytes under way; bad: the reader has given up
    wsk         \* [sent, frames, closed, got, bad]: the frames under way; closed: behind them
                \* there is a close frame

codecVars == <<tcp, wsk>>

CodecInit ==
    /\ tcp = [sent |-> <<>>, stream |-> <<>>, got |-> <<>>, bad |-> FALSE]
    /\ wsk = [sent |-> <<>>, frames |-> <<>>, closed |-> FALSE, got |-> <<>>, bad |-> FALSE]

TcpWrite(m) ==
    /\ Len(tcp.sent) + Len(wsk.sent) < MaxSent
    /\ tcp' = [tcp EXCEPT !.sent = Append(@, m), !.stream = @ \o Pack(m)]
    /\ UNCHANGED wsk

TcpReader ==
    /\ ~tcp.bad /\ TcpRead(tcp.stream) # More
    /\ LET r == TcpRead(tcp.stream) IN
       tcp' = IF r = Bad THEN [tcp EXCEPT !.bad = TRUE]
              ELSE [tcp EXCEPT !.stream = r.rest, !.got = Append(@, r.msg)]
    /\ UNCHANGED wsk

WsWrite(m) ==
    /\ Len(tcp.sent) + Len(wsk.sent) < MaxSent /\ ~wsk.closed
    /\ wsk' = [wsk EXCEPT !.sent = Append(@, m), !.frames = Append(@, Pack(m))]
    /\ UNCHANGED tcp

(* The peer ends the websocket. *)
WsClose == ~wsk.closed /\ wsk' = [wsk EXCEPT !.closed = TRUE] /\ UNCHANGED tcp

WsReader ==
    /\ ~wsk.bad /\ (wsk.frames # <<>> \/ wsk.closed)
    /\ LET r == IF wsk.frames # <<>> THEN WsRead("binary", Head(wsk.frames))
                                    ELSE WsRead("close", <<>>)
       IN  wsk' = IF r.is # "msg" THEN [wsk EXCEPT !.bad = TRUE]
                  ELSE [wsk EXCEPT !.frames = Tail(@), !.got = Append(@, r.msg)]
    /\ UNCHANGED tcp

Messages == [cmd : Cmds, payload : Payloads]

CodecNext ==
    \/ \E m \in Messages : TcpWrite(m) \/ WsWrite(m)
    \/ TcpReader \/ WsReader \/ WsClose

CodecSpec == CodecInit /\ [][CodecNext]_codecVars

-----------------------------------------------------------------------------
(* The 16-bit length cannot say how long message i of the TCP stream is. *)
TooLong(i) == i \in DOMAIN tcp.sent /\ Len(tcp.sent[i].payload) >= W

(* What is read is what was written, in order and unbroken: over a websocket always, whose   *)
(* reader gives up only at the close frame and then has read everything; over a TCP stream  *)
(* up to the first message of 64 KiB or more.  parser.go:15 gives a message 16 MB, but such a *)
(* one is never read as it was written: Pack cuts its length, MaxMessageSize is the largest  *)
(* 16-bit number, which no length exceeds, and the rest of the payload is read as the next   *)
(* header, so that nothing is promised of what follows either.                             *)
ReadsWhatWasWritten ==
    /\ IsPrefix(wsk.got, wsk.sent)
    /\ wsk.bad => wsk.closed /\ wsk.got = wsk.sent
    /\ \A i \in DOMAIN tcp.got :
           \/ i \in DOMAIN tcp.sent /\ tcp.got[i] = tcp.sent[i]
           \/ \E j \in 1 .. i : TooLong(j)
    /\ tcp.bad => \E j \in 1 .. Len(tcp.got) + 1 : TooLong(j)
    /\ \A i \in DOMAIN tcp.got : TooLong(i) => tcp.got[i] # tcp.sent[i]
=============================================================================
