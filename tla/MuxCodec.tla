------------------------------- MODULE MuxCodec -------------------------------
(***************************************************************************)
(* The byte level of the control-master protocol (readline.go):           *)
(* parseNewSession pulls the fields of a NEW_SESSION body with pullUint32, *)
(* pullString and pullBool.  A stream is a sequence of bytes (0..255).     *)
(* Go slicing past the end of a slice panics; a parse that would do so     *)
(* yields a result with ok = FALSE.                                        *)
(*                                                                         *)
(* The reference is the encoding of OpenSSH's mux client                   *)
(* (mux_client_request_session): u32 and bool fields as 4 bytes           *)
(* big-endian, strings as a u32 length and the bytes, environment strings  *)
(* after the command.  The properties check the Go decoder against it over *)
(* bounded inputs.  TLC's integers stop below 2^31, so the sampled u32    *)
(* values do too; byte order is what they test, and 16777472 has a         *)
(* non-zero byte in two positions.  The server's replies (types            *)
(* 0x8000000x) are beyond that range and are not encoded.                  *)
(*                                                                         *)
(* The module extends Mux so that the round trip is checked in the states *)
(* where a client of the protocol runs Mux explores has a NEW_SESSION in   *)
(* flight.                                                                 *)
(***************************************************************************)
EXTENDS Mux

Fail == [ok |-> FALSE, rest |-> <<>>, val |-> 0]
Got(rest, v) == [ok |-> TRUE, rest |-> rest, val |-> v]

Drop(s, n) == SubSeq(s, n + 1, Len(s))

\* binary.BigEndian.Uint32(s[:4]).
BigEndianUint32(s) == ((s[1] * 256 + s[2]) * 256 + s[3]) * 256 + s[4]

\* binary.BigEndian.PutUint32.
PutUint32(n) ==
    <<(n \div 16777216) % 256, (n \div 65536) % 256, (n \div 256) % 256,
      n % 256>>

\* pullUint32: stream[:4] panics on a shorter stream.
PullUint32(s) ==
    IF Len(s) < 4 THEN Fail ELSE Got(Drop(s, 4), BigEndianUint32(s))

\* pullString: a length, then stream[:length].
PullString(s) ==
    LET n == PullUint32(s)
    IN  CASE ~n.ok              -> Fail
          [] n.val = 0          -> Got(n.rest, <<>>)
          [] n.val > Len(n.rest) -> Fail
          [] OTHER              -> Got(Drop(n.rest, n.val),
                                       SubSeq(n.rest, 1, n.val))

\* Mutant: a bool pulled as one byte.
PullBoolOneByte(s) ==
    IF Len(s) < 1 THEN Fail ELSE Got(Drop(s, 1), s[1] # 0)

\* pullBool: a u32, true when non-zero.
PullBool(s) ==
    IF Len(s) < 4 THEN Fail ELSE Got(Drop(s, 4), BigEndianUint32(s) # 0)

Pull(kind, s) ==
    CASE kind = "u32"  -> PullUint32(s)
      [] kind = "str"  -> PullString(s)
      [] kind = "bool" -> PullBool(s)

\* The fields of newSessionMsg, in the order parseNewSession pulls them:
\* MsgType, RequestID, Reserved, WantTTY, WantX11, WantAgent, Subsystem,
\* EscapeChar, TerminalType, Command.
NewSessionLayout ==
    <<"u32", "u32", "str", "bool", "bool", "bool", "bool", "u32", "str", "str">>

RECURSIVE PullFields(_, _)
PullFields(s, layout) ==
    IF layout = <<>> THEN Got(s, <<>>)
    ELSE LET r == Pull(Head(layout), s)
             t == PullFields(r.rest, Tail(layout))
         IN  IF r.ok /\ t.ok THEN Got(t.rest, <<r.val>> \o t.val) ELSE Fail

\* parseNewSession(msg.data.Bytes()); the rest after Command is dropped.
ParseNewSession(stream) == PullFields(stream, NewSessionLayout)

-----------------------------------------------------------------------------
(* The reference encoding and the bounded inputs.                          *)

MuxCNewSessionType == 268435458   \* 0x10000002

PutStr(v) == PutUint32(Len(v)) \o v
PutBool(v) == PutUint32(IF v THEN 1 ELSE 0)

\* A NEW_SESSION body as the OpenSSH client writes it
\* (mux_client_request_session): type, request id, reserved string, the
\* tty, x11, agent and subsystem flags, escape char, terminal type, command,
\* then one environment string.
EncodeNewSession(m) ==
    PutUint32(m[1]) \o PutUint32(m[2]) \o PutStr(m[3])
      \o PutBool(m[4]) \o PutBool(m[5]) \o PutBool(m[6]) \o PutBool(m[7])
      \o PutUint32(m[8]) \o PutStr(m[9]) \o PutStr(m[10]) \o PutStr(<<61>>)

SampleStrings == {<<>>, <<104>>, <<104, 105>>}
SampleFlags ==
    {<<FALSE, FALSE, FALSE, FALSE>>, <<TRUE, FALSE, FALSE, FALSE>>,
     <<FALSE, TRUE, FALSE, TRUE>>, <<TRUE, TRUE, TRUE, FALSE>>}

SampleSessions ==
    {<<MuxCNewSessionType, id, <<>>, f[1], f[2], f[3], f[4], esc, term, cmd>> :
        id \in {0, 16777472}, f \in SampleFlags, esc \in {0, 126},
        term \in SampleStrings, cmd \in SampleStrings}

-----------------------------------------------------------------------------
(* Properties.                                                             *)

\* While a client has a NEW_SESSION in flight, parseNewSession recovers
\* every field of any body the OpenSSH client may send (the RequestID echoed
\* in SESSION_OPENED, the command run, the TTY flag), without panicking on
\* the trailing environment.
CodecRoundTrip ==
    \A c \in Clients :
        NewSession \in {toSrv[c][i] : i \in DOMAIN toSrv[c]} =>
            \A m \in SampleSessions :
                LET r == ParseNewSession(EncodeNewSession(m))
                IN  r.ok /\ r.val = m

=============================================================================
