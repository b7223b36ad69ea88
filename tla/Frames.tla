------------------------------- MODULE Frames -------------------------------
(***************************************************************************)
(* Packets on a TCP stream (base_define.h, function_for_muduo.h).  A       *)
(* packet is a header of the length of its data and a spare number, a      *)
(* command, the data, and zeros up to a multiple of eight cells.  Between  *)
(* servers a packet travels whole, with its padding, in the data of        *)
(* another one, behind the user and the server it is about.                *)
(*                                                                         *)
(* A cell is a byte, except that the cells of data are those of Protobuf.  *)
(***************************************************************************)
EXTENDS Naturals, Sequences

CMDHEADER_SIZE == 8
CMDTYPE_SIZE == 2
MSGINSERVER_SIZE == 12

PACKET_SIZE(n) == ((CMDHEADER_SIZE + CMDTYPE_SIZE + n + 7) \div 8) * 8

\* The cells of a number of k bytes, of what it is and of its value.
Bytes(what, v, k) == [i \in 1 .. k |-> <<what, v, i>>]
Zeros(k) == [i \in 1 .. k |-> <<"zero">>]

\* SetMessage: the packet of some data in a buffer of the thread.
Packet(cmd, data) ==
    Bytes("size", Len(data), 4) \o Zeros(4) \o Bytes("cmd", cmd, 2) \o data
    \o Zeros(PACKET_SIZE(Len(data)) - Len(data) - CMDHEADER_SIZE - CMDTYPE_SIZE)

\* What other cells mean as a number is left open: streams never get that far out of step.
DataLen(p) == IF p[1][1] = "size" /\ p[1][3] = 1 THEN p[1][2] ELSE 0

Cmd(p) == p[CMDHEADER_SIZE + 1][2]

Data(p) == SubSeq(p, CMDHEADER_SIZE + CMDTYPE_SIZE + 1, CMDHEADER_SIZE + CMDTYPE_SIZE + DataLen(p))

\* Variant with a fault: the fields of MsgInServer the other way round.
WrapSwapped(cmd, svrid, userid, p) ==
    Packet(cmd, Bytes("server", svrid, 4) \o Bytes("user", userid, 8)
                \o SubSeq(p, 1, PACKET_SIZE(DataLen(p))))

\* SetServerMessage, SetServerMessageAck and SetOtherSvrMsg, which differ in the command.
Wrap(cmd, svrid, userid, p) ==
    Packet(cmd, Bytes("user", userid, 8) \o Bytes("server", svrid, 4)
                \o SubSeq(p, 1, PACKET_SIZE(DataLen(p))))

\* MsgInServer and the packet behind it.
InnerUser(p) == Data(p)[1][2]
Inner(p) == SubSeq(Data(p), MSGINSERVER_SIZE + 1, Len(Data(p)))

-----------------------------------------------------------------------------
(* The receiving end.                                                      *)

\* Variant with a fault: the padding is not waited for.
EnoughDataUnpadded(buf) ==
    Len(buf) > 4 /\ Len(buf) >= CMDHEADER_SIZE + CMDTYPE_SIZE + DataLen(buf)

\* Variant with a fault: off by one.
EnoughDataMore(buf) == Len(buf) > 4 /\ Len(buf) > PACKET_SIZE(DataLen(buf))

\* enouthData.
EnoughData(buf) == Len(buf) > 4 /\ Len(buf) >= PACKET_SIZE(DataLen(buf))

\* newMsgFormBuffer: the message, and what it leaves in the buffer.
Upto(n, s) == SubSeq(s, 1, IF n <= Len(s) THEN n ELSE Len(s))
NewMsgFromBuffer(buf) == Upto(PACKET_SIZE(DataLen(buf)), buf)
Retrieved(buf) == SubSeq(buf, PACKET_SIZE(DataLen(buf)) + 1, Len(buf))
=============================================================================
