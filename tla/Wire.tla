-------------------------------- MODULE Wire --------------------------------
(***************************************************************************)
(* zb_rpc/protocol.hpp, the copies of zb_rpc/ and of zb_rpc_shared/: how a *)
(* value crosses the wire.  A C++ struct is the sequence of the kinds of   *)
(* its fields, a value of it the sequence of their values in the host's    *)
(* representation, and a payload the sequence of its bytes.  A text of 16  *)
(* characters is one number and its padding.                               *)
(***************************************************************************)
EXTENDS Integers, Sequences, SequencesExt

k_magic == 843272274     \* 0x32435052
k_max_payload == 64

\* The shifts and masks of to_le16 and to_le32.  The division rounds down, so of a negative
\* number these are the bytes of its cast to the unsigned type.
to_le16(value) == <<value % 256, (value \div 256) % 256>>
to_le32(value) == <<value % 256, (value \div 256) % 256, (value \div 65536) % 256,
                    (value \div 16777216) % 256>>

from_le16(bytes) == bytes[1] + 256 * bytes[2]
from_le32(bytes) == bytes[1] + 256 * bytes[2] + 65536 * bytes[3] + 16777216 * bytes[4]

\* Mutation: the sign is lost.
from_le16_unsigned(bytes) == from_le16(bytes)

\* The casts back to int16_t and int32_t: the top byte carries the sign.
AsSigned(byte) == IF byte >= 128 THEN byte - 256 ELSE byte

from_le16_s(bytes) == bytes[1] + 256 * AsSigned(bytes[2])

from_le32_s(bytes) ==
  bytes[1] + 256 * bytes[2] + 65536 * bytes[3] + 16777216 * AsSigned(bytes[4])

SizeOfKind == [u8 |-> 1, u16 |-> 2, i16 |-> 2, u32 |-> 4, i32 |-> 4, text |-> 16]

\* The structs of protocol.hpp.
WireHeader     == <<"u32", "u32", "u32">>
ErrorResp      == <<"u32">>
EmptyReq       == <<>>
U8Resp         == <<"u8">>
U16Resp        == <<"u16">>
I16Resp        == <<"i16">>
I32Resp        == <<"i32">>
OpenNetworkReq == <<"u8">>
FindSensorReq  == <<"u16">>
zb_addr_t      == <<"i32", "u16", "u8">>
zb_basic_t     == <<"i32", "text", "text">>
zb_temp_t      == <<"i32", "i16", "i16", "i16", "i16">>

\* wire_safe of reflection.hpp: every member is a byte, a character, or an le16 or le32.
wire_safe(struct) == \A i \in DOMAIN struct : struct[i] \in DOMAIN SizeOfKind

\* The packed offset of each field, and of the end.
Offset(struct) ==
  LET offset[i \in 1..Len(struct) + 1] ==
        IF i = 1 THEN 0 ELSE offset[i - 1] + SizeOfKind[struct[i - 1]]
  IN offset

sizeof(struct) == Offset(struct)[Len(struct) + 1]

EncodeField(kind, value) ==
  CASE kind = "u8"            -> <<value>>
    [] kind \in {"u16", "i16"} -> to_le16(value)
    [] kind \in {"u32", "i32"} -> to_le32(value)
    [] kind = "text"          -> [i \in 1..16 |-> IF i = 1 THEN value ELSE 0]

DecodeField(kind, bytes) ==
  CASE kind \in {"u8", "text"} -> bytes[1]
    [] kind = "u16"           -> from_le16(bytes)
    [] kind = "i16"           -> from_le16_s(bytes)
    [] kind = "u32"           -> from_le32(bytes)
    [] kind = "i32"           -> from_le32_s(bytes)

Encode(struct, value) ==
  FlattenSeq([i \in DOMAIN struct |-> EncodeField(struct[i], value[i])])

Decode(struct, bytes) ==
  [i \in DOMAIN struct |->
     DecodeField(struct[i],
                 SubSeq(bytes, Offset(struct)[i] + 1, Offset(struct)[i + 1]))]

\* enum class api_id; get_sensor_addr is in the shared copy only.
api_id == [error |-> 0, get_short_addr |-> 1, get_panid |-> 2, get_channel |-> 3,
           open_network |-> 4, wait_annce |-> 5, find_sensor |-> 6, read_basic |-> 7,
           bind_sensor |-> 8, subscribe_sensor |-> 9, config_report |-> 10,
           read_temp |-> 11, get_last_temp |-> 12, get_sensor_addr |-> 13]

error_code == [none |-> 0, bad_magic |-> 1, oversized_payload |-> 2, unknown_api |-> 3,
               payload_mismatch |-> 4]

\* namespace desc: what each API takes and returns.
desc ==
  [get_short_addr   |-> [req |-> EmptyReq,       resp |-> U16Resp],
   get_panid        |-> [req |-> EmptyReq,       resp |-> U16Resp],
   get_channel      |-> [req |-> EmptyReq,       resp |-> U8Resp],
   open_network     |-> [req |-> OpenNetworkReq, resp |-> I32Resp],
   wait_annce       |-> [req |-> EmptyReq,       resp |-> U16Resp],
   find_sensor      |-> [req |-> FindSensorReq,  resp |-> zb_addr_t],
   read_basic       |-> [req |-> zb_addr_t,      resp |-> zb_basic_t],
   bind_sensor      |-> [req |-> zb_addr_t,      resp |-> I32Resp],
   subscribe_sensor |-> [req |-> zb_addr_t,      resp |-> I32Resp],
   config_report    |-> [req |-> zb_addr_t,      resp |-> I32Resp],
   read_temp        |-> [req |-> zb_addr_t,      resp |-> zb_temp_t],
   get_last_temp    |-> [req |-> EmptyReq,       resp |-> I16Resp],
   get_sensor_addr  |-> [req |-> EmptyReq,       resp |-> U16Resp]]

\* The static_asserts: sizes, and payloads that are wire-safe and fit.
ASSUME SizesAssumption ==
  /\ sizeof(WireHeader) = 12 /\ sizeof(ErrorResp) = 4 /\ sizeof(U16Resp) = 2
  /\ sizeof(OpenNetworkReq) = 1 /\ sizeof(FindSensorReq) = 2
  /\ sizeof(zb_addr_t) = 7 /\ sizeof(zb_basic_t) = 36 /\ sizeof(zb_temp_t) = 12
ASSUME CatalogAssumption ==
  \A api \in DOMAIN desc :
    /\ wire_safe(desc[api].req) /\ wire_safe(desc[api].resp)
    /\ sizeof(desc[api].req) <= k_max_payload /\ sizeof(desc[api].resp) <= k_max_payload
=============================================================================
