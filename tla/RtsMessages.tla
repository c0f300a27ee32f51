---------------------------- MODULE RtsMessages ----------------------------
(***************************************************************************)
(* The messages of the robot's RTS protocol and their binary form, from    *)
(* the web setup page (rts.js): a message class is its fields in wire      *)
(* order, a union (RtsConnection_1 ... _7) is its members in tag order,    *)
(* and one generic packer stands for the pack, unpack and size that each   *)
(* generated class repeats.  The values of a message are in the order of   *)
(* its fields; a string is the sequence of its character codes; an integer *)
(* of eight bytes is the pair of its 32-bit halves.                        *)
(***************************************************************************)
EXTENDS Integers, Sequences, SequencesExt

-----------------------------------------------------------------------------
(* Kinds of fields: an integer of n bytes, a Boolean, a string with an      *)
(* n-byte length, a fixed array, and arrays with a two-byte count.          *)
UInt(n)  == [kind |-> "uint", n |-> n]
Str(n)   == [kind |-> "string", n |-> n]
Array(n) == [kind |-> "array", n |-> n]
List(class) == [kind |-> "list", n |-> 1, of |-> class]
U8 == UInt(1)
U16 == UInt(2)
U32 == UInt(4)
U64 == [kind |-> "big", n |-> 8]
Bool == [kind |-> "bool", n |-> 1]
Str8 == Str(1)
Str16 == Str(2)
Bytes == [kind |-> "bytes", n |-> 2]
Words == [kind |-> "words", n |-> 2]
Strings == [kind |-> "strings", n |-> 2]

-----------------------------------------------------------------------------
(* The message classes: <<field, kind>> in the order of pack() and unpack().*)
Class(name, fields) == [name |-> name, fields |-> fields]
Extend(name, class, fields) == Class(name, class.fields \o fields)

RtsWifiScanResult ==
    Class("RtsWifiScanResult",
        << <<"authType", U8>>, <<"signalStrength", U8>>,
           <<"wifiSsidHex", Str8>> >>)
RtsWifiScanResult_2 ==
    Extend("RtsWifiScanResult_2", RtsWifiScanResult, << <<"hidden", Bool>> >>)
RtsWifiScanResult_3 ==
    Extend("RtsWifiScanResult_3", RtsWifiScanResult_2,
        << <<"provisioned", Bool>> >>)
RtsConnRequest == Class("RtsConnRequest", << <<"publicKey", Array(32)>> >>)
RtsConnRequest_6 ==
    Extend("RtsConnRequest_6", RtsConnRequest,
        << <<"isPairing", Bool>>, <<"bluetoothSigCompanyId", Array(2)>>,
           <<"productId", U8>> >>)
RtsConnResponse ==
    Class("RtsConnResponse",
        << <<"connectionType", U8>>, <<"publicKey", Array(32)>> >>)
RtsNonceMessage ==
    Class("RtsNonceMessage",
        << <<"toRobotNonce", Array(24)>>, <<"toDeviceNonce", Array(24)>> >>)
RtsAck == Class("RtsAck", << <<"rtsConnectionTag", U8>> >>)
RtsChallengeMessage == Class("RtsChallengeMessage", << <<"number", U32>> >>)
RtsChallengeSuccessMessage == Class("RtsChallengeSuccessMessage", <<>>)
RtsWifiForgetRequest ==
    Class("RtsWifiForgetRequest",
        << <<"deleteAll", Bool>>, <<"wifiSsidHex", Str8>> >>)
RtsWifiForgetResponse ==
    Class("RtsWifiForgetResponse",
        << <<"didDelete", Bool>>, <<"wifiSsidHex", Str8>> >>)
RtsWifiConnectRequest ==
    Class("RtsWifiConnectRequest",
        << <<"wifiSsidHex", Str8>>, <<"password", Str8>>, <<"timeout", U8>>,
           <<"authType", U8>>, <<"hidden", Bool>> >>)
RtsWifiConnectResponse ==
    Class("RtsWifiConnectResponse",
        << <<"wifiSsidHex", Str8>>, <<"wifiState", U8>> >>)
RtsWifiConnectResponse_3 ==
    Extend("RtsWifiConnectResponse_3", RtsWifiConnectResponse,
        << <<"connectResult", U8>> >>)
RtsWifiIpRequest == Class("RtsWifiIpRequest", <<>>)
RtsWifiIpResponse ==
    Class("RtsWifiIpResponse",
        << <<"hasIpV4", U8>>, <<"hasIpV6", U8>>, <<"ipV4", Array(4)>>,
           <<"ipV6", Array(16)>> >>)
RtsStatusRequest == Class("RtsStatusRequest", <<>>)
RtsStatusResponse ==
    Class("RtsStatusResponse",
        << <<"wifiSsidHex", Str8>>, <<"wifiState", U8>>,
           <<"accessPoint", Bool>>, <<"bleState", U8>>,
           <<"batteryState", U8>> >>)
RtsStatusResponse_2 ==
    Extend("RtsStatusResponse_2", RtsStatusResponse,
        << <<"version", Str8>>, <<"otaInProgress", Bool>> >>)
RtsStatusResponse_3 ==
    Extend("RtsStatusResponse_3", RtsStatusResponse_2,
        << <<"hasOwner", Bool>> >>)
RtsStatusResponse_4 ==
    Extend("RtsStatusResponse_4", RtsStatusResponse,
        << <<"version", Str8>>, <<"esn", Str8>>, <<"otaInProgress", Bool>>,
           <<"hasOwner", Bool>> >>)
RtsStatusResponse_5 ==
    Extend("RtsStatusResponse_5", RtsStatusResponse_4,
        << <<"isCloudAuthed", Bool>> >>)
RtsWifiScanRequest == Class("RtsWifiScanRequest", <<>>)
RtsWifiScanResponse ==
    Class("RtsWifiScanResponse",
        << <<"statusCode", U8>>, <<"scanResult", List(RtsWifiScanResult)>> >>)
RtsWifiScanResponse_2 ==
    Class("RtsWifiScanResponse_2",
        << <<"statusCode", U8>>,
           <<"scanResult", List(RtsWifiScanResult_2)>> >>)
RtsWifiScanResponse_3 ==
    Class("RtsWifiScanResponse_3",
        << <<"statusCode", U8>>,
           <<"scanResult", List(RtsWifiScanResult_3)>> >>)
RtsOtaUpdateRequest == Class("RtsOtaUpdateRequest", << <<"url", Str8>> >>)
RtsOtaCancelRequest == Class("RtsOtaCancelRequest", <<>>)
RtsOtaUpdateResponse ==
    Class("RtsOtaUpdateResponse",
        << <<"status", U8>>, <<"current", U64>>, <<"expected", U64>> >>)
RtsWifiAccessPointRequest ==
    Class("RtsWifiAccessPointRequest", << <<"enable", Bool>> >>)
RtsWifiAccessPointResponse ==
    Class("RtsWifiAccessPointResponse",
        << <<"enabled", Bool>>, <<"ssid", Str8>>, <<"password", Str8>> >>)
RtsCancelPairing == Class("RtsCancelPairing", <<>>)
RtsForceDisconnect == Class("RtsForceDisconnect", <<>>)
RtsSshRequest ==
    Class("RtsSshRequest", << <<"sshAuthorizedKeyBytes", Strings>> >>)
RtsSshResponse == Class("RtsSshResponse", <<>>)
RtsLogRequest ==
    Class("RtsLogRequest", << <<"mode", U8>>, <<"filter", Strings>> >>)
RtsLogResponse ==
    Class("RtsLogResponse", << <<"exitCode", U8>>, <<"fileId", U32>> >>)
RtsFileDownload ==
    Class("RtsFileDownload",
        << <<"status", U8>>, <<"fileId", U32>>, <<"packetNumber", U32>>,
           <<"packetTotal", U32>>, <<"fileChunk", Bytes>> >>)
RtsCloudSessionRequest ==
    Class("RtsCloudSessionRequest", << <<"sessionToken", Str16>> >>)
RtsCloudSessionRequest_5 ==
    Extend("RtsCloudSessionRequest_5", RtsCloudSessionRequest,
        << <<"clientName", Str8>>, <<"appId", Str8>> >>)
RtsCloudSessionResponse ==
    Class("RtsCloudSessionResponse",
        << <<"success", Bool>>, <<"statusCode", U8>>,
           <<"clientTokenGuid", Str16>> >>)
RtsAppConnectionIdRequest ==
    Class("RtsAppConnectionIdRequest", << <<"connectionId", Str16>> >>)
RtsAppConnectionIdResponse == Class("RtsAppConnectionIdResponse", <<>>)
RtsResponse ==
    Class("RtsResponse", << <<"code", U16>>, <<"responseMessage", Str16>> >>)
RtsSdkProxyRequest ==
    Class("RtsSdkProxyRequest",
        << <<"clientGuid", Str8>>, <<"messageId", Str8>>, <<"urlPath", Str8>>,
           <<"json", Str16>> >>)
RtsSdkProxyResponse ==
    Class("RtsSdkProxyResponse",
        << <<"messageId", Str8>>, <<"statusCode", U16>>,
           <<"responseType", Str8>>, <<"responseBody", Str16>> >>)
RtsVersionListRequest == Class("RtsVersionListRequest", <<>>)
RtsVersionListResponse ==
    Class("RtsVersionListResponse", << <<"supportedVersions", Words>> >>)
RtsBleshConnectRequest == Class("RtsBleshConnectRequest", <<>>)
RtsBleshConnectResponse ==
    Class("RtsBleshConnectResponse", << <<"result", U8>> >>)
RtsBleshDisconnectRequest == Class("RtsBleshDisconnectRequest", <<>>)
RtsBleshDisconnectResponse ==
    Class("RtsBleshDisconnectResponse", << <<"result", U8>> >>)
RtsBleshToServerRequest ==
    Class("RtsBleshToServerRequest", << <<"data", Bytes>> >>)
RtsBleshToServerResponse ==
    Class("RtsBleshToServerResponse", << <<"result", U8>> >>)
RtsBleshToClientRequest ==
    Class("RtsBleshToClientRequest", << <<"data", Bytes>> >>)
RtsBleshToClientResponse ==
    Class("RtsBleshToClientResponse", << <<"result", U8>> >>)
Error == Class("Error", <<>>)
DeprecatedAndReserved == Class("DeprecatedAndReserved", <<>>)
RtsStatusResponse_7 == Extend("RtsStatusResponse_7", RtsStatusResponse_5, <<>>)
RtsWifiScanResult_7 == Extend("RtsWifiScanResult_7", RtsWifiScanResult_3, <<>>)
RtsWifiScanResponse_7 ==
    Class("RtsWifiScanResponse_7",
        << <<"statusCode", U8>>,
           <<"scanResult", List(RtsWifiScanResult_7)>> >>)
RtsWifiConnectResponse_7 ==
    Extend("RtsWifiConnectResponse_7", RtsWifiConnectResponse_3, <<>>)
RtsCloudSessionRequest_7 ==
    Extend("RtsCloudSessionRequest_7", RtsCloudSessionRequest_5, <<>>)

-----------------------------------------------------------------------------
(* The unions.  The first 23 members are the same in every version but for  *)
(* the layout of five of them.                                              *)
Common(connRequest, wifiConnectResponse, statusResponse, wifiScanResponse) ==
    <<Error, connRequest, RtsConnResponse, RtsNonceMessage,
      RtsChallengeMessage, RtsChallengeSuccessMessage,
      RtsWifiConnectRequest, wifiConnectResponse, RtsWifiIpRequest,
      RtsWifiIpResponse, RtsStatusRequest, statusResponse,
      RtsWifiScanRequest, wifiScanResponse, RtsOtaUpdateRequest,
      RtsOtaUpdateResponse, RtsCancelPairing, RtsForceDisconnect,
      RtsAck, RtsWifiAccessPointRequest, RtsWifiAccessPointResponse,
      RtsSshRequest, RtsSshResponse>>

RtsConnection_1 ==
    Common(RtsConnRequest, RtsWifiConnectResponse, RtsStatusResponse,
           RtsWifiScanResponse)

LogMembers ==
    <<RtsOtaCancelRequest, RtsLogRequest, RtsLogResponse,
      RtsFileDownload>>

RtsConnection_2 ==
    Common(RtsConnRequest, RtsWifiConnectResponse, RtsStatusResponse_2,
           RtsWifiScanResponse_2) \o LogMembers

ForgetMembers(cloudRequest) ==
    <<RtsWifiForgetRequest, RtsWifiForgetResponse, cloudRequest,
      RtsCloudSessionResponse>>

RtsConnection_3 ==
    Common(RtsConnRequest, RtsWifiConnectResponse_3,
           RtsStatusResponse_3, RtsWifiScanResponse_3)
    \o LogMembers \o ForgetMembers(RtsCloudSessionRequest)

AppIdMembers ==
    <<RtsAppConnectionIdRequest, RtsAppConnectionIdResponse,
      RtsResponse>>

RtsConnection_4 ==
    Common(RtsConnRequest, RtsWifiConnectResponse_3,
           RtsStatusResponse_4, RtsWifiScanResponse_3)
    \o LogMembers \o ForgetMembers(RtsCloudSessionRequest) \o AppIdMembers

SdkMembers == <<RtsSdkProxyRequest, RtsSdkProxyResponse>>

RtsConnection_5 ==
    Common(RtsConnRequest, RtsWifiConnectResponse_3,
           RtsStatusResponse_5, RtsWifiScanResponse_3)
    \o LogMembers \o ForgetMembers(RtsCloudSessionRequest_5)
    \o AppIdMembers \o SdkMembers

RtsConnection_6 ==
    Common(RtsConnRequest_6, RtsWifiConnectResponse_3,
           RtsStatusResponse_5, RtsWifiScanResponse_3)
    \o LogMembers \o ForgetMembers(RtsCloudSessionRequest_5)
    \o AppIdMembers \o SdkMembers
    \o <<RtsVersionListRequest, RtsVersionListResponse,
         RtsBleshConnectRequest, RtsBleshConnectResponse,
         RtsBleshToServerRequest, RtsBleshToServerResponse,
         RtsBleshToClientRequest, RtsBleshToClientResponse,
         RtsBleshDisconnectRequest, RtsBleshDisconnectResponse>>

\* Its last tag, 0x24, names a class RtsErrorResponse that does not exist: no
\* such message can be made or read.
RtsConnection_7 ==
    Common(RtsConnRequest, RtsWifiConnectResponse_7,
           RtsStatusResponse_7, RtsWifiScanResponse_7)
    \o LogMembers \o ForgetMembers(RtsCloudSessionRequest_7)
    \o AppIdMembers \o SdkMembers

Union(v) ==
    <<RtsConnection_1, RtsConnection_2, RtsConnection_3, RtsConnection_4,
      RtsConnection_5, RtsConnection_6, RtsConnection_7>>[v]

HasMember(v, class) == class \in ToSet(Union(v))
\* Mutant: tags that start at one.
TagFromOne(v, class) == SelectInSeq(Union(v), LAMBDA c : c = class)
TagOf(v, class) == SelectInSeq(Union(v), LAMBDA c : c = class) - 1

-----------------------------------------------------------------------------
(* Writing.                                                                 *)
\* The weights of the bytes of an integer.
Weight == <<1, 256, 65536, 16777216>>

LittleEndian(x, n) == [i \in 1..n |-> (x \div Weight[i]) % 256]
WriteString(s, n) == LittleEndian(Len(s), n) \o [i \in DOMAIN s |-> s[i] % 256]

WriteField(k, x) ==
    CASE k.kind = "uint"    -> LittleEndian(x, k.n)
      [] k.kind = "big"     -> LittleEndian(x[1], 4) \o LittleEndian(x[2], 4)
      [] k.kind = "bool"    -> <<IF x THEN 1 ELSE 0>>
      [] k.kind = "string"  -> WriteString(x, k.n)
      [] k.kind = "array"   -> x
      [] k.kind = "bytes"   -> LittleEndian(Len(x), 2) \o x
      [] k.kind = "words"   ->
           LittleEndian(Len(x), 2)
           \o FlattenSeq([i \in DOMAIN x |-> LittleEndian(x[i], 2)])
      [] k.kind = "strings" ->
           LittleEndian(Len(x), 2)
           \o FlattenSeq([i \in DOMAIN x |-> WriteString(x[i], 1)])

PackFields(fs, vals) ==
    FlattenSeq([i \in DOMAIN fs |-> WriteField(fs[i][2], vals[i])])

PackField(k, x) ==
    IF k.kind = "list"
    THEN LittleEndian(Len(x), k.n)
         \o FlattenSeq([i \in DOMAIN x |-> PackFields(k.of.fields, x[i])])
    ELSE WriteField(k, x)

\* Message.pack(); it gives up when a string is longer than its length field
\* can say, and the union that wraps it then throws.
Pack(class, vals) ==
    LET fs == class.fields
    IN  FlattenSeq([i \in DOMAIN fs |-> PackField(fs[i][2], vals[i])])

StringsFit(fs, vals) ==
    \A i \in DOMAIN fs :
        fs[i][2].kind = "string" => Len(vals[i]) < Weight[fs[i][2].n + 1]
CanPack(class, vals) == StringsFit(class.fields, vals)

-----------------------------------------------------------------------------
(* The values that a field can hold: integers of its width, strings of       *)
(* one-byte characters, and no more of them than its count can say.          *)
Byte256 == 0..255
IsWord(x, n) == x \in Nat /\ x \div Weight[n] < 256

FitsField(k, x) ==
    CASE k.kind = "uint"    -> IsWord(x, k.n)
      [] k.kind = "big"     -> x = <<x[1], x[2]>> /\ IsWord(x[1], 4) /\ IsWord(x[2], 4)
      [] k.kind = "bool"    -> x \in BOOLEAN
      [] k.kind = "string"  -> x \in Seq(Byte256)
      [] k.kind = "array"   -> x \in Seq(Byte256) /\ Len(x) = k.n
      [] k.kind = "bytes"   -> x \in Seq(Byte256) /\ IsWord(Len(x), 2)
      [] k.kind = "words"   -> /\ x \in Seq(Nat) /\ IsWord(Len(x), 2)
                               /\ \A i \in DOMAIN x : IsWord(x[i], 2)
      [] k.kind = "strings" -> /\ x \in Seq(Seq(Byte256)) /\ IsWord(Len(x), 2)
                               /\ \A i \in DOMAIN x : IsWord(Len(x[i]), 1)

FitFields(fs, vals) ==
    /\ vals = [i \in DOMAIN fs |-> vals[i]]
    /\ \A i \in DOMAIN fs : FitsField(fs[i][2], vals[i])

FitsList(class, x) ==
    /\ x = [i \in 1..Len(x) |-> x[i]] /\ IsWord(Len(x), 1)
    /\ \A i \in DOMAIN x : FitFields(class.fields, x[i]) /\ CanPack(class, x[i])

Fits(class, vals) ==
    /\ vals = [i \in DOMAIN class.fields |-> vals[i]]
    /\ \A i \in DOMAIN class.fields :
          LET k == class.fields[i][2]
          IN  IF k.kind = "list" THEN FitsList(k.of, vals[i]) ELSE FitsField(k, vals[i])

-----------------------------------------------------------------------------
(* Reading.  What lies beyond the end of the buffer reads as zero, and an   *)
(* array there is cut short; the index moves on all the same.               *)
Number(buf, at, n) ==
    LET byte(i) == IF i <= n /\ at + i - 1 <= Len(buf)
                   THEN buf[at + i - 1] * Weight[i] ELSE 0
    IN  byte(1) + byte(2) + byte(3) + byte(4)

Slice(buf, at, n) ==
    SubSeq(buf, at, IF at + n - 1 <= Len(buf) THEN at + n - 1 ELSE Len(buf))

\* One field read at index `at`: its value and the index after it.
ReadString(buf, at, n) ==
    LET len == Number(buf, at, n)
    IN  <<Slice(buf, at + n, len), at + n + len>>

\* n values read one after the other from `at` on; read[i][p] is what the i-th
\* reads at index p.
ReadEach(read, n, at) ==
    LET index[i \in 1..(n + 1)] ==
            IF i = 1 THEN at ELSE read[i - 1][index[i - 1]][2]
    IN  <<[i \in 1..n |-> read[i][index[i]][1]], index[n + 1]>>

ReadField(k, buf, at) ==
    LET count == Number(buf, at, 2)
    IN CASE k.kind = "uint"    -> <<Number(buf, at, k.n), at + k.n>>
         [] k.kind = "big"     ->
              << <<Number(buf, at, 4), Number(buf, at + 4, 4)>>, at + 8>>
         [] k.kind = "bool"    -> <<Number(buf, at, 1) # 0, at + 1>>
         [] k.kind = "string"  -> ReadString(buf, at, k.n)
         [] k.kind = "array"   -> <<Slice(buf, at, k.n), at + k.n>>
         [] k.kind = "bytes"   -> <<Slice(buf, at + 2, count), at + 2 + count>>
         [] k.kind = "words"   ->
              <<[i \in 1..count |-> Number(buf, at + 2 * i, 2)],
                at + 2 + 2 * count>>
         [] k.kind = "strings" ->
              ReadEach([i \in 1..count |-> [p \in Nat |-> ReadString(buf, p, 1)]],
                       count, at + 2)

\* The fields fs read from `at` on.
UnpackFields(fs, buf, at) ==
    ReadEach([i \in DOMAIN fs |-> [p \in Nat |-> ReadField(fs[i][2], buf, p)]],
             Len(fs), at)

UnpackField(k, buf, at) ==
    IF k.kind = "list"
    THEN LET count == Number(buf, at, k.n)
         IN  ReadEach([i \in 1..count |->
                          [p \in Nat |-> UnpackFields(k.of.fields, buf, p)]],
                      count, at + k.n)
    ELSE ReadField(k, buf, at)

\* Message.unpack(buffer)
Unpack(class, buf) ==
    LET fs == class.fields
    IN  ReadEach([i \in DOMAIN fs |-> [p \in Nat |-> UnpackField(fs[i][2], buf, p)]],
                 Len(fs), 1)[1]

-----------------------------------------------------------------------------
(* The envelope: ExternalComms, RtsConnection, RtsConnection_v, message.    *)
\* What send() of the handler of version v packs.
Envelope(v, class, vals) ==
    (IF v = 1 THEN <<1>> ELSE <<4, v>>)
    \o <<TagOf(v, class)>> \o Pack(class, vals)

NoMessage == [version |-> 0, class |-> "none", vals |-> <<>>]

\* The member with this tag of union v read from the rest of the buffer; a tag
\* that is unknown or INVALID leaves no value.
UnpackUnion(v, buf) ==
    IF buf # <<>> /\ buf[1] < Len(Union(v))
    THEN LET class == Union(v)[buf[1] + 1]
         IN  [version |-> v, class |-> class.name,
              vals |-> Unpack(class, Tail(buf))]
    ELSE NoMessage

\* ExternalComms.unpack(buffer)
OpenEnvelope(buf) ==
    CASE Len(buf) > 1 /\ buf[1] = 1 -> UnpackUnion(1, Tail(buf))
      [] Len(buf) > 2 /\ buf[1] = 4 /\ buf[2] \in 2..7 ->
           UnpackUnion(buf[2], SubSeq(buf, 3, Len(buf)))
      [] OTHER -> NoMessage
=============================================================================
