---------------------------- MODULE RtsHandlers ----------------------------
(***************************************************************************)
(* What the handlers RtsV2Handler ... RtsV6Handler of the web setup page   *)
(* know: for every kind of request the message that asks, the message that *)
(* answers, whether it times out, and the terminal command that makes it.  *)
(* A kind of request is the key under which its promise is kept.           *)
(*                                                                         *)
(* RtsV7Handler is never instantiated (HandleHandshake) and has no table.  *)
(***************************************************************************)
EXTENDS RtsMessages

Versions == 2..6

\* A table of rows <<key, entry>>, and table t with other rows in it.  (The
\* provers cannot look into :> and @@.)
Table(rows) ==
    [key \in {row[1] : row \in rows} |-> (CHOOSE row \in rows : row[1] = key)[2]]
Extended(t, rows) ==
    [key \in DOMAIN t \cup DOMAIN Table(rows) |->
        IF key \in DOMAIN Table(rows) THEN Table(rows)[key] ELSE t[key]]

-----------------------------------------------------------------------------
(* doWifiScan() ... doSdk(): the message that each sends.                   *)
Requests_2 ==
    Table({<<"wifi-scan", RtsWifiScanRequest>>,
           <<"wifi-connect", RtsWifiConnectRequest>>,
           <<"wifi-forget", RtsWifiForgetRequest>>,
           <<"wifi-ap", RtsWifiAccessPointRequest>>,
           <<"wifi-ip", RtsWifiIpRequest>>, <<"status", RtsStatusRequest>>,
           <<"ota-start", RtsOtaUpdateRequest>>,
           <<"ota-cancel", RtsOtaCancelRequest>>, <<"logs", RtsLogRequest>>})

Requests_3 ==
    Extended(Requests_2, {<<"anki-auth", RtsCloudSessionRequest>>,
                          <<"connection-id", RtsAppConnectionIdRequest>>})

Requests_4 ==
    Extended(Requests_3, {<<"sdk", RtsSdkProxyRequest>>})
Requests_5 == [Requests_4 EXCEPT !["anki-auth"] = RtsCloudSessionRequest_5]
Requests_6 == Requests_5 \* doBlesh() is not reached: Blesh.isSupported()

Requests(v) ==
    <<Requests_2, Requests_3, Requests_4, Requests_5, Requests_6>>[v - 1]

\* Making the message throws where the union has no such member; in
\* doConnectionId(), which names a variable that does not exist; and for the
\* sdk command with n < 4 words, which has no GUID to send.
SendThrows(v, key, n) ==
    \/ key = "connection-id"
    \/ key = "sdk" /\ n < 4
    \/ ~HasMember(v, Requests(v)[key])

\* addTimeout(): five seconds.
Timed_2 == {"status"}
Timed_5 == Timed_2 \cup {"wifi-forget", "wifi-ap", "wifi-ip", "connection-id"}
Timed(v) == IF v >= 5 THEN Timed_5 ELSE Timed_2

-----------------------------------------------------------------------------
(* receive(): the answers that settle the promise of one key by their class *)
(* alone.  OTA progress, logs and RtsResponse are actions of RtsRequests.   *)
Answers_2 ==
    Table({<<"wifi-scan", RtsWifiScanResponse_2>>,
           <<"wifi-connect", RtsWifiConnectResponse>>,
           <<"status", RtsStatusResponse_2>>,
           <<"wifi-forget", RtsWifiForgetResponse>>,
           <<"wifi-ap", RtsWifiAccessPointResponse>>,
           <<"wifi-ip", RtsWifiIpResponse>>})

Answers_3 ==
    Extended(Answers_2, {<<"wifi-scan", RtsWifiScanResponse_3>>,
                         <<"wifi-connect", RtsWifiConnectResponse_3>>,
                         <<"status", RtsStatusResponse_3>>,
                         <<"anki-auth", RtsCloudSessionResponse>>,
                         <<"sdk", RtsSdkProxyResponse>>,
                         <<"connection-id", RtsAppConnectionIdResponse>>})

Answers_4 == [Answers_3 EXCEPT !["status"] = RtsStatusResponse_4]
Answers_5 == [Answers_4 EXCEPT !["status"] = RtsStatusResponse_5]
Answers_6 == Answers_5

Answers(v) == <<Answers_2, Answers_3, Answers_4, Answers_5, Answers_6>>[v - 1]

\* The keys whose promise receive() settles on a message of this class.
SettledBy(v, class) ==
    {key \in DOMAIN Answers(v) :
        Answers(v)[key] = class /\ HasMember(v, class)}

-----------------------------------------------------------------------------
(* handleCli(): the commands that make a request and the length of args     *)
(* each requires.                                                           *)
Commands_2 ==
    Table({<<"wifi-scan", 1>>, <<"wifi-connect", 3>>, <<"status", 1>>,
           <<"wifi-ip", 1>>, <<"wifi-forget", 2>>, <<"wifi-ap", 2>>,
           <<"anki-auth", 2>>, <<"ota-start", 2>>, <<"ota-cancel", 1>>,
           <<"logs", 1>>})

Commands_3 ==
    Extended(Commands_2, {<<"connection-id", 2>>})
Commands_4 ==
    Extended(Commands_3, {<<"sdk", 3>>})
Commands_5 == Commands_4
Commands_6 == Commands_5

Commands(v) ==
    <<Commands_2, Commands_3, Commands_4, Commands_5, Commands_6>>[v - 1]

\* Commands that print or do nothing and make no request.
Quiet_2 == {"help", "ota-progress"}
Quiet_6 == Quiet_2 \cup {"blesh"}
Quiet(v) == IF v = 6 THEN Quiet_6 ELSE Quiet_2

Leaves == {"quit", "exit"}
=============================================================================
