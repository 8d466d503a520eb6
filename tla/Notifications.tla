---------------------------- MODULE Notifications ----------------------------
(***************************************************************************)
(* Notifications about one run: the server sends one over every channel    *)
(* its environment names and keeps a record of each attempt; the MCP       *)
(* process retries those with a failed record.  Both append to the run's   *)
(* notifications.jsonl.                                                    *)
(*   notifications/dispatcher.py, notifications/feishu.py,                 *)
(*   notifications/wecom.py, notifications/base.py, monitoring/retry.py    *)
(***************************************************************************)
EXTENDS Naturals, Sequences, FiniteSets, SequencesExt

CONSTANTS NotificationIds,     \* a notification's type and the run it is about
          MaxRecords           \* bound on the lines of the file

ASSUME NotificationsAssumption == MaxRecords \in Nat

VARIABLES
    config,      \* the environment both processes were started with
    sender,      \* per process: the notification it is sending, or idle
    records,     \* notifications.jsonl
    delivered,   \* what a channel has received
    asked,       \* the notifications the server was asked to send
    retried      \* how the latest retry ended

notificationsVars == <<config, sender, records, delivered, asked, retried>>

Senders == {"server", "mcp"}
(* Dry by default.  What a channel in use needs may be missing; the rest of *)
(* the environment does not matter.                                         *)
Configs ==
    {c \in [channels : {"webhook", "openapi", "both"},
           dry : BOOLEAN, url : BOOLEAN, app : BOOLEAN] :
        /\ c.dry \/ c.channels = "openapi" => ~c.url
        /\ c.dry \/ c.channels = "webhook" => ~c.app}
AtEase == [step |-> "idle"]

(* default_notifiers: resolve_feishu_notifiers, then WeCom *)
ChannelsOf(c) ==
    CASE c.channels = "webhook" -> <<"feishu", "wecom">>
      [] c.channels = "openapi" -> <<"feishu_openapi", "wecom">>
      [] c.channels = "both" -> <<"feishu_openapi", "feishu_webhook", "wecom">>

NotificationsInit ==
    /\ config \in Configs
    /\ sender = [p \in Senders |-> AtEase]
    /\ records = <<>> /\ delivered = {} /\ asked = {}
    /\ retried = "never"

RecordsOf(id) == {i \in DOMAIN records : records[i].id = id}

----------------------------------------------------------------------------
(* dispatch_notification over the channels in turn.  "rest": the other     *)
(* notifications of a retry; "ends": how those before it ended.            *)
Sending(id, rest, ends) ==
    [step |-> "sending", id |-> id, todo |-> ChannelsOf(config), failed |-> {},
     rest |-> rest, ends |-> ends]

Dispatch(id) ==
    /\ sender["server"] = AtEase
    /\ sender' = [sender EXCEPT !["server"] = Sending(id, {}, {})]
    /\ asked' = asked \cup {id}
    /\ UNCHANGED <<config, records, delivered, retried>>

(* send_payload: WeCom and a dry run send nothing and succeed.  A request   *)
(* that times out may have been received.                                   *)
Silent == [status |-> "dispatched", got |-> FALSE]
Lost == [status |-> "failed", got |-> FALSE]
Posted == {[status |-> "dispatched", got |-> TRUE], [status |-> "failed", got |-> TRUE], Lost}

SendByWebhook == IF config.dry THEN {Silent} ELSE IF config.url THEN Posted ELSE {Lost}

(* Credentials and a recipient, a token first: without it nothing is posted. *)
SendByOpenAPI == IF config.dry THEN {Silent} ELSE IF config.app THEN Posted ELSE {Lost}

Outcomes(channel) ==
    CASE channel = "wecom" -> {Silent}
      [] channel = "feishu_openapi" -> SendByOpenAPI
      [] OTHER -> SendByWebhook

SendOne(p) ==
    /\ sender[p].step = "sending" /\ sender[p].todo # <<>> /\ Len(records) < MaxRecords
    /\ LET channel == Head(sender[p].todo)
           id == sender[p].id
       IN  \E o \in Outcomes(channel) :
              /\ records' = Append(records, [id |-> id, channel |-> channel, status |-> o.status])
              /\ delivered' = IF o.got THEN delivered \cup {<<id, channel>>} ELSE delivered
              /\ sender' = [sender EXCEPT
                    ![p].todo = Tail(@),
                    ![p].failed = IF o.status = "failed" THEN @ \cup {channel} ELSE @]
    /\ UNCHANGED <<config, asked, retried>>

(* The status of one dispatch, and of a retry of several: a retry that left *)
(* a channel without the notification may well end "dispatched".            *)
DispatchStatus(failed, channels) ==
    CASE failed = {} -> "dispatched"
      [] failed = Range(channels) -> "failed"
      [] OTHER -> "partial_success"

RetryStatus(ends) ==
    CASE ends = {"failed"} -> "failed"
      [] "failed" \in ends -> "partial_success"
      [] OTHER -> "dispatched"

EndDispatch(p) ==
    /\ sender[p].step = "sending" /\ sender[p].todo = <<>>
    /\ LET ends == sender[p].ends
                     \cup {DispatchStatus(sender[p].failed, ChannelsOf(config))}
       IN  \/ /\ sender[p].rest = {}
              /\ sender' = [sender EXCEPT ![p] = AtEase]
              /\ retried' = IF p = "mcp" THEN RetryStatus(ends) ELSE retried
           \/ \E id \in sender[p].rest :
              /\ sender' = [sender EXCEPT ![p] = Sending(id, sender[p].rest \ {id}, ends)]
              /\ UNCHANGED retried
    /\ UNCHANGED <<config, records, delivered, asked>>

(* The record cannot be written, or the process dies: the rest is not sent. *)
BreakOff(p) ==
    /\ sender[p].step = "sending"
    /\ sender' = [sender EXCEPT ![p] = AtEase]
    /\ asked' = IF p = "server" THEN asked \ {sender[p].id} ELSE asked
    /\ retried' = IF p = "mcp" THEN "failed" ELSE retried
    /\ UNCHANGED <<config, records, delivered>>

(* _latest_failed_notification_records: every notification that has ever    *)
(* failed on a channel, whatever came after.                                *)
LastFailed(ids) ==                    \* Mutant: the last record of each decides
    {id \in ids : RecordsOf(id) # {}
        /\ \E i \in RecordsOf(id) : (\A j \in RecordsOf(id) : j <= i) /\ records[i].status = "failed"}

EverFailed(ids) == {id \in ids : \E i \in RecordsOf(id) : records[i].status = "failed"}

(* retry_operation: without a failed record it raises. *)
Retry ==
    /\ sender["mcp"] = AtEase
    /\ \E targets \in {EverFailed(NotificationIds)} : \E id \in targets :
          sender' = [sender EXCEPT !["mcp"] = Sending(id, targets \ {id}, {})]
    /\ UNCHANGED <<config, records, delivered, asked, retried>>

NotificationsNext ==
    \/ \E id \in NotificationIds : Dispatch(id)
    \/ \E p \in Senders : SendOne(p) \/ EndDispatch(p) \/ BreakOff(p)
    \/ Retry

----------------------------------------------------------------------------
(* As long as one of the server's channels has not taken a notification that *)
(* was sent to the end, a retry would send it: the failure of one channel is *)
(* not hidden by the success of the next.                                    *)
Taken(id, channel) ==
    \E i \in RecordsOf(id) : records[i].channel = channel /\ records[i].status = "dispatched"

LossIsRetriable ==
    \A id \in asked :
        \/ sender["server"].step = "sending" /\ sender["server"].id = id
        \/ id \in EverFailed(NotificationIds)
        \/ \A i \in DOMAIN ChannelsOf(config) :
              Taken(id, ChannelsOf(config)[i])
==============================================================================
