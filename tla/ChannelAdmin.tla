---------------------------- MODULE ChannelAdmin -----------------------------
(* One channel and the requests that administer it (interface/routes/          *)
(* channels.py), with the connections of the worker process that carries it    *)
(* (channels/connection_manager.py, channels/webhook.py).  A request holds the *)
(* row as it read it, and what it writes are the columns it changed.           *)
EXTENDS Integers, Sequences, FiniteSets

CONSTANTS
    AdminReq,          \* requests
    Config,       \* credentials and mode of the channel
    Mode,         \* the mode of a configuration: "websocket" or "webhook"
    MaxAdapters,  \* bound: adapters built
    MaxRestarts   \* bound: restarts of the process

ASSUME AdminAssumption == /\ Mode \in [Config -> {"websocket", "webhook"}]
                          /\ MaxAdapters \in Nat /\ MaxRestarts \in Nat

Status == {"enabled", "disabled", "error"}
NoCall == [do |-> "none", pc |-> "over", seen |-> "none", config |-> "none", mine |-> 0]

VARIABLES
    row,          \* channel_configs: [status, config]; status "none" before, "deleted" after
    running,     \* _adapters[channel.id]: an adapter, or 0
    hook,         \* _webhook_registry[channel_key]: an adapter, or 0
    adapter,      \* every adapter built: [config, state]
    call,         \* the requests: what they do, where they are, the row they read
    used,         \* history: requests made
    overlapped,   \* history: whether two requests ran at a time
    restarts
dvars == <<row, running, hook, adapter, call, used, overlapped, restarts>>
links == <<running, hook, adapter>>

DTypeOK ==
    /\ row.status \in Status \cup {"none", "deleted"} /\ row.config \in Config \cup {"none"}
    /\ running \in 0 .. Len(adapter) /\ hook \in 0 .. Len(adapter)
    /\ \A n \in DOMAIN adapter : adapter[n].config \in Config /\ adapter[n].state \in {"up", "drain", "down"}
    /\ \A r \in AdminReq : call[r].pc \in {"over", "load", "verify", "commit", "start", "stop", "drain", "write"}

DInit ==
    /\ row = [status |-> "none", config |-> "none"] /\ running = 0 /\ hook = 0 /\ adapter = <<>>
    /\ call = [r \in AdminReq |-> NoCall] /\ used = {} /\ overlapped = FALSE /\ restarts = 0

Exists == row.status \in Status
CallOver(r) == [call EXCEPT ![r].pc = "over"]
To(r, pc) == [call EXCEPT ![r].pc = pc]
Quiet == \A r \in AdminReq : call[r].pc = "over"

\* What a request writes over the row, and only if it differs from what it
\* read; a row that is gone fails it.
Dirty(r, status) == call[r].seen # status
Set(r, status) == row' = IF Exists /\ Dirty(r, status) THEN [row EXCEPT !.status = status] ELSE row

-----------------------------------------------------------------------------
(* A request begins.                                                         *)

Begun(r, do, pc, status, config) ==
    /\ r \notin used /\ used' = used \cup {r} /\ overlapped' = (overlapped \/ ~Quiet)
    /\ call' = [call EXCEPT ![r] = [do |-> do, pc |-> pc, seen |-> status, config |-> config, mine |-> 0]]
(* create_channel verifies the credentials, and its row is enabled at once.    *)
Create(r, c) ==
    /\ row.status = "none" /\ Begun(r, "create", "start", "enabled", c)
    /\ row' = [status |-> "enabled", config |-> c] /\ UNCHANGED <<links, restarts>>
Load(r, do) ==
    /\ Exists
    /\ Begun(r, do, IF do = "enable" THEN "verify" ELSE "stop", row.status, row.config)
    /\ UNCHANGED <<row, links, restarts>>
(* update_channel: new credentials or a new mode disable a channel that was    *)
(* enabled.                                                                    *)
LoadUpdate(r, c) ==
    /\ Exists /\ c # row.config /\ Begun(r, "update", "commit", row.status, c)
    /\ UNCHANGED <<row, links, restarts>>
Update(r) ==
    /\ call[r].pc = "commit" /\ call' = CallOver(r)
    /\ row' = IF ~Exists THEN row
              ELSE [status |-> IF call[r].seen = "enabled" THEN "disabled" ELSE row.status,
                    config |-> call[r].config]
    /\ UNCHANGED <<links, used, overlapped, restarts>>

-----------------------------------------------------------------------------
(* Starting.                                                                 *)

(* enable_channel: the platform verifies the credentials, the row is written.  *)
Verified(r) ==
    /\ call[r].pc = "verify"
    /\ Set(r, "enabled")
    /\ call' = IF ~Exists /\ Dirty(r, "enabled") THEN CallOver(r)
               ELSE [call EXCEPT ![r].pc = "start", ![r].seen = "enabled"]
    /\ UNCHANGED <<links, used, overlapped, restarts>>
NotVerified(r) == /\ call[r].pc = "verify" /\ call' = CallOver(r)
              /\ UNCHANGED <<row, links, used, overlapped, restarts>>

(* _start_channel: the adapter is owned before it is started; starting it      *)
(* opens its task or enters it under the channel's key.                        *)
AlreadyStarted == running # 0
Opens(c) ==
    /\ Len(adapter) < MaxAdapters
    /\ adapter' = Append(adapter, [config |-> c, state |-> "up"]) /\ running' = Len(adapter) + 1
    /\ hook' = IF Mode[c] = "webhook" THEN Len(adapter) + 1 ELSE hook
Start(r) ==
    /\ call[r].pc = "start" /\ call' = CallOver(r)
    /\ \/ AlreadyStarted /\ UNCHANGED <<row, links>>
       \/ ~AlreadyStarted /\ Opens(call[r].config) /\ UNCHANGED row
       \/ ~AlreadyStarted /\ Set(r, "error") /\ UNCHANGED links       \* the adapter cannot be built
    /\ UNCHANGED <<used, overlapped, restarts>>

-----------------------------------------------------------------------------
(* Stopping: out of the running, then the turns under way, then the link.     *)

Stop(r) ==
    /\ call[r].pc = "stop" /\ running' = 0
    /\ IF running = 0 THEN call' = To(r, "write") /\ UNCHANGED adapter
       ELSE /\ call' = [call EXCEPT ![r].pc = "drain", ![r].mine = running]
            /\ adapter' = [adapter EXCEPT ![running].state = "drain"]
    /\ UNCHANGED <<row, hook, used, overlapped, restarts>>
(* The adapter's stop ends its task; a webhook's forgets the channel's key,    *)
(* whoever is entered under it.                                                *)
Leaves(n) == IF Mode[adapter[n].config] = "webhook" THEN 0 ELSE hook
AdapterDown(r) ==
    /\ call[r].pc = "drain" /\ call' = To(r, "write")
    /\ adapter' = [adapter EXCEPT ![call[r].mine].state = "down"] /\ hook' = Leaves(call[r].mine)
    /\ UNCHANGED <<row, running, used, overlapped, restarts>>
Disabled(r) ==
    /\ call[r].pc = "write" /\ call[r].do = "disable" /\ call' = CallOver(r) /\ Set(r, "disabled")
    /\ UNCHANGED <<links, used, overlapped, restarts>>
(* delete_channel: with its bindings, codes and session mappings.              *)
Deleted(r) ==
    /\ call[r].pc = "write" /\ call[r].do = "delete" /\ call' = CallOver(r)
    /\ row' = IF Exists THEN [row EXCEPT !.status = "deleted"] ELSE row
    /\ UNCHANGED <<links, used, overlapped, restarts>>

(* The process ends, with its requests; start_all starts what is enabled.      *)
RestartAll ==
    /\ restarts < MaxRestarts /\ restarts' = restarts + 1
    /\ call' = [r \in AdminReq |-> [call[r] EXCEPT !.pc = "over"]]
    /\ LET ended == [n \in DOMAIN adapter |-> [adapter[n] EXCEPT !.state = "down"]]
           n == Len(adapter) + 1
       IN \/ /\ row.status = "enabled" /\ Len(adapter) < MaxAdapters
             /\ adapter' = Append(ended, [config |-> row.config, state |-> "up"]) /\ running' = n
             /\ hook' = (IF Mode[row.config] = "webhook" THEN n ELSE 0) /\ UNCHANGED row
          \/ /\ adapter' = ended /\ running' = 0 /\ hook' = 0
             /\ row' = IF row.status = "enabled" THEN [row EXCEPT !.status = "error"] ELSE row
    /\ UNCHANGED <<used, overlapped>>

DNext == \/ \E r \in AdminReq : \/ \E c \in Config : Create(r, c) \/ LoadUpdate(r, c)
                           \/ \E do \in {"enable", "disable", "delete"} : Load(r, do)
                           \/ Update(r) \/ Verified(r) \/ NotVerified(r) \/ Start(r)
                           \/ Stop(r) \/ AdapterDown(r) \/ Disabled(r) \/ Deleted(r)
         \/ RestartAll
DSpec == DInit /\ [][DNext]_dvars

-----------------------------------------------------------------------------
(* Two connections of one channel would answer each message twice, and one     *)
(* nobody owns could not be stopped: whatever the requests overlap, an adapter *)
(* that is up is the registered one, and one that drains has a request to end  *)
(* it.                                                                         *)
NoneLeaks == \A n \in DOMAIN adapter :
    /\ adapter[n].state = "up" => running = n
    /\ adapter[n].state = "drain" => \E r \in AdminReq : call[r].pc = "drain" /\ call[r].mine = n

(* A callback is never handed to an adapter that has been stopped.             *)
CallbacksAreServed == hook # 0 => adapter[hook].state # "down"

(* Requests made one after the other leave what they say: an enabled channel   *)
(* is connected and reached by its callbacks, a deleted one and one that could *)
(* not be started are not.                                                     *)
InOrderSettled == Quiet /\ ~overlapped /\ restarts = 0 =>
    /\ row.status = "enabled" => running # 0
    /\ row.status \in {"deleted", "error"} => running = 0 /\ hook = 0
    /\ running # 0 /\ Mode[adapter[running].config] = "webhook" => hook = running
AdminHolds == NoneLeaks /\ CallbacksAreServed /\ InOrderSettled

-----------------------------------------------------------------------------
(* What the code does not keep.                                                *)

(* An enabled channel is connected with the credentials it has.                *)
EnabledIsCurrent == Quiet /\ ~overlapped /\ row.status = "enabled" /\ running # 0
                    => adapter[running].config = row.config
(* A channel that is disabled has released its connection.                     *)
DisabledIsReleased == Quiet /\ ~overlapped /\ row.status = "disabled" => running = 0
(* The same of one that was deleted, and of an enabled one the opposite,       *)
(* whatever overlapped.                                                        *)
DeletedIsReleased == Quiet /\ row.status = "deleted" => running = 0
EnabledIsServed == Quiet /\ row.status = "enabled" /\ restarts = 0 =>
    running # 0 /\ (Mode[adapter[running].config] = "webhook" => hook = running)
=============================================================================
