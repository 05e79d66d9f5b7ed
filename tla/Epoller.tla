------------------------------ MODULE Epoller -------------------------------
(***************************************************************************)
(* What Epoller::Update and Epoller::Remove (src/util/epoller.cc) do for   *)
(* one Channel.  Everything either of them reads or writes is kept in a    *)
(* "slot" record: the channel's event_ and state_, the entry channelmap_   *)
(* holds under the channel's fd, and the registration the kernel's epoll   *)
(* set holds under that fd.  epoll_ctl's result is dropped by the code, so *)
(* a call the kernel refuses leaves the registration as it was.            *)
(***************************************************************************)
CONSTANT NoChannel      \* no Channel*: an fd that nothing is recorded for

NotRegistered == [ptr |-> NoChannel, events |-> {}]

\* EPOLL_CTL_ADD of a known fd is EEXIST; MOD and DEL of an unknown one ENOENT.
EpollCtl(registered, operation, channel, events) ==
    CASE operation = "ADD" /\ registered = NotRegistered
            -> [ptr |-> channel, events |-> events]
      [] operation = "MOD" /\ registered # NotRegistered
            -> [ptr |-> channel, events |-> events]
      [] operation = "DEL"
            -> NotRegistered
      [] OTHER
            -> registered

\* Update's choice: a channel epoll does not hold is added, whatever its
\* events; one that wants no event is taken out; any other is modified.
Operation(slot, events) ==
    IF slot.state_ \in {"kNew", "kDeleted"} THEN "ADD"
    ELSE IF events = {} THEN "DEL" ELSE "MOD"

\* Channel::EnableRead/EnableWrite/DisableWrite/DisableAll: set event_, Update.
Update(slot, channel, events) ==
    LET operation == Operation(slot, events) IN
    [event_ |-> events,
     state_ |-> IF operation = "DEL" THEN "kDeleted" ELSE "kAdded",
     channelmap_ |-> IF slot.state_ = "kNew" THEN channel ELSE slot.channelmap_,
     registered |-> EpollCtl(slot.registered, operation, channel, events)]

\* Wrong variant: the entry stays in channelmap_.
RemoveKeepsEntry(slot, channel) ==
    [slot EXCEPT !.state_ = "kNew",
                 !.registered = IF slot.state_ = "kAdded"
                                THEN EpollCtl(@, "DEL", channel, {}) ELSE @]

Remove(slot, channel) ==
    [slot EXCEPT !.state_ = "kNew",
                 !.channelmap_ = NoChannel,
                 !.registered = IF slot.state_ = "kAdded"
                                THEN EpollCtl(@, "DEL", channel, {}) ELSE @]
=============================================================================
