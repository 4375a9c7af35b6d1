----------------------------- MODULE LiveAlerts -----------------------------
(***************************************************************************)
(* One student's notifications: rows in PostgreSQL, announced on a Redis   *)
(* channel after their COMMIT, forwarded by the listener of a WebSocket,   *)
(* and listed and marked as read over HTTP.                                *)
(*                                                                         *)
(* `seen` and `watching` are history: the alerts on the student's screen,  *)
(* and whether, since it was last filled from the list, the socket has     *)
(* been live and every publication has gone through.                       *)
(***************************************************************************)
EXTENDS Requests, Sequences, FiniteSets

CONSTANT Alerts \* ids of notifications, each used once

VARIABLES
  inbox,   \* the rows of `notifications`
  publish, \* create_and_publish between COMMIT and PUBLISH; mark_all_read under way
  socket,  \* the WebSocket of the student
  channel, \* messages of hirekit:user:<id> that the listener has not forwarded
  seen, watching

alertVars == <<inbox, publish, socket, channel, seen, watching>>

Committed == {a \in Alerts : inbox[a] # "unused"}
Unread == {a \in Alerts : inbox[a] = "unread"}

AlertsTypeOK ==
  /\ inbox \in [Alerts -> {"unused", "unread", "read"}]
  /\ publish \in [Requests -> {Free} \cup [op: {"publish"}, alert: Alerts]
                                    \cup [op: {"mark_all"}, alerts: SUBSET Alerts]]
  /\ socket \in {"closed", "accepted", "live", "deaf"}
  /\ channel \in Seq(Alerts)
  /\ socket # "live" => channel = <<>> /\ ~watching
  /\ seen \subseteq Alerts /\ watching \in BOOLEAN

AlertsInit ==
  /\ inbox = [a \in Alerts |-> "unused"]
  /\ publish = NoRequests
  /\ socket = "closed" /\ channel = <<>>
  /\ seen = {} /\ watching = FALSE

Elements(s) == {s[i] : i \in 1..Len(s)}
Publishing == {publish[q].alert : q \in {p \in Requests : publish[p].op = "publish"}}

------------------------------------------------------------------------------
(* create_and_publish *)

\* INSERT, COMMIT, ...
CommitAlert(q, a) ==
  /\ publish[q] = Free
  /\ inbox[a] = "unused"
  /\ inbox' = [inbox EXCEPT ![a] = "unread"]
  /\ publish' = [publish EXCEPT ![q] = [op |-> "publish", alert |-> a]]
  /\ UNCHANGED <<socket, channel, seen, watching>>

\* ... then PUBLISH, which reaches who is subscribed at that moment.
Publish(q) ==
  /\ publish[q].op = "publish"
  /\ publish' = [publish EXCEPT ![q] = Free]
  /\ channel' = IF socket = "live" THEN Append(channel, publish[q].alert) ELSE channel
  /\ UNCHANGED <<inbox, socket, seen, watching>>

\* Redis fails (logged, and the request goes on), or the process dies.
PublishFails(q) ==
  /\ publish[q].op = "publish"
  /\ publish' = [publish EXCEPT ![q] = Free]
  /\ watching' = FALSE
  /\ UNCHANGED <<inbox, socket, channel, seen>>

------------------------------------------------------------------------------
(* websocket_endpoint *)

\* The token is checked and the socket accepted, ...
Accept ==
  /\ socket = "closed"
  /\ socket' = "accepted"
  /\ UNCHANGED <<inbox, publish, channel, seen, watching>>

\* ... then the channel subscribed and the listener started.
Subscribe ==
  /\ socket = "accepted"
  /\ socket' = "live"
  /\ UNCHANGED <<inbox, publish, channel, seen, watching>>

Forward_SkipsQueued ==
  /\ socket = "live"
  /\ channel # <<>>
  /\ seen' = seen \cup {channel[Len(channel)]}
  /\ channel' = <<>>
  /\ UNCHANGED <<inbox, publish, socket, watching>>

Forward_OnNextMessage ==
  /\ socket = "live"
  /\ Len(channel) >= 2
  /\ seen' = seen \cup {Head(channel)}
  /\ channel' = Tail(channel)
  /\ UNCHANGED <<inbox, publish, socket, watching>>

\* redis_listener sends a message on.
Forward ==
  /\ socket = "live"
  /\ channel # <<>>
  /\ seen' = seen \cup {Head(channel)}
  /\ channel' = Tail(channel)
  /\ UNCHANGED <<inbox, publish, socket, watching>>

\* An exception ends the listener; pings are answered as before.
ListenerDies ==
  /\ socket = "live"
  /\ socket' = "deaf"
  /\ channel' = <<>>
  /\ watching' = FALSE
  /\ UNCHANGED <<inbox, publish, seen>>

Disconnect_ChannelKept ==
  /\ socket # "closed"
  /\ socket' = "closed"
  /\ watching' = FALSE
  /\ UNCHANGED <<inbox, publish, channel, seen>>

\* WebSocketDisconnect, or the process dies.
Disconnect ==
  /\ socket # "closed"
  /\ socket' = "closed"
  /\ channel' = <<>>
  /\ watching' = FALSE
  /\ UNCHANGED <<inbox, publish, seen>>

------------------------------------------------------------------------------
(* The pages *)

\* list_notifications fills the screen (with the latest 30; there are never as
\* many here).
ListAlerts ==
  /\ seen' = Committed
  /\ watching' = (socket = "live")
  /\ UNCHANGED <<inbox, publish, socket, channel>>

\* mark_as_read, one UPDATE and its COMMIT
MarkRead(a) ==
  /\ a \in Unread
  /\ inbox' = [inbox EXCEPT ![a] = "read"]
  /\ UNCHANGED <<publish, socket, channel, seen, watching>>

\* mark_all_read: the UPDATE finds the rows committed by then, ...
StartMarkAll(q) ==
  /\ publish[q] = Free
  /\ publish' = [publish EXCEPT ![q] = [op |-> "mark_all", alerts |-> Unread]]
  /\ UNCHANGED <<inbox, socket, channel, seen, watching>>

\* ... and the COMMIT makes them read.
CommitMarkAll(q) ==
  /\ publish[q].op = "mark_all"
  /\ inbox' = [a \in Alerts |-> IF a \in publish[q].alerts THEN "read" ELSE inbox[a]]
  /\ publish' = [publish EXCEPT ![q] = Free]
  /\ UNCHANGED <<socket, channel, seen, watching>>

MarkAllFails(q) ==
  /\ publish[q].op = "mark_all"
  /\ publish' = [publish EXCEPT ![q] = Free]
  /\ UNCHANGED <<inbox, socket, channel, seen, watching>>

AlertsNext ==
  \/ \E q \in Requests :
       \/ \E a \in Alerts : CommitAlert(q, a)
       \/ Publish(q) \/ PublishFails(q)
       \/ StartMarkAll(q) \/ CommitMarkAll(q) \/ MarkAllFails(q)
  \/ Accept \/ Subscribe \/ Forward \/ ListenerDies \/ Disconnect
  \/ ListAlerts \/ \E a \in Alerts : MarkRead(a)

\* asyncio runs what can run.
AlertsFairness ==
  /\ \A q \in Requests : WF_alertVars(Publish(q) \/ PublishFails(q))
  /\ WF_alertVars(Forward)

AlertsSpec == AlertsInit /\ [][AlertsNext]_alertVars
------------------------------------------------------------------------------

\* Whoever lists after the subscription misses nothing while it lasts: every
\* alert that was committed is on the screen, or queued for it, or about to be
\* published, although COMMIT and PUBLISH are two steps and the list is a third.
ComingOrSeen ==
  watching => Committed \subseteq seen \cup Elements(channel) \cup Publishing

\* "real-time placement and interview alerts" (ws.py:18): and it gets there, or
\* the student is cut off.
AlertsArrive ==
  \A a \in Alerts : a \in Committed /\ watching ~> a \in seen \/ ~watching
==============================================================================
