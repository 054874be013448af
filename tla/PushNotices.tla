------------------------------ MODULE PushNotices ------------------------------
(***************************************************************************)
(* Push messages of one room: the subscriptions that pages register        *)
(* (usePushSubscription, saveSubscription), the warning that a break ends, *)
(* which a queued job sends to every member (sendBreakWarning, sendToRoom), *)
(* and the alerts a member gets for leaving the screen (sendToUser), with  *)
(* their cooldown.                                                         *)
(*                                                                         *)
(* A member's subscriptions are numbered.  The push services are external: *)
(* a subscription may end at any time, and they may refuse any message.    *)
(* VAPID keys are set; without them nothing is ever sent.                  *)
(***************************************************************************)
EXTENDS Naturals, FiniteSets

CONSTANTS
  Members,
  Androids,    \* the members whose device is reached by way of SNS
  Alerts,      \* slots of handleEscapeStarted
  MaxSubs,     \* bound: subscriptions of one member
  MaxTurns     \* bound: what members, push services and Redis do of their own accord

VARIABLES
  ended,     \* the member's last subscription has ended
  made,      \* the number of the member's last subscription, 0: none yet
  posts,     \* registrations on their way to the server: <<member, number>>
  pushSub,   \* push_sub: a number, NoSub, or NoTarget
  quitters,  \* RoomState.members: gaveUpAt
  cooldown,  \* push_cooldown
  alert,     \* the alerts under way
  warning,   \* the job break-warning, and how far sendToRoom is with each member
  shown,     \* the members whose device has shown this warning
  steady,    \* history: members reachable by one subscription since sendToRoom began
  rejected,  \* Redis calls of the warning that were rejected
  turns

devices == <<ended, made, posts>>
keys    == <<pushSub, cooldown>>
vars    == <<devices, keys, quitters, alert, warning, shown, steady, rejected, turns>>

NoSub    == 0              \* no key
NoTarget == MaxSubs + 1    \* {platform: 'android', data: null}
Attempts == 3
NoAlert  == [pc |-> "idle", to |-> CHOOSE m \in Members : TRUE, sub |-> NoSub]

PushTypeOK ==
  /\ ended \in [Members -> BOOLEAN] /\ made \in [Members -> 0..MaxSubs]
  /\ posts \subseteq Members \X (1..MaxSubs) /\ pushSub \in [Members -> 0..NoTarget]
  /\ quitters \subseteq Members /\ cooldown \subseteq Members
  /\ alert \in [Alerts -> [pc : {"idle", "find", "send", "cool", "drop"}, to : Members, sub : 0..NoTarget]]
  /\ warning \in [job : {"queued", "active", "rejected", "done", "failed"}, left : 0..Attempts,
                  at : [Members -> {"find", "send", "over"}], sub : [Members -> 0..NoTarget]]
  /\ shown \subseteq Members /\ steady \subseteq Members
  /\ rejected \in 0..turns /\ turns \in 0..MaxTurns

\* Some members have come from the timer page, with a subscription.
Init ==
  /\ ended = [m \in Members |-> FALSE] /\ made \in [Members -> {0, 1}] /\ posts = {}
  /\ pushSub = made /\ quitters = {} /\ cooldown = {}
  /\ alert = [s \in Alerts |-> NoAlert]
  /\ warning = [job |-> "queued", left |-> Attempts, at |-> [m \in Members |-> "over"],
                sub |-> [m \in Members |-> NoSub]]
  /\ shown = {} /\ steady = {} /\ rejected = 0 /\ turns = 0

Turn == turns < MaxTurns /\ turns' = turns + 1

-----------------------------------------------------------------------------
(* Subscriptions *)

Live(m, n)   == n = made[m] /\ ~ended[m] /\ n > 0
Reachable(m) == Live(m, pushSub[m])
\* A member whose key or subscription changes is not steadily reachable.
Kept == steady' = {m \in steady : Reachable(m)' /\ pushSub'[m] = pushSub[m]}

\* The timer page is opened: it takes the subscription there is, or makes one.
Subscribe(m) ==
  /\ Turn
  /\ IF Live(m, made[m]) THEN UNCHANGED <<ended, made>>
     ELSE /\ made[m] < MaxSubs /\ made' = [made EXCEPT ![m] = @ + 1]
          /\ ended' = [ended EXCEPT ![m] = FALSE]
  /\ posts' = posts \cup {<<m, made'[m]>>}
  /\ UNCHANGED <<keys, quitters, alert, warning, shown, rejected>> /\ Kept

End(m) ==
  /\ Turn /\ Live(m, made[m]) /\ ended' = [ended EXCEPT ![m] = TRUE]
  /\ UNCHANGED <<made, posts, keys, quitters, alert, warning, shown, rejected>> /\ Kept

\* An Android token that SNS does not register is saved as no target at all.
SaveSubscription(p) ==
  /\ p \in posts /\ posts' = posts \ {p}
  /\ \/ pushSub' = [pushSub EXCEPT ![p[1]] = p[2]] /\ UNCHANGED turns
     \/ /\ p[1] \in Androids /\ Turn
        /\ pushSub' = [pushSub EXCEPT ![p[1]] = NoTarget]
  /\ UNCHANGED <<ended, made, cooldown, quitters, alert, warning, shown, rejected>> /\ Kept

GiveUp(m) ==
  /\ Turn /\ m \notin quitters /\ quitters' = quitters \cup {m}
  /\ UNCHANGED <<devices, keys, alert, warning, shown, steady, rejected>>

-----------------------------------------------------------------------------
(* sendToUser *)

AlertStep(s, pc) == alert' = [alert EXCEPT ![s] = IF pc = "idle" THEN NoAlert ELSE [@ EXCEPT !.pc = pc]]
AlertRest == UNCHANGED <<devices, quitters, warning, shown, rejected>>

Escape(s, m) ==
  /\ Turn /\ alert[s].pc = "idle" /\ m \notin cooldown \cup quitters
  /\ alert' = [alert EXCEPT ![s] = [pc |-> "find", to |-> m, sub |-> NoSub]]
  /\ AlertRest /\ UNCHANGED <<keys, steady>>

AlertFind(s) ==
  /\ alert[s].pc = "find"
  /\ LET n == pushSub[alert[s].to] IN
     alert' = [alert EXCEPT ![s] = IF n = NoSub THEN NoAlert ELSE [@ EXCEPT !.pc = "send", !.sub = n]]
  /\ AlertRest /\ UNCHANGED <<keys, steady, turns>>

\* A web push to a subscription that has ended is answered with 410.
AlertSend(s) ==
  /\ alert[s].pc = "send" /\ AlertRest /\ UNCHANGED <<keys, steady>>
  /\ \/ /\ AlertStep(s, IF Live(alert[s].to, alert[s].sub) THEN "cool"
                        ELSE IF alert[s].to \in Androids THEN "idle" ELSE "drop")
        /\ UNCHANGED turns
     \/ Turn /\ AlertStep(s, "idle")

AlertCool(s) ==
  /\ alert[s].pc = "cool" /\ AlertStep(s, "idle") /\ cooldown' = cooldown \cup {alert[s].to}
  /\ AlertRest /\ UNCHANGED <<pushSub, steady, turns>>

\* The key goes, whatever it holds by now.
AlertDrop(s) ==
  /\ alert[s].pc = "drop" /\ AlertStep(s, "idle")
  /\ pushSub' = [pushSub EXCEPT ![alert[s].to] = NoSub]
  /\ AlertRest /\ UNCHANGED <<cooldown, turns>> /\ Kept

CoolDown(m) ==
  /\ m \in cooldown /\ cooldown' = cooldown \ {m}
  /\ AlertRest /\ UNCHANGED <<pushSub, alert, steady, turns>>

-----------------------------------------------------------------------------
(* sendBreakWarning *)

WarningRest == UNCHANGED <<devices, keys, quitters, alert>>

\* The job is taken: the members are those of the room's state now.
Warn ==
  /\ warning.job = "queued"
  /\ warning' = [warning EXCEPT !.job = "active", !.at = [m \in Members |-> IF m \in quitters THEN "over" ELSE "find"]]
  /\ steady' = {m \in Members \ quitters : Reachable(m)}
  /\ WarningRest /\ UNCHANGED <<shown, turns, rejected>>

\* Mutant: members who have just been alerted are left alone.
WarnFindCalm(m) ==
  /\ warning.at[m] = "find"
  /\ warning' = [warning EXCEPT !.sub[m] = pushSub[m],
                   !.at[m] = IF pushSub[m] = NoSub \/ m \in cooldown THEN "over" ELSE "send"]
  /\ WarningRest /\ UNCHANGED <<shown, steady, turns, rejected>>

WarnFind(m) ==
  /\ warning.at[m] = "find"
  /\ warning' = [warning EXCEPT !.sub[m] = pushSub[m], !.at[m] = IF pushSub[m] = NoSub THEN "over" ELSE "send"]
  /\ WarningRest /\ UNCHANGED <<shown, steady, turns, rejected>>

\* A message that cannot be delivered is logged, and no more.
WarnSend(m) ==
  /\ warning.at[m] = "send" /\ warning' = [warning EXCEPT !.at[m] = "over"]
  /\ \/ shown' = (IF Live(m, warning.sub[m]) THEN shown \cup {m} ELSE shown) /\ UNCHANGED <<steady, turns>>
     \/ /\ Turn
        /\ steady' = steady \ {m} /\ UNCHANGED shown
  /\ WarningRest /\ UNCHANGED rejected

\* A rejected Redis call rejects the whole; the other members go on.
WarnRejected(m) ==
  /\ Turn /\ rejected' = rejected + 1
  /\ warning.at[m] = "find"
  /\ warning' = [warning EXCEPT !.at[m] = "over", !.job = "rejected"]
  /\ WarningRest /\ UNCHANGED <<shown, steady>>

\* The job is over once all members are: break:warning is emitted, or the job
\* is tried again.  (The second before a retry outlasts the other members.)
WarnOver ==
  /\ warning.job \in {"active", "rejected"} /\ \A m \in Members : warning.at[m] = "over"
  /\ warning' = IF warning.job = "active" THEN [warning EXCEPT !.job = "done"]
                ELSE [warning EXCEPT !.left = @ - 1, !.job = IF warning.left > 1 THEN "queued" ELSE "failed"]
  /\ WarningRest /\ UNCHANGED <<shown, steady, turns, rejected>>

PushNext ==
  \/ \E m \in Members : Subscribe(m) \/ End(m) \/ GiveUp(m) \/ CoolDown(m)
                          \/ WarnFind(m) \/ WarnSend(m) \/ WarnRejected(m)
  \/ \E p \in posts : SaveSubscription(p)
  \/ \E s \in Alerts : AlertFind(s) \/ AlertSend(s) \/ AlertCool(s) \/ AlertDrop(s)
  \/ \E s \in Alerts, m \in Members : Escape(s, m)
  \/ Warn \/ WarnOver

PushSpec == Init /\ [][PushNext]_vars

-----------------------------------------------------------------------------
(* Properties *)

\* A warning that goes through has been shown to every member who serves and
\* can be reached, whatever becomes of the messages to the others and of the
\* alerts the member gets meanwhile; it is given up only after as many rejected
\* Redis calls as it has attempts (sendToRoom, scheduleSessionJobs).
WarnsAll ==
  /\ warning.job = "done" => steady \subseteq shown
  /\ warning.job = "failed" => rejected >= Attempts
=============================================================================
