------------------------------ MODULE Updates ------------------------------
(***************************************************************************)
(* From Telegram to a handler and back to the master: the polling loop     *)
(* (src/main.py), the throttle, the error middleware                       *)
(* (src/middlewares/error.py) and the alerts, together with the jobs and   *)
(* the loop handler, which use the same alerts.  All of this is memory of  *)
(* one process and starts anew with it.                                    *)
(*                                                                         *)
(* A handler is an await that ends well, with an error it knows, or with   *)
(* one it does not; what it does to the bookings is in the other modules.  *)
(***************************************************************************)
EXTENDS Throttle, Alerts

CONSTANTS
  RECONNECT_START,   \* _RECONNECT_START_SECONDS
  RECONNECT_MAX      \* _RECONNECT_MAX_SECONDS

ASSUME UpdatesAssumption ==
  /\ {RECONNECT_START, RECONNECT_MAX} \subseteq Nat \ {0}
  /\ RECONNECT_START <= RECONNECT_MAX
  /\ "none" \notin Topics /\ "crash" \in Topics

VARIABLES
  polling,   \* "on", "lost" (asleep until the next attempt), or "off"
  wait,      \* what is left of that sleep
  backoff,   \* how long the next one will be
  task       \* per sender: "idle", "handler", "failed" (its reply is on its
             \* way), or "alert"

process == <<polling, wait, backoff>>
vars == <<throttle, alerts, process, task>>

Become(x, step) == task' = [task EXCEPT ![x] = step]

-----------------------------------------------------------------------------
(***************************************************************************)
(* One update.                                                             *)
(***************************************************************************)
Arrives(u, x) ==
  /\ polling = "on"
  /\ task[x] = "idle"
  /\ Allow(u)
  /\ Become(x, "handler")
  /\ UNCHANGED <<alerts, process>>

Dropped(u) ==
  /\ polling = "on"
  /\ Refuse(u)
  /\ UNCHANGED <<alerts, process, task>>

(* It ends well, or with an error that has an answer of its own.           *)
HandlerEnds(x) ==
  /\ task[x] = "handler"
  /\ Become(x, "idle")
  /\ UNCHANGED <<throttle, alerts, process>>

HandlerCrashes(x) ==
  /\ task[x] = "handler"
  /\ Become(x, "failed")
  /\ UNCHANGED <<throttle, alerts, process>>

(* _reply answers the client, then _alert tells the master.                *)
Alert(x, topic) ==
  /\ IF Suppressed(topic) THEN Become(x, "idle") /\ UNCHANGED alerts
     ELSE Become(x, "alert") /\ Send(x, topic)
  /\ UNCHANGED <<throttle, process>>

Replied(x) == task[x] = "failed" /\ Alert(x, "crash")

(* The answer to a tap is only safe from TelegramBadRequest: what else it  *)
(* raises leaves the middleware, and the alert is never sent.              *)
ReplyFails(x) ==
  /\ task[x] = "failed"
  /\ Become(x, "idle")
  /\ UNCHANGED <<throttle, alerts, process>>

(* _guarded, and the handler of the event loop: topics of their own.       *)
BackgroundError(x, topic) == task[x] = "idle" /\ Alert(x, topic)

AlertEnds(x) ==
  /\ task[x] = "alert"
  /\ Delivered(x) \/ NotDelivered(x)
  /\ Become(x, "idle")
  /\ UNCHANGED <<throttle, process>>

-----------------------------------------------------------------------------
(***************************************************************************)
(* _run_polling.                                                           *)
(***************************************************************************)
NetworkLost ==
  /\ polling = "on"
  /\ polling' = "lost" /\ wait' = backoff
  /\ UNCHANGED <<backoff, throttle, alerts, task>>

DoubledUncapped(seconds) == 2 * seconds   \* mutant: the delay grows for ever

Doubled(seconds) == Younger(2 * seconds, RECONNECT_MAX)

ReconnectUntilMax ==   \* mutant: gives up at the longest delay
  /\ polling = "lost" /\ wait = 0
  /\ backoff < RECONNECT_MAX
  /\ polling' = "on" /\ backoff' = Doubled(backoff)
  /\ UNCHANGED <<wait, throttle, alerts, task>>

(* The delay is never set back, however well the polling goes.             *)
Reconnect ==
  /\ polling = "lost" /\ wait = 0
  /\ polling' = "on" /\ backoff' = Doubled(backoff)
  /\ UNCHANGED <<wait, throttle, alerts, task>>

(* The process ends: another copy of the bot, a signal, an error.          *)
Stop ==
  /\ polling # "off"
  /\ polling' = "off" /\ wait' = 0 /\ backoff' = RECONNECT_START
  /\ ThrottleRestart
  /\ sent_at' = [k \in Topics |-> Cooldown]
  /\ latest' = [k \in Topics |-> Cooldown]
  /\ sending' = [x \in Senders |-> Silent]
  /\ task' = [x \in Senders |-> "idle"]

Boot ==
  /\ polling = "off"
  /\ polling' = "on"
  /\ UNCHANGED <<wait, backoff, throttle, alerts, task>>

Tick ==
  /\ polling # "off"
  /\ ThrottleElapse /\ AlertsElapse
  /\ wait' = IF wait > 0 THEN wait - 1 ELSE 0
  /\ UNCHANGED <<polling, backoff, task>>

Init ==
  /\ ThrottleInit /\ AlertsInit
  /\ polling = "off" /\ wait = 0 /\ backoff = RECONNECT_START
  /\ task = [x \in Senders |-> "idle"]

TaskStep(x) ==
  \/ HandlerEnds(x) \/ HandlerCrashes(x)
  \/ Replied(x) \/ ReplyFails(x)
  \/ AlertEnds(x)

Next ==
  \/ \E u \in Users, x \in Senders : Arrives(u, x)
  \/ \E u \in Users : Dropped(u)
  \/ \E x \in Senders : TaskStep(x)
  \/ \E x \in Senders, k \in Topics \ {"crash"} : BackgroundError(x, k)
  \/ NetworkLost \/ Reconnect \/ Stop \/ Boot
  \/ Tick

Spec == Init /\ [][Next]_vars

(***************************************************************************)
(* Time passes, a sleep ends, and a call to Telegram ends before its       *)
(* timeout, so a task comes to its end.                                    *)
(***************************************************************************)
FairSpec ==
  /\ Spec
  /\ WF_vars(Tick) /\ WF_vars(Reconnect)
  /\ \A x \in Senders : WF_vars(TaskStep(x))

-----------------------------------------------------------------------------
TypeOK ==
  /\ ThrottleTypeOK /\ AlertsTypeOK
  /\ polling \in {"on", "lost", "off"}
  /\ wait \in 0..RECONNECT_MAX /\ backoff \in RECONNECT_START..RECONNECT_MAX
  /\ task \in [Senders -> {"idle", "handler", "failed", "alert"}]
  /\ \A x \in Senders : task[x] = "alert" <=> sending[x] # Silent

(* The bot that has lost Telegram tries again.                             *)
PollingResumes == (polling = "lost") ~> (polling # "lost")

(* A client who goes on tapping, however fast, gets through again and      *)
(* again: a refused tap may cost him his place, but never for good.        *)
GetsThrough(u) == \E x \in Senders : Arrives(u, x)
Taps(u) == GetsThrough(u) \/ Dropped(u)

TappingGetsThrough ==
  \A u \in Users :
    []<><<Taps(u)>>_vars /\ <>[](polling = "on") => []<><<GetsThrough(u)>>_vars
=============================================================================
