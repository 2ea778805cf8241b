------------------------------- MODULE Alerts -------------------------------
(***************************************************************************)
(* AlertService.send (src/services/alert_service.py): one message per      *)
(* topic and cooldown, unless it is forced.  A send reads the clock, waits *)
(* for Telegram, and stores the time it has read if Telegram took the      *)
(* message; other senders run while it waits.  Times are ages, in ticks,   *)
(* as far back as they matter.                                             *)
(*                                                                         *)
(* This is a part of the process: module Updates adds the senders.         *)
(***************************************************************************)
EXTENDS Integers

CONSTANTS
  Topics,
  Senders,    \* tasks that may be waiting for Telegram at once
  Cooldown,   \* DEFAULT_COOLDOWN_SECONDS
  Timeout     \* settings.request_timeout: no call to Telegram takes longer

ASSUME AlertsAssumption ==
  {Cooldown, Timeout} \subseteq Nat

VARIABLES
  sent_at,   \* per topic, the age of the entry; Cooldown when it is no matter
  sending,   \* per sender, the message on its way, or Silent
  latest     \* history: per topic, the age of the start of the youngest send
             \* that Telegram took

alerts == <<sent_at, sending, latest>>

Silent == [topic |-> "none", age |-> 0]
Message(topic) == [topic |-> topic, age |-> 0]

-----------------------------------------------------------------------------
Suppressed(topic) == sent_at[topic] < Cooldown

Send(x, topic) ==
  /\ sending[x] = Silent
  /\ sending' = [sending EXCEPT ![x] = Message(topic)]
  /\ UNCHANGED <<sent_at, latest>>

Younger(a, b) == IF a < b THEN a ELSE b

Delivered(x) ==
  LET message == sending[x] IN
  /\ message # Silent
  /\ sent_at' = [sent_at EXCEPT ![message.topic] = Younger(message.age, Cooldown)]
  /\ latest' = [latest EXCEPT ![message.topic] = Younger(@, message.age)]
  /\ sending' = [sending EXCEPT ![x] = Silent]

NotDeliveredCoolsDown(x) ==   \* mutant: a failed send starts the cooldown too
  /\ sending[x] # Silent
  /\ sent_at' = [sent_at EXCEPT ![sending[x].topic] = 0]
  /\ sending' = [sending EXCEPT ![x] = Silent]
  /\ UNCHANGED latest

(* Telegram refuses the message or is not reached: no cooldown starts.     *)
NotDelivered(x) ==
  /\ sending[x] # Silent
  /\ sending' = [sending EXCEPT ![x] = Silent]
  /\ UNCHANGED <<sent_at, latest>>

AlertsElapse ==
  /\ \A x \in Senders : sending[x] # Silent => sending[x].age < Timeout
  /\ sent_at' = [k \in Topics |-> Younger(sent_at[k] + 1, Cooldown)]
  /\ latest' = [k \in Topics |-> Younger(latest[k] + 1, Cooldown)]
  /\ sending' = [x \in Senders |->
                   IF sending[x] = Silent THEN Silent
                   ELSE [sending[x] EXCEPT !.age = @ + 1]]

AlertsInit ==
  /\ sent_at = [k \in Topics |-> Cooldown]
  /\ latest = [k \in Topics |-> Cooldown]
  /\ sending = [x \in Senders |-> Silent]

AlertsTypeOK ==
  /\ {sent_at, latest} \subseteq [Topics -> 0..Cooldown]
  /\ sending \in [Senders -> {Silent} \cup [topic : Topics, age : 0..Timeout]]

-----------------------------------------------------------------------------
(* The cooldown follows the messages that went out.  Nobody is silenced by *)
(* a message that was not delivered; and what an error storm gets through  *)
(* is what was on its way together: a send that was slower than a later    *)
(* one sets the entry back, but never by more than a call may take.        *)
CooldownFollowsMessages ==
  \A k \in Topics :
    /\ latest[k] <= sent_at[k]
    /\ sent_at[k] <= latest[k] + Timeout
=============================================================================
