--------------------------------- MODULE Bot ---------------------------------
(***************************************************************************)
(* Clients and master at once: one process takes the updates of all of     *)
(* them (src/main.py, src/handlers/__init__.py), one database is behind    *)
(* the services, and one MemoryStorage holds every form.  ClientForm       *)
(* leaves the master's side open to any call of his, and MasterPanel that  *)
(* of the clients; here each is what the other module says.  The master    *)
(* does not book as a client: his two forms would be one.                  *)
(***************************************************************************)
EXTENDS ClientForm, MasterPanel

botVars == <<vars, formVars, idVars, panelVars>>

BotInit == FormInit /\ PanelInit

(* The forms of clients and master are in the same memory.                 *)
ProcessRestart == Restart /\ PanelRestart

BotNext ==
  /\ \/ (\E u \in Users : FormStep(u)) /\ UNCHANGED panelVars
     \/ PanelStep /\ UNCHANGED formVars
     \/ ProcessRestart
     \/ (PanelTick \/ SchedulerStep) /\ UNCHANGED <<formVars, panelVars>>
  /\ IdHistory

BotSpec == BotInit /\ [][BotNext]_botVars
=============================================================================
