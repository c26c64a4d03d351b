--------------------------- MODULE GuiController ---------------------------
(***************************************************************************)
(* The graphical client: the panels the user clicks on, the controller     *)
(* task that carries the clicks out, and the connection tasks it starts.   *)
(* They run on different threads and share one GuiState behind a mutex.    *)
(*                                                                         *)
(* Nobody tells GuiState which panel a task works for: every writer calls  *)
(* set_active_server, which picks the first panel that is not              *)
(* Disconnected and fails if there is none.  The callers unwrap its        *)
(* result while they hold the mutex, so a failure poisons the mutex and    *)
(* the next frame of the window panics too: the program ends.              *)
(*                                                                         *)
(* One step is what a thread does while it holds the mutex, or between two *)
(* awaits.  What a panel only displays (the number of players and          *)
(* attempts, the ping, an error text) is left out.                         *)
(***************************************************************************)
EXTENDS Naturals, Sequences, SequencesExt

CONSTANTS NPanels,   \* number of configured servers
          Locals,    \* kinds of local addresses the user types
          Tasks,     \* the connection tasks that may exist at a time
          NoTask,    \* no connection task: Option::None
          MaxGui,    \* bound on the clicks the controller has not seen yet
          MaxStats   \* bound on the statistics it has not seen yet

\* A port number, a host with a port, or text without a colon.
ASSUME GuiAssumption ==
    /\ Locals \subseteq {"port", "host:port", "bare"}
    /\ NPanels \in Nat \ {0}
    /\ NoTask \notin Tasks
    /\ MaxGui \in Nat
    /\ MaxStats \in Nat

VARIABLES panels,           \* GuiState::servers
          gui,              \* the channel of GuiTriggeredEvents
          stats,            \* the channel of Stats
          task,             \* the connection_loop tasks
          connection_task,  \* the task whose JoinHandle the controller keeps
          poisoned,         \* a thread panicked while it held the mutex
          doubled           \* history: a Disconnect was sent behind another

vars == <<panels, gui, stats, task, connection_task, poisoned, doubled>>

Panels == 1 .. NPanels

STANDARD_LOCAL_PORT == "port"
Addresses == Locals \cup {STANDARD_LOCAL_PORT}

ServerState == {"Disconnected", "Connecting", "Connected", "Disconnecting"}
ServerPanel == [state : ServerState, edit : BOOLEAN, local : Addresses]

GuiTriggeredEvent == [type : {"Connect"}, panel : Panels, local : {"host:port", "bare"}]
                         \cup [type : {"Disconnect"}]
Stats == {"ClientsConnected", "Connected", "Ping"}

(***************************************************************************)
(* A connection task waits in sleep, connect, auth and handle.  In report  *)
(* and broken it has an outcome in hand that it is about to write into the *)
(* GuiState; there is no await there, so it cannot be cancelled.           *)
(***************************************************************************)
Awaits == {"sleep", "connect", "auth", "handle"}
TaskState == [pc : Awaits \cup {"report_ok", "report_err", "broken", "done"},
              panel : Panels, local : {"host:port", "bare"}, aborted : BOOLEAN]

\* No task: not started yet, or ended.
Ended == [pc |-> "done", panel |-> 1, local |-> "bare", aborted |-> FALSE]

TypeOK ==
    /\ panels \in [Panels -> ServerPanel]
    /\ gui \in Seq(GuiTriggeredEvent)
    /\ stats \in Seq(Stats)
    /\ task \in [Tasks -> TaskState]
    /\ connection_task \in Tasks \cup {NoTask}
    /\ poisoned \in BOOLEAN
    /\ doubled \in BOOLEAN

-----------------------------------------------------------------------------
(***************************************************************************)
(* GuiState.                                                               *)
(***************************************************************************)
IsActive(p) == panels[p].state # "Disconnected"
ActivePanels == {p \in Panels : IsActive(p)}

\* The panel GuiState::set_active_server finds.
ActiveServer == CHOOSE p \in ActivePanels : \A q \in ActivePanels : p <= q

\* GuiState::set_active_server followed by unwrap: the first active panel gets
\* the state; without one the caller panics with the mutex in its hands.
set_active_server(state) ==
    IF ActivePanels = {}
      THEN poisoned' = TRUE /\ UNCHANGED panels
      ELSE panels' = [panels EXCEPT ![ActiveServer].state = state] /\ UNCHANGED poisoned

-----------------------------------------------------------------------------
(***************************************************************************)
(* The window: MyApp::update draws every panel in one frame, with the      *)
(* mutex locked.  A frame with a click is a step.                          *)
(***************************************************************************)
\* Variant: a panel is enabled whatever the others do.
Enabled_Always(p) == TRUE

\* While one panel is active the others are drawn disabled.
Enabled(p) == IsActive(p) \/ ActivePanels = {}

\* A plain port becomes localhost:port, in the event and not in the panel.
Address(local) == IF local = "port" THEN "host:port" ELSE local

\* Variant: the port is sent as it was typed.
ClickConnect_Raw(p) ==
    /\ ~poisoned
    /\ Enabled(p)
    /\ panels[p].state = "Disconnected"
    /\ ~panels[p].edit
    /\ Len(gui) < MaxGui
    /\ panels' = [panels EXCEPT ![p].state = "Connecting"]
    /\ gui' = Append(gui, [type |-> "Connect", panel |-> p, local |-> panels[p].local])
    /\ UNCHANGED <<stats, task, connection_task, poisoned, doubled>>

\* Click on Connect.
ClickConnect(p) ==
    /\ ~poisoned
    /\ Enabled(p)
    /\ panels[p].state = "Disconnected"
    /\ ~panels[p].edit
    /\ Len(gui) < MaxGui
    /\ panels' = [panels EXCEPT ![p].state = "Connecting"]
    /\ gui' = Append(gui, [type |-> "Connect", panel |-> p,
                           local |-> Address(panels[p].local)])
    /\ UNCHANGED <<stats, task, connection_task, poisoned, doubled>>

\* Variant: the controller is not told.
ClickDisconnect_Silent(p) ==
    /\ ~poisoned
    /\ Enabled(p)
    /\ panels[p].state \in {"Connected", "Connecting"}
    /\ ~panels[p].edit
    /\ panels' = [panels EXCEPT ![p].state = "Disconnecting"]
    /\ UNCHANGED <<gui, stats, task, connection_task, poisoned, doubled>>

\* Click on Disconnect, or on Stop connecting.
ClickDisconnect(p) ==
    /\ ~poisoned
    /\ Enabled(p)
    /\ panels[p].state \in {"Connected", "Connecting"}
    /\ ~panels[p].edit
    /\ Len(gui) < MaxGui
    /\ panels' = [panels EXCEPT ![p].state = "Disconnecting"]
    /\ gui' = Append(gui, [type |-> "Disconnect"])
    /\ doubled' = (doubled \/ \E i \in DOMAIN gui : gui[i].type = "Disconnect")
    /\ UNCHANGED <<stats, task, connection_task, poisoned>>

\* Variant: the pencil is not disabled while the panel is active.
StartEdit_Anytime(p) ==
    /\ ~poisoned
    /\ Enabled(p)
    /\ ~panels[p].edit
    /\ panels' = [panels EXCEPT ![p].edit = TRUE]
    /\ UNCHANGED <<gui, stats, task, connection_task, poisoned, doubled>>

\* Click on the pencil next to the local port.
StartEdit(p) ==
    /\ ~poisoned
    /\ Enabled(p)
    /\ panels[p].state = "Disconnected"
    /\ ~panels[p].edit
    /\ panels' = [panels EXCEPT ![p].edit = TRUE]
    /\ UNCHANGED <<gui, stats, task, connection_task, poisoned, doubled>>

\* Ok stores what was typed, cancel drops it, reset stores the standard port.
EndEdit(p) ==
    /\ ~poisoned
    /\ Enabled(p)
    /\ panels[p].edit
    /\ \E local \in Addresses :
         panels' = [panels EXCEPT ![p].edit = FALSE, ![p].local = local]
    /\ UNCHANGED <<gui, stats, task, connection_task, poisoned, doubled>>

-----------------------------------------------------------------------------
(***************************************************************************)
(* Controller::update: select! takes any arm that is ready.                *)
(***************************************************************************)
\* Statistics.  A ping changes nothing but the number shown; Stats::Connected is
\* ignored.
ControllerStats ==
    /\ ~poisoned
    /\ stats # <<>>
    /\ stats' = Tail(stats)
    /\ CASE Head(stats) = "ClientsConnected" -> set_active_server("Connected")
         [] Head(stats) = "Ping"             -> set_active_server(panels[ActiveServer].state)
         [] Head(stats) = "Connected"        -> UNCHANGED <<panels, poisoned>>
    /\ UNCHANGED <<gui, task, connection_task, doubled>>

\* GuiTriggeredEvent::Connect starts a task and keeps its handle; the handle
\* kept before is dropped, which does not stop the task behind it.
ControllerConnect(t) ==
    /\ ~poisoned
    /\ gui # <<>> /\ Head(gui).type = "Connect"
    /\ task[t] = Ended
    /\ task' = [task EXCEPT ![t] = [pc |-> "sleep", panel |-> Head(gui).panel,
                                    local |-> Head(gui).local, aborted |-> FALSE]]
    /\ connection_task' = t
    /\ gui' = Tail(gui)
    /\ UNCHANGED <<panels, stats, poisoned, doubled>>

\* Variant: the handle is dropped and the task not aborted.
ControllerDisconnect_Detaches ==
    /\ ~poisoned
    /\ gui # <<>> /\ Head(gui).type = "Disconnect"
    /\ gui' = Tail(gui)
    /\ connection_task' = NoTask
    /\ set_active_server("Disconnected")
    /\ UNCHANGED <<task, stats, doubled>>

\* GuiTriggeredEvent::Disconnect takes the handle, aborts the task and marks
\* the active panel Disconnected.
ControllerDisconnect ==
    /\ ~poisoned
    /\ gui # <<>> /\ Head(gui).type = "Disconnect"
    /\ gui' = Tail(gui)
    /\ task' = [t \in Tasks |-> IF t = connection_task /\ task[t] # Ended
                                  THEN [task[t] EXCEPT !.aborted = TRUE] ELSE task[t]]
    /\ connection_task' = NoTask
    /\ set_active_server("Disconnected")
    /\ UNCHANGED <<stats, doubled>>

-----------------------------------------------------------------------------
(***************************************************************************)
(* connection_loop.                                                        *)
(***************************************************************************)
Goto(t, pc) == task' = [task EXCEPT ![t].pc = pc]
End(t) == task' = [task EXCEPT ![t] = Ended]

\* The pause before an attempt is over.
Slept(t) ==
    /\ ~poisoned
    /\ task[t].pc = "sleep" /\ ~task[t].aborted
    /\ Goto(t, "connect")
    /\ UNCHANGED <<panels, gui, stats, connection_task, poisoned, doubled>>

\* Client::connect: reach the Minecraft server, then the proxy, and send the
\* identifier.  A refused or lost connection and the timeout are errors.  An
\* address without a port reaches nothing.
Connect(t) ==
    /\ ~poisoned
    /\ task[t].pc = "connect" /\ ~task[t].aborted
    /\ \/ task[t].local = "host:port" /\ Goto(t, "auth")
       \/ Goto(t, "report_err")
    /\ UNCHANGED <<panels, gui, stats, connection_task, poisoned, doubled>>

\* Client::auth: hello, challenge, signature, response.  A closed connection,
\* an unexpected packet, a ProxyError and the timeout are errors; success also
\* sends Stats::Connected.
Auth(t) ==
    /\ ~poisoned
    /\ task[t].pc = "auth" /\ ~task[t].aborted
    /\ \/ /\ Len(stats) < MaxStats
          /\ Goto(t, "report_ok")
          /\ stats' = Append(stats, "Connected")
       \/ /\ Goto(t, "report_err")
          /\ UNCHANGED stats
    /\ UNCHANGED <<panels, gui, connection_task, poisoned, doubled>>

\* The outcome of the attempt goes into the active panel; after an error the
\* loop starts over, after a success the tunnel is served.
Report(t) ==
    /\ ~poisoned
    /\ \/ task[t].pc = "report_ok" /\ set_active_server("Connected") /\ Goto(t, "handle")
       \/ task[t].pc = "report_err" /\ set_active_server("Connecting") /\ Goto(t, "sleep")
    /\ UNCHANGED <<gui, stats, connection_task, doubled>>

\* Client::handle serves the tunnel (module ClientAgent): a player who comes
\* or goes and every pong is reported.
Serve(t) ==
    /\ ~poisoned
    /\ task[t].pc = "handle"
    /\ Len(stats) < MaxStats
    /\ \E s \in {"ClientsConnected", "Ping"} : stats' = Append(stats, s)
    /\ UNCHANGED <<panels, gui, task, connection_task, poisoned, doubled>>

\* Client::handle returns: Ok when its writer has ended, which ends the task
\* without a word to the GuiState, or an error.
HandleReturns(t) ==
    /\ ~poisoned
    /\ task[t].pc = "handle"
    /\ End(t) \/ Goto(t, "broken")
    /\ UNCHANGED <<panels, gui, stats, connection_task, poisoned, doubled>>

\* The error of a tunnel that broke is shown and the loop starts over.
ReportBroken(t) ==
    /\ ~poisoned
    /\ task[t].pc = "broken"
    /\ set_active_server("Connecting")
    /\ Goto(t, "sleep")
    /\ UNCHANGED <<gui, stats, connection_task, doubled>>

\* The runtime drops an aborted task once it waits for a timer or the network.
\* A task that was running when it was aborted goes on until then: it reports
\* the outcome it has, and handle first serves the packets that are there.
Cancelled(t) ==
    /\ ~poisoned
    /\ task[t].aborted /\ task[t].pc \in Awaits
    /\ End(t)
    /\ UNCHANGED <<panels, gui, stats, connection_task, poisoned, doubled>>

-----------------------------------------------------------------------------
\* ServerPanel::from and MyApp::new: every stored server is disconnected.
Init ==
    /\ panels \in [Panels -> [state : {"Disconnected"}, edit : {FALSE},
                              local : Addresses]]
    /\ gui = <<>>
    /\ stats = <<>>
    /\ task = [t \in Tasks |-> Ended]
    /\ connection_task = NoTask
    /\ poisoned = FALSE
    /\ doubled = FALSE

Next ==
    \/ \E p \in Panels : ClickConnect(p) \/ ClickDisconnect(p) \/ StartEdit(p) \/ EndEdit(p)
    \/ ControllerStats
    \/ ControllerDisconnect
    \/ \E t \in Tasks : ControllerConnect(t)
    \/ \E t \in Tasks : \/ Slept(t) \/ Connect(t) \/ Auth(t) \/ Report(t) \/ Serve(t)
                        \/ HandleReturns(t) \/ ReportBroken(t) \/ Cancelled(t)

Spec == Init /\ [][Next]_vars

(***************************************************************************)
(* tokio polls the controller whenever an event is ready, select! picks    *)
(* the ready arms at random, and the runtime schedules every task that can *)
(* run.  Nothing is assumed of the user, the timers or the network.        *)
(***************************************************************************)
Fairness ==
    /\ WF_vars(ControllerDisconnect)
    /\ WF_vars(\E t \in Tasks : ControllerConnect(t))
    /\ \A t \in Tasks : WF_vars(Cancelled(t)) /\ WF_vars(Report(t)) /\ WF_vars(ReportBroken(t))

FairSpec == Spec /\ Fairness

-----------------------------------------------------------------------------
(***************************************************************************)
(* Properties.                                                             *)
(***************************************************************************)
\* A task that is neither finished nor aborted.
Running(t) == task[t] # Ended /\ ~task[t].aborted

\* At most one panel is not Disconnected, so "the active server" is one panel
\* whatever clicks, statistics and outcomes of tasks come in between.
OneActive == \A p, q \in ActivePanels : p = q

\* No tunnel is served behind the user's back: a task that was not aborted is
\* the one the controller can still abort, and the panel it was started for is
\* active.  The exception is a second Disconnect sent while the first has not
\* been handled: it deactivates the panel of a Connect that comes after it.
NoHiddenTunnel ==
    \A t \in Tasks : Running(t) /\ ~doubled =>
        t = connection_task /\ IsActive(task[t].panel)

\* The local address a panel shows is the one its task connects to: it cannot be
\* edited between the click on Connect and the end of the task.
PortShownIsUsed ==
    \A t \in Tasks : Running(t) /\ ~doubled =>
        LET p == panels[task[t].panel]
        IN  ~p.edit /\ task[t].local = Address(p.local)

\* Every set_active_server(..).unwrap() of the controller and of the connection
\* tasks finds an active server.
ActiveServerFound == ~poisoned

\* After a click on Disconnect the task of that panel ends, although it and
\* its statistics may write another state into the panel meanwhile.
DisconnectEndsTunnel ==
    \A t \in Tasks :
        (task[t] # Ended /\ panels[task[t].panel].state = "Disconnecting")
            ~> (task[t] = Ended \/ doubled \/ poisoned)
=============================================================================
