------------------------ MODULE GuiControllerProofs ------------------------
(***************************************************************************)
(* Proofs about GuiController, for every number of panels, of tasks and of *)
(* queued clicks and statistics.                                           *)
(***************************************************************************)
EXTENDS GuiController, ChannelLemmas

\* The two kinds of clicks in the channel of the controller.
ConnectEvent(p) ==
    [type |-> "Connect", panel |-> p, local |-> Address(panels[p].local)]
DisconnectEvent == [type |-> "Disconnect"]

\* An active panel is not being edited.
ActiveNotEdited == \A p \in Panels : IsActive(p) => ~ panels[p].edit

\* Without a doubled Disconnect the clicks that wait are those of the active
\* panel, in the order Connect, Disconnect.
QueueShape ==
    \/ gui = <<>>
    \/ gui = <<DisconnectEvent>> /\ ActivePanels # {}
    \/ \E p \in ActivePanels :
          gui = <<ConnectEvent(p)>> \/ gui = <<ConnectEvent(p), DisconnectEvent>>

\* A task that runs belongs to the active panel and to the controller's handle, and
\* no Connect waits.
RunningKnown ==
    \A t \in Tasks : Running(t) =>
        /\ t = connection_task
        /\ IsActive(task[t].panel)
        /\ task[t].local = Address(panels[task[t].panel].local)
        /\ gui = <<>> \/ gui = <<DisconnectEvent>>

\* The inductive invariant.
IInv ==
    /\ TypeOK
    /\ OneActive
    /\ ActiveNotEdited
    /\ ~ doubled => QueueShape /\ RunningKnown

-----------------------------------------------------------------------------
\* The panel set_active_server finds is active, if one is.
LEMMA ActiveServerActive ==
    ASSUME ActivePanels # {}
    PROVE  ActiveServer \in ActivePanels
<1>1. ActivePanels \subseteq Nat
      BY GuiAssumption DEF ActivePanels, Panels, GuiAssumption
<1>2. QED  BY <1>1, NatSetHasMin DEF ActiveServer

\* What a click that a panel sends is made of.
LEMMA EventTypes ==
    ASSUME TypeOK, NEW p \in Panels
    PROVE  ConnectEvent(p) \in GuiTriggeredEvent /\ DisconnectEvent \in GuiTriggeredEvent
<1>1. panels[p].local \in {"port", "host:port", "bare"}
      BY GuiAssumption DEF TypeOK, ServerPanel, Addresses, STANDARD_LOCAL_PORT, GuiAssumption
<1>2. QED
      BY <1>1 DEF ConnectEvent, DisconnectEvent, GuiTriggeredEvent, Address

\* set_active_server(..).unwrap() changes the state of one panel, the active one.
LEMMA SetActive ==
    ASSUME TypeOK, NEW state \in ServerState, set_active_server(state)
    PROVE  /\ panels' \in [Panels -> ServerPanel] /\ poisoned' \in BOOLEAN
           /\ \A q \in Panels : panels'[q].edit = panels[q].edit
                                /\ panels'[q].local = panels[q].local
           /\ state # "Disconnected" => ActivePanels' = ActivePanels
           /\ state = "Disconnected" /\ OneActive => ActivePanels' = {}
<1>1. CASE ActivePanels = {}
      BY <1>1 DEF set_active_server, TypeOK, ActivePanels, IsActive
<1>2. CASE ActivePanels # {}
  <2> DEFINE a == ActiveServer
  <2>1. a \in ActivePanels /\ a \in Panels
        BY <1>2, ActiveServerActive DEF ActivePanels
  <2>2. panels' = [panels EXCEPT ![a].state = state] /\ poisoned' = poisoned
        BY <1>2 DEF set_active_server
  <2> HIDE DEF a
  <2>3. \A q \in Panels : panels'[q] = IF q = a THEN [panels[q] EXCEPT !.state = state]
                                       ELSE panels[q]
        BY <2>1, <2>2 DEF TypeOK
  <2>4. panels' \in [Panels -> ServerPanel]
        BY <2>1, <2>2 DEF TypeOK, ServerPanel
  <2>5. \A q \in Panels : /\ panels'[q].edit = panels[q].edit
                          /\ panels'[q].local = panels[q].local
                          /\ panels'[q].state = IF q = a THEN state ELSE panels[q].state
        BY <2>1, <2>3 DEF TypeOK, ServerPanel
  <2>6. state # "Disconnected" => ActivePanels' = ActivePanels
        BY <2>1, <2>5 DEF ActivePanels, IsActive
  <2>7. state = "Disconnected" /\ OneActive => ActivePanels' = {}
        BY <2>1, <2>5 DEF ActivePanels, IsActive, OneActive
  <2>8. QED  BY <2>2, <2>4, <2>5, <2>6, <2>7, Zenon DEF TypeOK
<1>3. QED  BY <1>1, <1>2

\* Where a connection task can be.
Stages == Awaits \cup {"report_ok", "report_err", "broken", "done"}

\* A connection task that moves on or ends stays what it was started for, and no
\* task begins to run.
MovesOn ==
    /\ task' \in [Tasks -> TaskState]
    /\ \A u \in Tasks : Running(u)' =>
          /\ Running(u)
          /\ task'[u].panel = task[u].panel /\ task'[u].local = task[u].local

\* What Goto and End do with the tasks.
LEMMA TaskMoves ==
    ASSUME TypeOK, NEW t \in Tasks, task[t].pc # "done",
           End(t) \/ \E pc \in Stages : Goto(t, pc)
    PROVE  MovesOn
<1>0. task[t] \in TaskState /\ task[t] # Ended
      BY DEF TypeOK, Ended
<1>1. CASE End(t)
  <2>1. Ended \in TaskState
        BY GuiAssumption DEF Ended, TaskState, Awaits, Panels, GuiAssumption
  <2>2. task' = [task EXCEPT ![t] = Ended]
        BY <1>1 DEF End
  <2>3. \A u \in Tasks : task'[u] = IF u = t THEN Ended ELSE task[u]
        BY <2>2 DEF TypeOK
  <2>4. QED  BY <2>1, <2>2, <2>3 DEF TypeOK, Running, MovesOn
<1>2. ASSUME NEW pc \in Stages, Goto(t, pc) PROVE MovesOn
  <2>1. task' = [task EXCEPT ![t].pc = pc]
        BY <1>2 DEF Goto
  <2>2. \A u \in Tasks : /\ u # t => task'[u] = task[u]
                         /\ task'[u].aborted = task[u].aborted
                         /\ task'[u].panel = task[u].panel
                         /\ task'[u].local = task[u].local
        BY <2>1 DEF TypeOK, TaskState
  <2>3. task' \in [Tasks -> TaskState]
        BY <2>1 DEF TypeOK, TaskState, Stages
  <2>4. QED  BY <1>0, <2>2, <2>3, Zenon DEF Running, MovesOn
<1>3. QED  BY <1>1, <1>2

-----------------------------------------------------------------------------
\* Steps of connection tasks that leave panels and clicks alone.
TaskStep(t) ==
    Slept(t) \/ Connect(t) \/ Auth(t) \/ Serve(t) \/ HandleReturns(t) \/ Cancelled(t)

\* Steps that write an outcome into the active panel.
ReportStep(t) == Report(t) \/ ReportBroken(t)

\* They move one task on, or none.
LEMMA TaskStepMoves ==
    ASSUME TypeOK, NEW t \in Tasks, TaskStep(t)
    PROVE  /\ MovesOn
           /\ UNCHANGED <<panels, gui, connection_task, poisoned, doubled>>
           /\ stats' \in Seq(Stats)
<1> USE DEF Stages, Awaits
<1>1. CASE Slept(t)
      BY <1>1, TaskMoves DEF Slept, TypeOK
<1>2. CASE Connect(t)
      BY <1>2, TaskMoves DEF Connect, TypeOK
<1>3. CASE Auth(t)
  <2>1. MovesOn
        BY <1>3, TaskMoves DEF Auth
  <2>2. stats' \in Seq(Stats)
        BY <1>3, ChannelTypes DEF Auth, TypeOK, Stats
  <2>3. QED  BY <1>3, <2>1, <2>2 DEF Auth
<1>4. CASE Serve(t)
  <2>1. MovesOn
        BY <1>4, Zenon DEF Serve, MovesOn, Running, TypeOK
  <2>2. stats' \in Seq(Stats)
        BY <1>4, ChannelTypes DEF Serve, TypeOK, Stats
  <2>3. QED  BY <1>4, <2>1, <2>2 DEF Serve
<1>5. CASE HandleReturns(t)
      BY <1>5, TaskMoves DEF HandleReturns, TypeOK
<1>6. CASE Cancelled(t)
      BY <1>6, TaskMoves DEF Cancelled, TypeOK
<1>7. QED  BY <1>1, <1>2, <1>3, <1>4, <1>5, <1>6 DEF TaskStep

\* A report moves its task on and leaves the set of active panels alone.
LEMMA ReportMoves ==
    ASSUME TypeOK, NEW t \in Tasks, ReportStep(t)
    PROVE  /\ MovesOn
           /\ UNCHANGED <<gui, stats, connection_task, doubled>>
           /\ \E state \in {"Connected", "Connecting"} : set_active_server(state)
<1>1. MovesOn
      BY TaskMoves DEF ReportStep, Report, ReportBroken, Stages, Awaits
<1>2. QED  BY <1>1, Zenon DEF ReportStep, Report, ReportBroken

-----------------------------------------------------------------------------
\* The invariant holds at first.
LEMMA InitIInv == Init => IInv
<1> SUFFICES ASSUME Init PROVE IInv  OBVIOUS
<1>1. panels \in [Panels -> ServerPanel]
      BY DEF Init, ServerPanel, ServerState
<1>2. Ended \in TaskState
      BY GuiAssumption DEF Ended, TaskState, Awaits, Panels, GuiAssumption
<1>3. TypeOK
  <2>1. gui \in Seq(GuiTriggeredEvent) /\ stats \in Seq(Stats)
        BY DEF Init
  <2>2. QED  BY <1>1, <1>2, <2>1 DEF Init, TypeOK
<1>4. ActivePanels = {}
      BY DEF Init, ActivePanels, IsActive
<1>5. OneActive /\ ActiveNotEdited
      BY <1>4, Zenon DEF OneActive, ActiveNotEdited, ActivePanels
<1>6. QueueShape /\ RunningKnown
      BY DEF Init, QueueShape, RunningKnown, Running
<1>7. QED  BY <1>3, <1>5, <1>6 DEF IInv

\* A step that lets tasks move on, sends no click and leaves the same panels active
\* keeps the invariant.
LEMMA QuietStep ==
    ASSUME IInv, MovesOn, UNCHANGED <<gui, connection_task, doubled>>,
           stats' \in Seq(Stats), poisoned' \in BOOLEAN,
           panels' \in [Panels -> ServerPanel], ActivePanels' = ActivePanels,
           \A q \in Panels : panels'[q].edit = panels[q].edit
                             /\ panels'[q].local = panels[q].local
    PROVE  IInv'
<1>1. TypeOK'
      BY Zenon DEF IInv, TypeOK, MovesOn
<1>2. \A q \in Panels : IsActive(q)' <=> IsActive(q)
      BY Zenon DEF ActivePanels
<1>3. OneActive'
      BY Zenon DEF IInv, OneActive
<1>4. ActiveNotEdited'
      BY <1>2, Zenon DEF IInv, ActiveNotEdited
<1>5. ASSUME ~ doubled' PROVE QueueShape' /\ RunningKnown'
  <2>1. QueueShape /\ RunningKnown
        BY <1>5, Zenon DEF IInv
  <2>2. \A q \in Panels : ConnectEvent(q)' = ConnectEvent(q)
        BY Zenon DEF ConnectEvent, Address
  <2>3. QueueShape'
        BY <2>1, <2>2 DEF QueueShape, DisconnectEvent, ActivePanels
  <2>4. \A u \in Tasks : Running(u) => task[u].panel \in Panels
        BY DEF IInv, TypeOK, TaskState
  <2>5. ASSUME NEW u \in Tasks, Running(u)'
        PROVE  /\ u = connection_task'
               /\ IsActive(task[u].panel)'
               /\ task'[u].local = Address(panels'[task'[u].panel].local)
               /\ gui' = <<>> \/ gui' = <<DisconnectEvent>>
    <3>1. /\ Running(u) /\ task'[u].panel = task[u].panel /\ task'[u].local = task[u].local
          /\ task[u].panel \in Panels
          BY <2>4, <2>5 DEF MovesOn
    <3>2. /\ u = connection_task /\ IsActive(task[u].panel)
          /\ task[u].local = Address(panels[task[u].panel].local)
          /\ gui = <<>> \/ gui = <<DisconnectEvent>>
          BY <2>1, <3>1 DEF RunningKnown
    <3>3. IsActive(task[u].panel)'
          BY <1>2, <3>1, <3>2 DEF IsActive
    <3>4. QED  BY <3>1, <3>2, <3>3 DEF Address
  <2>6. RunningKnown'
        BY <2>5 DEF RunningKnown, DisconnectEvent, Address
  <2>7. QED  BY <2>3, <2>6
<1>6. QED  BY <1>1, <1>3, <1>4, <1>5, Zenon DEF IInv

\* The connection tasks keep the invariant.
LEMMA TasksKeep ==
    ASSUME IInv, NEW t \in Tasks, TaskStep(t) \/ ReportStep(t)
    PROVE  IInv'
<1>0. TypeOK  BY DEF IInv
<1>1. CASE TaskStep(t)
  <2>1. /\ MovesOn
        /\ UNCHANGED <<panels, gui, connection_task, poisoned, doubled>>
        /\ stats' \in Seq(Stats)
        BY <1>0, <1>1, TaskStepMoves
  <2>2. ActivePanels' = ActivePanels
        BY <2>1, Zenon DEF ActivePanels, IsActive
  <2>3. QED  BY <1>0, <2>1, <2>2, QuietStep, Zenon DEF TypeOK
<1>2. CASE ReportStep(t)
  <2>1. MovesOn /\ UNCHANGED <<gui, stats, connection_task, doubled>>
        BY <1>0, <1>2, ReportMoves
  <2>2. PICK state \in {"Connected", "Connecting"} : set_active_server(state)
        BY <1>0, <1>2, ReportMoves
  <2>3. state \in ServerState /\ state # "Disconnected"
        BY DEF ServerState
  <2>4. /\ panels' \in [Panels -> ServerPanel] /\ poisoned' \in BOOLEAN
        /\ \A q \in Panels : panels'[q].edit = panels[q].edit
                             /\ panels'[q].local = panels[q].local
        /\ ActivePanels' = ActivePanels
        BY <1>0, <2>2, <2>3, SetActive
  <2>5. QED  BY <1>0, <2>1, <2>4, QuietStep, Zenon DEF TypeOK
<1>3. QED  BY <1>1, <1>2

\* The statistics keep it: they only ever touch the active panel.
LEMMA StatsKeep ==
    ASSUME IInv, ControllerStats
    PROVE  IInv'
<1>0. TypeOK  BY DEF IInv
<1>1. /\ stats # <<>> /\ stats' = Tail(stats)
      /\ UNCHANGED <<gui, task, connection_task, doubled>>
      BY DEF ControllerStats
<1>2. stats' \in Seq(Stats) /\ Head(stats) \in Stats
      BY <1>0, <1>1, ChannelTypes DEF TypeOK
<1>3. MovesOn
      BY <1>0, <1>1, Zenon DEF MovesOn, Running, TypeOK
<1> DEFINE Kept == /\ panels' \in [Panels -> ServerPanel] /\ poisoned' \in BOOLEAN
                   /\ \A q \in Panels : panels'[q].edit = panels[q].edit
                                        /\ panels'[q].local = panels[q].local
                   /\ ActivePanels' = ActivePanels
<1>4. CASE UNCHANGED <<panels, poisoned>>
  <2>1. Kept  BY <1>0, <1>4, Zenon DEF TypeOK, ActivePanels, IsActive
  <2>2. QED  BY <1>1, <1>2, <1>3, <2>1, QuietStep, Zenon
<1>5. ASSUME NEW state \in ServerState, state # "Disconnected", set_active_server(state)
      PROVE  IInv'
  <2>1. Kept  BY <1>0, <1>5, SetActive
  <2>2. QED  BY <1>1, <1>2, <1>3, <2>1, QuietStep, Zenon
<1>6. CASE Head(stats) = "ClientsConnected"
  <2>1. set_active_server("Connected")
        BY <1>6 DEF ControllerStats
  <2>2. QED  BY <1>5, <2>1 DEF ServerState
<1>7. CASE Head(stats) = "Ping" /\ ActivePanels = {}
  <2>1. set_active_server(panels[ActiveServer].state)
        BY <1>7 DEF ControllerStats
  <2>2. poisoned' = TRUE /\ UNCHANGED panels
        BY <1>7, <2>1 DEF set_active_server
  <2>3. Kept  BY <1>0, <2>2, Zenon DEF TypeOK, ActivePanels, IsActive
  <2>4. QED  BY <1>1, <1>2, <1>3, <2>3, QuietStep, Zenon
<1>8. CASE Head(stats) = "Ping" /\ ActivePanels # {}
  <2>1. set_active_server(panels[ActiveServer].state)
        BY <1>8 DEF ControllerStats
  <2>2. ActiveServer \in ActivePanels
        BY <1>8, ActiveServerActive
  <2>3. panels[ActiveServer].state \in ServerState \ {"Disconnected"}
        BY <1>0, <2>2 DEF ActivePanels, IsActive, TypeOK, ServerPanel
  <2>4. QED  BY <1>5, <2>1, <2>3, Zenon
<1>9. CASE Head(stats) = "Connected"
  <2>1. UNCHANGED <<panels, poisoned>>
        BY <1>9 DEF ControllerStats
  <2>2. QED  BY <1>4, <2>1
<1>10. QED  BY <1>2, <1>6, <1>7, <1>8, <1>9 DEF Stats

-----------------------------------------------------------------------------
\* A click on Connect: no panel is active, so no click waits and no task runs.
LEMMA ClickConnectKeeps ==
    ASSUME IInv, NEW p \in Panels, ClickConnect(p)
    PROVE  IInv'
<1>0. TypeOK  BY DEF IInv
<1>1. ActivePanels = {}
      BY DEF ClickConnect, Enabled, IsActive
<1>2. /\ panels' = [panels EXCEPT ![p].state = "Connecting"]
      /\ gui' = Append(gui, ConnectEvent(p)) /\ ~ panels[p].edit
      /\ UNCHANGED <<stats, task, connection_task, poisoned, doubled>>
      BY DEF ClickConnect, ConnectEvent
<1>3. /\ panels' \in [Panels -> ServerPanel]
      /\ \A q \in Panels : q # p => panels'[q] = panels[q]
      /\ panels'[p].edit = panels[p].edit /\ panels'[p].local = panels[p].local
      /\ panels'[p].state = "Connecting"
      BY <1>0, <1>2 DEF TypeOK, ServerPanel, ServerState
<1>4. ActivePanels' = {p}
      BY <1>1, <1>3 DEF ActivePanels, IsActive
<1>5. TypeOK'
  <2>1. gui' \in Seq(GuiTriggeredEvent)
        BY <1>0, <1>2, EventTypes, ChannelTypes DEF TypeOK
  <2>2. QED  BY <1>0, <1>2, <1>3, <2>1, Zenon DEF TypeOK
<1>6. OneActive'
      BY <1>4, Zenon DEF OneActive
<1>7. ActiveNotEdited'
      BY <1>2, <1>3, <1>4 DEF ActiveNotEdited, ActivePanels
<1>8. ASSUME ~ doubled' PROVE QueueShape' /\ RunningKnown'
  <2>1. QueueShape /\ RunningKnown
        BY <1>2, <1>8, Zenon DEF IInv
  <2>2. gui = <<>>
        BY <1>1, <2>1 DEF QueueShape
  <2>3. gui' = <<ConnectEvent(p)>>
        BY <1>2, <2>2
  <2>4. ConnectEvent(p)' = ConnectEvent(p)
        BY <1>3, Zenon DEF ConnectEvent, Address
  <2>5. QueueShape'
        BY <1>4, <2>3, <2>4 DEF QueueShape
  <2>6. \A t \in Tasks : ~ Running(t)
    <3>1. \A t \in Tasks : task[t].panel \in Panels
          BY <1>0 DEF TypeOK, TaskState
    <3>2. QED  BY <1>1, <2>1, <3>1 DEF RunningKnown, ActivePanels
  <2>7. RunningKnown'
        BY <1>2, <2>6, Zenon DEF RunningKnown, Running
  <2>8. QED  BY <2>5, <2>7
<1>9. QED  BY <1>5, <1>6, <1>7, <1>8, Zenon DEF IInv

\* A click on Disconnect, or on Stop connecting: the panel stays the active one.
LEMMA ClickDisconnectKeeps ==
    ASSUME IInv, NEW p \in Panels, ClickDisconnect(p)
    PROVE  IInv'
<1>0. TypeOK  BY DEF IInv
<1>1. p \in ActivePanels
      BY DEF ClickDisconnect, ActivePanels, IsActive
<1>2. /\ panels' = [panels EXCEPT ![p].state = "Disconnecting"]
      /\ gui' = Append(gui, DisconnectEvent)
      /\ doubled' = (doubled \/ \E i \in DOMAIN gui : gui[i].type = "Disconnect")
      /\ UNCHANGED <<stats, task, connection_task, poisoned>>
      BY DEF ClickDisconnect, DisconnectEvent
<1>3. /\ panels' \in [Panels -> ServerPanel]
      /\ \A q \in Panels : /\ panels'[q].edit = panels[q].edit
                           /\ panels'[q].local = panels[q].local
                           /\ panels'[q].state = IF q = p THEN "Disconnecting"
                                                 ELSE panels[q].state
      BY <1>0, <1>2 DEF TypeOK, ServerPanel, ServerState
<1>4. ActivePanels' = ActivePanels
      BY <1>1, <1>3 DEF ActivePanels, IsActive
<1>5. TypeOK'
  <2>1. gui' \in Seq(GuiTriggeredEvent)
        BY <1>0, <1>2, EventTypes, ChannelTypes DEF TypeOK
  <2>2. doubled' \in BOOLEAN
        BY <1>2
  <2>3. QED  BY <1>0, <1>2, <1>3, <2>1, <2>2, Zenon DEF TypeOK
<1>6. OneActive'
      BY <1>4, Zenon DEF IInv, OneActive
<1>7. ActiveNotEdited'
      BY <1>3, <1>4, Zenon DEF IInv, ActiveNotEdited, ActivePanels
<1>8. ASSUME ~ doubled' PROVE QueueShape' /\ RunningKnown'
  <2>1. ~ doubled /\ \A i \in DOMAIN gui : gui[i].type # "Disconnect"
        BY <1>2, <1>8, Zenon
  <2>2. QueueShape /\ RunningKnown
        BY <2>1, Zenon DEF IInv
  <2>3. gui = <<>> \/ \E q \in ActivePanels : gui = <<ConnectEvent(q)>>
    <3>1. gui # <<DisconnectEvent>>
      <4>1. SUFFICES ASSUME gui = <<DisconnectEvent>> PROVE FALSE
            OBVIOUS
      <4>2. 1 \in DOMAIN gui /\ gui[1].type = "Disconnect"
            BY <4>1 DEF DisconnectEvent
      <4>3. QED  BY <2>1, <4>2
    <3>2. ASSUME NEW q \in ActivePanels PROVE gui # <<ConnectEvent(q), DisconnectEvent>>
      <4>1. SUFFICES ASSUME gui = <<ConnectEvent(q), DisconnectEvent>> PROVE FALSE
            OBVIOUS
      <4>2. 2 \in DOMAIN gui /\ gui[2].type = "Disconnect"
            BY <4>1 DEF DisconnectEvent
      <4>3. QED  BY <2>1, <4>2
    <3>3. QED  BY <2>2, <3>1, <3>2 DEF QueueShape
  <2>4. \A q \in Panels : ConnectEvent(q)' = ConnectEvent(q)
        BY <1>3, Zenon DEF ConnectEvent, Address
  <2>5. CASE gui = <<>>
    <3>1. gui' = <<DisconnectEvent>>
          BY <1>2, <2>5
    <3>2. QueueShape'
          BY <1>1, <1>4, <3>1 DEF QueueShape, DisconnectEvent
    <3>3. ASSUME NEW t \in Tasks, Running(t)'
          PROVE  /\ t = connection_task' /\ IsActive(task[t].panel)'
                 /\ task'[t].local = Address(panels'[task'[t].panel].local)
      <4>1. Running(t) /\ task[t].panel \in Panels
            BY <1>0, <1>2, <3>3 DEF Running, TypeOK, TaskState
      <4>2. /\ t = connection_task /\ task[t].panel \in ActivePanels
            /\ task[t].local = Address(panels[task[t].panel].local)
            BY <2>2, <4>1 DEF RunningKnown, ActivePanels
      <4>3. IsActive(task[t].panel)'
            BY <1>2, <1>4, <4>2 DEF ActivePanels, IsActive
      <4>4. QED  BY <1>2, <1>3, <4>1, <4>2, <4>3
    <3>4. RunningKnown'
          BY <3>1, <3>3, Zenon DEF RunningKnown, DisconnectEvent, Address
    <3>5. QED  BY <3>2, <3>4
  <2>6. ASSUME NEW q \in ActivePanels, gui = <<ConnectEvent(q)>>
        PROVE  QueueShape' /\ RunningKnown'
    <3>1. gui' = <<ConnectEvent(q), DisconnectEvent>> /\ q \in Panels
      <4>1. gui' = <<ConnectEvent(q), DisconnectEvent>>
            BY <1>2, <2>6, ShortChannels, Zenon
      <4>2. QED  BY <4>1 DEF ActivePanels
    <3>2. QueueShape'
      <4>1. gui' = <<ConnectEvent(q)', DisconnectEvent'>> /\ q \in ActivePanels'
            BY <1>4, <2>4, <3>1 DEF DisconnectEvent
      <4>2. QED  BY <4>1, Zenon DEF QueueShape
    <3>3. gui # <<>> /\ gui # <<DisconnectEvent>>
      <4>1. ConnectEvent(q).type # DisconnectEvent.type
            BY DEF ConnectEvent, DisconnectEvent
      <4>2. QED  BY <2>6, <4>1
    <3>4. \A t \in Tasks : ~ Running(t)
          BY <2>2, <3>3, Zenon DEF RunningKnown
    <3>5. RunningKnown'
          BY <1>2, <3>4, Zenon DEF RunningKnown, Running
    <3>6. QED  BY <3>2, <3>5
  <2>7. QED  BY <2>3, <2>5, <2>6
<1>9. QED  BY <1>5, <1>6, <1>7, <1>8, Zenon DEF IInv

\* Editing touches only a panel that is not active.
LEMMA EditKeeps ==
    ASSUME IInv, NEW p \in Panels, StartEdit(p) \/ EndEdit(p)
    PROVE  IInv'
<1>0. TypeOK  BY DEF IInv
<1>1. ~ IsActive(p) /\ UNCHANGED <<gui, stats, task, connection_task, poisoned, doubled>>
      BY DEF IInv, ActiveNotEdited, StartEdit, EndEdit, IsActive
<1>2. /\ panels' \in [Panels -> ServerPanel]
      /\ \A q \in Panels : q # p => panels'[q] = panels[q]
      /\ panels'[p].state = panels[p].state
  <2>1. CASE StartEdit(p)
        BY <1>0, <2>1 DEF StartEdit, TypeOK, ServerPanel
  <2>2. CASE EndEdit(p)
    <3>1. PICK local \in Addresses :
             panels' = [panels EXCEPT ![p].edit = FALSE, ![p].local = local]
          BY <2>2 DEF EndEdit
    <3>2. panels' \in [Panels -> ServerPanel]
          BY <1>0, <3>1 DEF TypeOK, ServerPanel
    <3>3. /\ \A q \in Panels : q # p => panels'[q] = panels[q]
          /\ panels'[p].state = panels[p].state
          BY <1>0, <3>1 DEF TypeOK, ServerPanel
    <3>4. QED  BY <3>2, <3>3
  <2>3. QED  BY <2>1, <2>2
<1>3. ActivePanels' = ActivePanels /\ p \notin ActivePanels
      BY <1>1, <1>2 DEF ActivePanels, IsActive
<1>4. \A q \in ActivePanels : panels'[q] = panels[q] /\ ConnectEvent(q)' = ConnectEvent(q)
  <2>1. \A q \in ActivePanels : panels'[q] = panels[q]
        BY <1>2, <1>3 DEF ActivePanels
  <2>2. QED  BY <2>1, Zenon DEF ConnectEvent, Address
<1>5. TypeOK'
      BY <1>0, <1>1, <1>2, Zenon DEF TypeOK
<1>6. OneActive'
      BY <1>3, Zenon DEF IInv, OneActive
<1>7. ActiveNotEdited'
  <2>1. ASSUME NEW q \in Panels, IsActive(q)' PROVE ~ panels'[q].edit
    <3>1. q \in ActivePanels
          BY <1>3, <2>1 DEF ActivePanels
    <3>2. QED  BY <1>4, <3>1 DEF IInv, ActiveNotEdited, ActivePanels
  <2>2. QED  BY <2>1, Zenon DEF ActiveNotEdited
<1>8. ASSUME ~ doubled' PROVE QueueShape' /\ RunningKnown'
  <2>1. QueueShape /\ RunningKnown
        BY <1>1, <1>8, Zenon DEF IInv
  <2>2. QueueShape'
        BY <1>1, <1>3, <1>4, <2>1 DEF QueueShape, DisconnectEvent
  <2>3. ASSUME NEW t \in Tasks, Running(t)'
        PROVE  /\ t = connection_task' /\ IsActive(task[t].panel)'
               /\ task'[t].local = Address(panels'[task'[t].panel].local)
               /\ gui' = <<>> \/ gui' = <<DisconnectEvent>>
    <3>1. Running(t) /\ task[t].panel \in Panels
          BY <1>0, <1>1, <2>3 DEF Running, TypeOK, TaskState
    <3>2. /\ t = connection_task /\ task[t].panel \in ActivePanels
          /\ task[t].local = Address(panels[task[t].panel].local)
          /\ gui = <<>> \/ gui = <<DisconnectEvent>>
          BY <2>1, <3>1 DEF RunningKnown, ActivePanels
    <3>3. IsActive(task[t].panel)'
          BY <1>1, <1>3, <3>2 DEF ActivePanels, IsActive
    <3>4. QED  BY <1>1, <1>4, <3>2, <3>3
  <2>4. RunningKnown'
        BY <2>3, Zenon DEF RunningKnown, DisconnectEvent, Address
  <2>5. QED  BY <2>2, <2>4
<1>9. QED  BY <1>5, <1>6, <1>7, <1>8, Zenon DEF IInv

-----------------------------------------------------------------------------
\* The controller takes a Connect: no task runs, and the one it starts is for the
\* active panel.
LEMMA ConnectKeeps ==
    ASSUME IInv, NEW t \in Tasks, ControllerConnect(t)
    PROVE  IInv'
<1>0. TypeOK  BY DEF IInv
<1> DEFINE new == [pc |-> "sleep", panel |-> Head(gui).panel,
                   local |-> Head(gui).local, aborted |-> FALSE]
<1>1. /\ gui # <<>> /\ Head(gui).type = "Connect"
      /\ task' = [task EXCEPT ![t] = new]
      /\ connection_task' = t /\ gui' = Tail(gui)
      /\ UNCHANGED <<panels, stats, poisoned, doubled>>
      BY DEF ControllerConnect
<1>2. Head(gui) \in GuiTriggeredEvent /\ gui' \in Seq(GuiTriggeredEvent)
      BY <1>0, <1>1, ChannelTypes DEF TypeOK
<1>3. new \in TaskState
  <2>1. Head(gui).panel \in Panels /\ Head(gui).local \in {"host:port", "bare"}
        BY <1>1, <1>2 DEF GuiTriggeredEvent
  <2>2. QED  BY <2>1 DEF TaskState, Awaits
<1> HIDE DEF new
<1>4. TypeOK'
  <2>1. task' \in [Tasks -> TaskState]
        BY <1>0, <1>1, <1>3 DEF TypeOK
  <2>2. connection_task' \in Tasks \cup {NoTask}
        BY <1>1
  <2>3. QED  BY <1>0, <1>1, <1>2, <2>1, <2>2, Zenon DEF TypeOK
<1>5. /\ ActivePanels' = ActivePanels /\ OneActive' /\ ActiveNotEdited'
      BY <1>1, Zenon DEF IInv, ActivePanels, IsActive, OneActive, ActiveNotEdited
<1>6. ASSUME ~ doubled' PROVE QueueShape' /\ RunningKnown'
  <2>1. QueueShape /\ RunningKnown
        BY <1>1, <1>6, Zenon DEF IInv
  <2>2. gui # <<DisconnectEvent>>
        BY <1>1 DEF DisconnectEvent
  <2>3. PICK p \in ActivePanels :
           gui = <<ConnectEvent(p)>> \/ gui = <<ConnectEvent(p), DisconnectEvent>>
        BY <1>1, <2>1, <2>2 DEF QueueShape
  <2>4. /\ Head(gui) = ConnectEvent(p)
        /\ gui' = <<>> \/ gui' = <<DisconnectEvent>>
        BY <1>1, <2>3, ShortChannels, Zenon
  <2>5. QueueShape'
    <3>1. ActivePanels' # {}
          BY <1>5
    <3>2. QED  BY <2>4, <3>1, Zenon DEF QueueShape, DisconnectEvent
  <2>6. \A u \in Tasks : ~ Running(u)
        BY <1>1, <2>1, <2>2 DEF RunningKnown
  <2>7. new.panel = p /\ new.local = Address(panels[p].local)
        BY <2>4 DEF new, ConnectEvent
  <2>8. ASSUME NEW u \in Tasks, Running(u)'
        PROVE  /\ u = connection_task' /\ IsActive(task[u].panel)'
               /\ task'[u].local = Address(panels'[task'[u].panel].local)
    <3>1. u = t
      <4>1. SUFFICES ASSUME u # t PROVE FALSE
            OBVIOUS
      <4>2. task'[u] = task[u]
            BY <1>0, <1>1, <4>1 DEF TypeOK
      <4>3. QED  BY <2>6, <2>8, <4>2 DEF Running
    <3>2. task'[u] = new
          BY <1>0, <1>1, <3>1 DEF TypeOK
    <3>3. IsActive(p)
          BY DEF ActivePanels
    <3>4. IsActive(task[u].panel)'
          BY <1>1, <2>7, <3>2, <3>3 DEF IsActive
    <3>5. QED  BY <1>1, <2>7, <3>1, <3>2, <3>4
  <2>9. RunningKnown'
        BY <2>4, <2>8, Zenon DEF RunningKnown, DisconnectEvent, Address
  <2>10. QED  BY <2>5, <2>9
<1>7. QED  BY <1>4, <1>5, <1>6, Zenon DEF IInv

\* The controller takes a Disconnect: it is the last click that waits, and afterwards
\* no task runs and no panel is active.
LEMMA DisconnectKeeps ==
    ASSUME IInv, ControllerDisconnect
    PROVE  IInv'
<1>0. TypeOK /\ OneActive  BY DEF IInv
<1>1. /\ gui # <<>> /\ Head(gui).type = "Disconnect" /\ gui' = Tail(gui)
      /\ task' = [t \in Tasks |-> IF t = connection_task /\ task[t] # Ended
                                    THEN [task[t] EXCEPT !.aborted = TRUE] ELSE task[t]]
      /\ connection_task' = NoTask
      /\ set_active_server("Disconnected")
      /\ UNCHANGED <<stats, doubled>>
      BY DEF ControllerDisconnect
<1>2. /\ panels' \in [Panels -> ServerPanel] /\ poisoned' \in BOOLEAN
      /\ ActivePanels' = {}
  <2>1. "Disconnected" \in ServerState
        BY DEF ServerState
  <2>2. QED  BY <1>0, <1>1, <2>1, SetActive
<1>3. TypeOK'
  <2>1. gui' \in Seq(GuiTriggeredEvent)
        BY <1>0, <1>1, ChannelTypes DEF TypeOK
  <2>2. task' \in [Tasks -> TaskState]
        BY <1>0, <1>1 DEF TypeOK, TaskState
  <2>3. connection_task' \in Tasks \cup {NoTask}
        BY <1>1
  <2>4. QED  BY <1>0, <1>1, <1>2, <2>1, <2>2, <2>3, Zenon DEF TypeOK
<1>4. OneActive' /\ ActiveNotEdited'
      BY <1>2, Zenon DEF OneActive, ActiveNotEdited, ActivePanels
<1>5. ASSUME ~ doubled' PROVE QueueShape' /\ RunningKnown'
  <2>1. QueueShape /\ RunningKnown
        BY <1>1, <1>5, Zenon DEF IInv
  <2>2. gui = <<DisconnectEvent>>
    <3>1. ASSUME NEW p \in ActivePanels,
                 gui = <<ConnectEvent(p)>> \/ gui = <<ConnectEvent(p), DisconnectEvent>>
          PROVE  FALSE
          BY <1>1, <3>1 DEF ConnectEvent
    <3>2. QED  BY <1>1, <2>1, <3>1 DEF QueueShape
  <2>3. gui' = <<>>
        BY <1>1, <2>2
  <2>4. ASSUME NEW t \in Tasks, Running(t)' PROVE FALSE
    <3>1. CASE t = connection_task /\ task[t] # Ended
      <4>1. task'[t] = [task[t] EXCEPT !.aborted = TRUE]
            BY <1>1, <3>1
      <4>2. task'[t].aborted = TRUE
            BY <1>0, <4>1 DEF TypeOK, TaskState
      <4>3. QED  BY <2>4, <4>2 DEF Running
    <3>2. CASE ~ (t = connection_task /\ task[t] # Ended)
      <4>1. task'[t] = task[t]
            BY <1>1, <3>2
      <4>2. Running(t)
            BY <2>4, <4>1 DEF Running, Ended
      <4>3. QED  BY <2>1, <3>2, <4>2 DEF RunningKnown, Running
    <3>3. QED  BY <3>1, <3>2
  <2>5. QED  BY <2>3, <2>4, Zenon DEF QueueShape, RunningKnown
<1>6. QED  BY <1>3, <1>4, <1>5, Zenon DEF IInv

-----------------------------------------------------------------------------
\* Every step of the program keeps the invariant.
LEMMA StepKeeps == IInv /\ [Next]_vars => IInv'
<1> SUFFICES ASSUME IInv, [Next]_vars PROVE IInv'
    OBVIOUS
<1>1. CASE UNCHANGED vars
  <2>1. UNCHANGED <<panels, gui, stats, task, connection_task, poisoned, doubled>>
        BY <1>1 DEF vars
  <2>2. MovesOn /\ ActivePanels' = ActivePanels
        BY <2>1, Zenon DEF IInv, TypeOK, MovesOn, Running, ActivePanels, IsActive
  <2>3. QED  BY <2>1, <2>2, QuietStep, Zenon DEF IInv, TypeOK
<1>2. ASSUME NEW p \in Panels,
             ClickConnect(p) \/ ClickDisconnect(p) \/ StartEdit(p) \/ EndEdit(p)
      PROVE  IInv'
      BY <1>2, ClickConnectKeeps, ClickDisconnectKeeps, EditKeeps
<1>3. CASE ControllerStats
      BY <1>3, StatsKeep
<1>4. CASE ControllerDisconnect
      BY <1>4, DisconnectKeeps
<1>5. ASSUME NEW t \in Tasks, ControllerConnect(t) PROVE IInv'
      BY <1>5, ConnectKeeps
<1>6. ASSUME NEW t \in Tasks, TaskStep(t) \/ ReportStep(t) PROVE IInv'
      BY <1>6, TasksKeep
<1>7. QED
      BY <1>1, <1>2, <1>3, <1>4, <1>5, <1>6, Zenon DEF Next, TaskStep, ReportStep

\* So it holds in every reachable state.
LEMMA Inductive == Spec => []IInv
BY InitIInv, StepKeeps, PTL DEF Spec

\* The channels, the panels and the tasks keep their types, whatever the order
\* in which the window, the controller and the connection tasks take the mutex.
THEOREM TypeCorrect == Spec => []TypeOK
<1>1. IInv => TypeOK  BY DEF IInv
<1>2. QED  BY <1>1, Inductive, PTL

\* set_active_server never has a choice: at most one panel is active, for every
\* number of servers and of tasks that report late.
THEOREM ActiveIsOne == Spec => []OneActive
<1>1. IInv => OneActive  BY DEF IInv
<1>2. QED  BY <1>1, Inductive, PTL

\* As long as no Disconnect was sent behind another, a task that runs is the one
\* whose handle the controller keeps, and its panel is active.
THEOREM NoneHidden == Spec => []NoHiddenTunnel
<1>1. IInv => NoHiddenTunnel
      BY Zenon DEF IInv, RunningKnown, NoHiddenTunnel
<1>2. QED  BY <1>1, Inductive, PTL

\* The address a panel shows is the one its running task connects to.
THEOREM PortIsUsed == Spec => []PortShownIsUsed
<1>1. ASSUME IInv PROVE PortShownIsUsed
  <2>1. \A t \in Tasks : task[t].panel \in Panels
        BY <1>1 DEF IInv, TypeOK, TaskState
  <2>2. QED  BY <1>1, <2>1, Zenon DEF IInv, RunningKnown, ActiveNotEdited, PortShownIsUsed
<1>2. QED  BY <1>1, Inductive, PTL
=============================================================================
