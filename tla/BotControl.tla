----------------------------- MODULE BotControl -----------------------------
(***************************************************************************)
(* The orchestrator process, its bots and the file queue that controls them.*)
(*                                                                          *)
(* The CLI and the web API (clients) each write one command into the inbox  *)
(* directory, poll the outbox for the answer and give up after a timeout.   *)
(* The orchestrator's control loop lists the inbox, carries the commands    *)
(* out one after the other and writes the answers.  Nothing is locked: a    *)
(* file is created and then written, on both sides, and the orchestrator    *)
(* may be terminated or die between any two of its steps; systemd restarts  *)
(* it, and the files are still there.                                       *)
(***************************************************************************)
EXTENDS Naturals, FiniteSets

CONSTANTS
  Bots,
  Clients,     \* each submits one command; its id is the client
  NoClient,
  MaxStops,    \* bound: terminations and deaths of the orchestrator
  MaxErrors    \* bound: exceptions of ticks, on_start and on_stop

ASSUME ControlAssumption ==
  /\ IsFiniteSet(Bots) /\ IsFiniteSet(Clients) /\ NoClient \notin Clients
  /\ MaxStops \in Nat /\ MaxErrors \in Nat

Commands == [action : {"start", "stop"}, bot : Bots]

VARIABLES
  orch,     \* the process: "down", "boot" (start_all), "loop", "cancelling"
            \* or "stopping" (the two halves of stop_all)
  state,    \* state[b]: BotState of b
  task,     \* task[b]: the task of b in _tasks and where it is
  inbox,    \* inbox[c]: the command file of c
  outbox,   \* outbox[c]: the answer file of c
  cmd,      \* cmd[c]: the command of c
  client,   \* client[c]: where submit is, and what it told its caller
  batch,    \* the files of this process_pending that are still to be read
  cur,      \* the command being carried out
  at,       \* where process_pending is with cur
  done,     \* done[c]: how often the orchestrator carried c out
  cut,      \* the commands it was carrying out when it ended
  withdrawn,\* the commands taken back before the orchestrator had read them
  broken,   \* the bots whose last on_start or on_stop raised
  count     \* ends of the process and exceptions so far

files == <<inbox, outbox>>
server == <<batch, cur, at>>
history == <<done, cut, withdrawn, broken>>
vars == <<orch, state, task, inbox, outbox, cmd, client, batch, cur, at,
          done, cut, withdrawn, broken, count>>

TaskStates == {"none", "asleep", "ticking", "cancelled"}
\* "torn": created and not written yet.
InFiles == {"none", "torn", "whole"}
OutFiles == {"none", "torn", "ok", "failed"}
Waiting == {"writing", "polling"}
Told == {"ok", "failed", "timeout", "raised", "gone"}

TypeOK ==
  /\ orch \in {"down", "boot", "loop", "cancelling", "stopping"}
  /\ state \in [Bots -> {"stopped", "running", "error"}]
  /\ task \in [Bots -> TaskStates]
  /\ inbox \in [Clients -> InFiles]
  /\ outbox \in [Clients -> OutFiles]
  /\ cmd \in [Clients -> Commands]
  /\ client \in [Clients -> {"idle"} \cup Waiting \cup Told]
  /\ batch \subseteq Clients
  /\ cur \in Clients \cup {NoClient}
  /\ at \in {"none", "starting", "cancelling", "stopping", "ok", "failed", "answered"}
  /\ done \in [Clients -> Nat]
  /\ cut \subseteq Clients
  /\ withdrawn \subseteq Clients
  /\ broken \subseteq Bots
  /\ count \in [stops : 0 .. MaxStops, errors : 0 .. MaxErrors]

Init ==
  /\ orch = "down"
  /\ state = [b \in Bots |-> "stopped"]
  /\ task = [b \in Bots |-> "none"]
  /\ inbox = [c \in Clients |-> "none"]
  /\ outbox = [c \in Clients |-> "none"]
  /\ cmd \in [Clients -> Commands]
  /\ client = [c \in Clients |-> "idle"]
  /\ batch = {}
  /\ cur = NoClient
  /\ at = "none"
  /\ done = [c \in Clients |-> 0]
  /\ cut = {}
  /\ withdrawn = {}
  /\ broken = {}
  /\ count = [stops |-> 0, errors |-> 0]

Raise ==
  /\ count.errors < MaxErrors
  /\ count' = [count EXCEPT !.errors = @ + 1]

-----------------------------------------------------------------------------
(* A client.                                                                *)

\* submit creates its command file; write_text then fills it.
Submit(c) ==
  /\ client[c] = "idle"
  /\ client' = [client EXCEPT ![c] = "writing"]
  /\ inbox' = [inbox EXCEPT ![c] = "torn"]
  /\ UNCHANGED <<orch, state, task, outbox, cmd, batch, cur, at, history, count>>

\* The file it writes to may have been taken by then.
WriteCommand(c) ==
  /\ client[c] = "writing"
  /\ client' = [client EXCEPT ![c] = "polling"]
  /\ inbox' = [inbox EXCEPT ![c] = IF @ = "torn" THEN "whole" ELSE @]
  /\ UNCHANGED <<orch, state, task, outbox, cmd, batch, cur, at, history, count>>

\* An answer that is complete is removed and returned; one that is being
\* written does not parse, and submit raises with both files left behind.
ReadAnswer(c) ==
  /\ client[c] = "polling"
  /\ outbox[c] # "none"
  /\ IF outbox[c] = "torn"
     THEN /\ client' = [client EXCEPT ![c] = "raised"]
          /\ UNCHANGED outbox
     ELSE /\ client' = [client EXCEPT ![c] = outbox[c]]
          /\ outbox' = [outbox EXCEPT ![c] = "none"]
  /\ UNCHANGED <<orch, state, task, inbox, cmd, batch, cur, at, history, count>>

\* The deadline passes: the command is taken back, whatever became of it.
GiveUp(c) ==
  /\ client[c] = "polling"
  /\ client' = [client EXCEPT ![c] = "timeout"]
  /\ inbox' = [inbox EXCEPT ![c] = "none"]
  /\ withdrawn' = IF inbox[c] = "whole" /\ cur # c /\ c \notin cut
                  THEN withdrawn \cup {c} ELSE withdrawn
  /\ UNCHANGED <<orch, state, task, outbox, cmd, batch, cur, at, done, cut, broken, count>>

\* The CLI is interrupted or the web process ends while it waits.
Abandon(c) ==
  /\ client[c] \in Waiting
  /\ client' = [client EXCEPT ![c] = "gone"]
  /\ UNCHANGED <<orch, state, task, files, cmd, server, history, count>>

-----------------------------------------------------------------------------
(* The process.                                                             *)

\* A bug: the unit is not restarted once it has ended.
BootMutant ==
  /\ orch = "down" /\ count.stops = 0
  /\ orch' = "boot"
  /\ state' = [b \in Bots |-> "running"]
  /\ broken' = {}
  /\ UNCHANGED <<task, files, cmd, client, server, done, cut, withdrawn, count>>

\* systemd (re)starts it: start_all starts every bot ...
Boot ==
  /\ orch = "down"
  /\ orch' = "boot"
  /\ state' = [b \in Bots |-> "running"]
  /\ broken' = {}
  /\ UNCHANGED <<task, files, cmd, client, server, done, cut, withdrawn, count>>

\* ... and, unless an on_start raised, which ends the process, runs the startup
\* pass, creates a task per bot and enters the loops.
BootDone ==
  /\ orch = "boot"
  /\ orch' = "loop"
  /\ task' = [b \in Bots |-> "asleep"]
  /\ UNCHANGED <<state, files, cmd, client, server, history, count>>

\* What is left of the process when it ends: its files.
Ended ==
  /\ state' = [b \in Bots |-> "stopped"]
  /\ task' = [b \in Bots |-> "none"]
  /\ cut' = IF cur = NoClient THEN cut ELSE cut \cup {cur}
  /\ batch' = {} /\ cur' = NoClient /\ at' = "none"
  /\ orch' = "down"

\* It dies at any point: a kill, a crash, an on_start that raises in start_all.
Die ==
  /\ orch # "down"
  /\ count.stops < MaxStops
  /\ count' = [count EXCEPT !.stops = @ + 1]
  /\ Ended
  /\ UNCHANGED <<files, cmd, client, done, withdrawn, broken>>

\* SIGTERM: the control task is cancelled wherever it awaits, that is, between
\* two passes or inside a start or a stop of a bot, and stop_all cancels every
\* task in _tasks.  Nothing is answered and no file is removed.
Terminate ==
  /\ orch = "loop"
  /\ count.stops < MaxStops
  /\ count' = [count EXCEPT !.stops = @ + 1]
  /\ at \in {"none", "starting", "cancelling", "stopping"}
  /\ cut' = IF cur = NoClient THEN cut ELSE cut \cup {cur}
  /\ batch' = {} /\ cur' = NoClient /\ at' = "none"
  /\ task' = [b \in Bots |-> IF task[b] = "none" THEN "none" ELSE "cancelled"]
  /\ orch' = "cancelling"
  /\ UNCHANGED <<state, files, cmd, client, done, withdrawn, broken>>

\* When the tasks have ended every bot is stopped ...
StopBots ==
  /\ orch = "cancelling"
  /\ \A b \in Bots : task[b] = "none"
  /\ state' = [b \in Bots |-> "stopped"]
  /\ orch' = "stopping"
  /\ UNCHANGED <<task, files, cmd, client, server, history, count>>

\* ... and the process exits.
Exit ==
  /\ orch = "stopping"
  /\ Ended
  /\ UNCHANGED <<files, cmd, client, done, withdrawn, broken, count>>

-----------------------------------------------------------------------------
(* _run_bot.                                                                *)

Tick(b) ==
  /\ task[b] = "asleep"
  /\ task' = [task EXCEPT ![b] = "ticking"]
  /\ UNCHANGED <<orch, state, files, cmd, client, server, history, count>>

TickDone(b) ==
  /\ task[b] = "ticking"
  /\ task' = [task EXCEPT ![b] = "asleep"]
  /\ UNCHANGED <<orch, state, files, cmd, client, server, history, count>>

\* A bug: mark_error keeps the message in the place of the state.
TickFailsMutant(b) ==
  /\ task[b] = "ticking"
  /\ Raise
  /\ state' = [state EXCEPT ![b] = "message"]
  /\ task' = [task EXCEPT ![b] = "asleep"]
  /\ UNCHANGED <<orch, files, cmd, client, server, history>>

\* mark_error; no later tick clears it.
TickFails(b) ==
  /\ task[b] = "ticking"
  /\ Raise
  /\ state' = [state EXCEPT ![b] = "error"]
  /\ task' = [task EXCEPT ![b] = "asleep"]
  /\ UNCHANGED <<orch, files, cmd, client, server, history>>

\* A cancelled task ends, when what it awaited has unwound.
TaskEnds(b) ==
  /\ task[b] = "cancelled"
  /\ task' = [task EXCEPT ![b] = "none"]
  /\ UNCHANGED <<orch, state, files, cmd, client, server, history, count>>

-----------------------------------------------------------------------------
(* control_loop.                                                            *)

\* process_pending lists the inbox ...
ListInbox ==
  /\ orch = "loop" /\ cur = NoClient /\ batch = {}
  /\ batch' = {c \in Clients : inbox[c] # "none"}
  /\ batch' # {}
  /\ UNCHANGED <<orch, state, task, files, cmd, client, cur, at, history, count>>

\* ... and reads the next file: one that is gone or torn is answered with a
\* failure, in the name of the file.
TakeUnreadable(c) ==
  /\ orch = "loop" /\ cur = NoClient /\ c \in batch
  /\ inbox[c] # "whole"
  /\ batch' = batch \ {c} /\ cur' = c /\ at' = "failed"
  /\ UNCHANGED <<orch, state, task, files, cmd, client, history, count>>

\* A bug: the commands are parsed when the inbox is listed.
TakeMutant(c, next) ==
  /\ orch = "loop" /\ cur = NoClient /\ c \in batch
  /\ batch' = batch \ {c} /\ cur' = c /\ at' = next

Take(c, next) ==
  /\ orch = "loop" /\ cur = NoClient /\ c \in batch
  /\ inbox[c] = "whole"
  /\ batch' = batch \ {c} /\ cur' = c /\ at' = next

\* start_bot returns TRUE for a bot whose task is not done, in error or not ...
TakeStartRunning(c) ==
  /\ Take(c, "ok")
  /\ cmd[c].action = "start" /\ task[cmd[c].bot] # "none"
  /\ done' = [done EXCEPT ![c] = @ + 1]
  /\ UNCHANGED <<orch, state, task, files, cmd, client, cut, withdrawn, broken, count>>

\* ... and else starts it: it is running before on_start is awaited.
TakeStart(c) ==
  /\ Take(c, "starting")
  /\ cmd[c].action = "start" /\ task[cmd[c].bot] = "none"
  /\ state' = [state EXCEPT ![cmd[c].bot] = "running"]
  /\ UNCHANGED <<orch, task, files, cmd, client, history, count>>

\* stop_bot pops the task and cancels it.
TakeStop(c) ==
  LET b == cmd[c].bot IN
  /\ Take(c, "cancelling")
  /\ cmd[c].action = "stop"
  /\ task' = [task EXCEPT ![b] = IF @ = "none" THEN @ ELSE "cancelled"]
  /\ UNCHANGED <<orch, state, files, cmd, client, history, count>>

Started ==
  LET b == cmd[cur].bot IN
  /\ at = "starting"
  /\ task' = [task EXCEPT ![b] = "asleep"]
  /\ at' = "ok"
  /\ done' = [done EXCEPT ![cur] = @ + 1]
  /\ broken' = broken \ {b}
  /\ UNCHANGED <<orch, state, files, cmd, client, batch, cur, cut, withdrawn, count>>

\* A bug: stop_bot does not wait for the task it cancelled.
CancelledMutant ==
  /\ at = "cancelling"
  /\ at' = "stopping"
  /\ UNCHANGED <<orch, state, task, files, cmd, client, batch, cur, history, count>>

\* gather has waited for the task; on_stop is awaited.
Cancelled ==
  /\ at = "cancelling"
  /\ task[cmd[cur].bot] = "none"
  /\ at' = "stopping"
  /\ UNCHANGED <<orch, state, task, files, cmd, client, batch, cur, history, count>>

Stopped ==
  LET b == cmd[cur].bot IN
  /\ at = "stopping"
  /\ state' = [state EXCEPT ![b] = "stopped"]
  /\ at' = "ok"
  /\ done' = [done EXCEPT ![cur] = @ + 1]
  /\ broken' = broken \ {b}
  /\ UNCHANGED <<orch, task, files, cmd, client, batch, cur, cut, withdrawn, count>>

\* A bug: the exception of a hook is logged and the command accepted.
HookRaisesMutant ==
  /\ at \in {"starting", "stopping"}
  /\ Raise
  /\ at' = "ok"
  /\ broken' = broken \cup {cmd[cur].bot}
  /\ UNCHANGED <<orch, state, task, files, cmd, client, batch, cur, done, cut, withdrawn>>

\* on_start or on_stop raises: the answer is a failure, and the bot keeps the
\* state it had.
HookRaises ==
  /\ at \in {"starting", "stopping"}
  /\ Raise
  /\ at' = "failed"
  /\ broken' = broken \cup {cmd[cur].bot}
  /\ UNCHANGED <<orch, state, task, files, cmd, client, batch, cur, done, cut, withdrawn>>

\* The answer's file is created ...
CreateAnswer ==
  /\ at \in {"ok", "failed"}
  /\ outbox[cur] # "torn"
  /\ outbox' = [outbox EXCEPT ![cur] = "torn"]
  /\ UNCHANGED <<orch, state, task, inbox, cmd, client, server, history, count>>

\* ... and written ...
WriteAnswer ==
  /\ at \in {"ok", "failed"}
  /\ outbox[cur] = "torn"
  /\ outbox' = [outbox EXCEPT ![cur] = at]
  /\ at' = "answered"
  /\ UNCHANGED <<orch, state, task, inbox, cmd, client, batch, cur, history, count>>

\* A bug: only the client removes files.
RemoveMutant ==
  /\ at = "answered"
  /\ cur' = NoClient /\ at' = "none"
  /\ UNCHANGED <<orch, state, task, files, cmd, client, batch, history, count>>

\* ... and the command's removed.
Remove ==
  /\ at = "answered"
  /\ inbox' = [inbox EXCEPT ![cur] = "none"]
  /\ cur' = NoClient /\ at' = "none"
  /\ UNCHANGED <<orch, state, task, outbox, cmd, client, batch, history, count>>

-----------------------------------------------------------------------------
Handle(c) ==
  \/ TakeUnreadable(c) \/ TakeStartRunning(c) \/ TakeStart(c) \/ TakeStop(c)

Serve ==
  \/ ListInbox
  \/ \E c \in Clients : Handle(c)
  \/ Started \/ Cancelled \/ Stopped \/ HookRaises
  \/ CreateAnswer \/ WriteAnswer \/ Remove

Call(c) ==
  \/ Submit(c) \/ WriteCommand(c) \/ ReadAnswer(c) \/ GiveUp(c) \/ Abandon(c)

Run(b) == Tick(b) \/ TickDone(b) \/ TickFails(b) \/ TaskEnds(b)

Process == Boot \/ BootDone \/ Die \/ Terminate \/ StopBots \/ Exit

Next ==
  \/ \E c \in Clients : Call(c)
  \/ \E b \in Bots : Run(b)
  \/ Process
  \/ Serve

Spec == Init /\ [][Next]_vars

\* systemd restarts the process, start_all and stop_all come to an end, a
\* cancelled task unwinds and the control loop goes on; the broker calls in
\* on_start and on_stop have timeouts.
FairSpec ==
  /\ Spec
  /\ WF_vars(Boot) /\ WF_vars(BootDone) /\ WF_vars(StopBots) /\ WF_vars(Exit)
  /\ \A b \in Bots : WF_vars(TaskEnds(b))
  /\ \A c \in Clients : WF_vars(WriteCommand(c))
  /\ WF_vars(Serve)

-----------------------------------------------------------------------------
(* Properties.                                                              *)

\* What submit tells its caller is what happened: a command it reports as
\* accepted was carried out, and one it reports as failed was not, unless the
\* process ended while it was carrying it out and a later one tried again.
ToldTrue ==
  \A c \in Clients :
    /\ client[c] = "ok" => done[c] > 0
    /\ client[c] = "failed" => done[c] = 0 \/ c \in cut

\* A command is carried out again only if the process ended between carrying
\* it out and removing its file.
RepeatExplained == \A c \in Clients : done[c] > 1 => c \in cut

\* A command taken back before the orchestrator read it is never carried out,
\* although it may be in the list of files of the pass that is going on.
WithdrawnNotRun ==
  \A c \in withdrawn :
    /\ done[c] = 0
    /\ cur = c => at \in {"failed", "answered"}

\* The bot a command in hand is about; another bot's state is settled.
InHand(b) == cur # NoClient /\ cmd[cur].bot = b /\ at \in {"starting", "cancelling", "stopping"}

\* In the loops, what the heartbeat reports of a bot is so: a stopped bot has no
\* task that still ticks, and a bot that is reported running or in error has
\* one, except while a command for it is in hand and except when its on_start
\* or on_stop raised.
ReportedTrue ==
  orch = "loop" =>
    \A b \in Bots :
      /\ state[b] = "stopped" => task[b] = "none"
      /\ ~InHand(b) /\ task[b] = "none" => state[b] = "stopped" \/ b \in broken

\* What a client is told of its command and what the heartbeat reports of a bot
\* is so.
Honest == TypeOK /\ ToldTrue /\ ReportedTrue

\* A command file is not left in the inbox: the orchestrator, restarted if need
\* be, takes it or its client takes it back.
Drained == \A c \in Clients : inbox[c] = "whole" ~> inbox[c] = "none"
=============================================================================
