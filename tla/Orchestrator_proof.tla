------------------------- MODULE Orchestrator_proof -------------------------
(***************************************************************************)
(* Proofs about what the orchestrator's process runs: the commands that     *)
(* control its bots (BotControl) and the Secretary's candle pipeline        *)
(* (CandlePipeline).                                                        *)
(*                                                                          *)
(* For any bots, any number of clients, ends of the process and exceptions: *)
(* the state is well typed, clients are told what happened, a command taken *)
(* back unread is never carried out, one is carried out twice only across   *)
(* an end of the process, and the states the heartbeat reports are the      *)
(* bots'.                                                                   *)
(*                                                                          *)
(* For any pairs, bars, crossovers and histories, and any number of late    *)
(* bars, failures and crashes: every state is well typed, a bar that is     *)
(* marked as analysed was handed to the Broker or lost to an exception, and *)
(* a bar is analysed again only for a reason.  Neither property is          *)
(* inductive.  A marked bar is handed over by the job that marked it, so    *)
(* the proof needs what a job in its last stage has done (HandMarked); and  *)
(* a job that went past the skip must still be ahead of the revision when   *)
(* it marks (AheadOfRevision), although the skip was decided three awaits   *)
(* earlier.                                                                 *)
(***************************************************************************)
EXTENDS BotControl, CandlePipeline, TLAPS

-----------------------------------------------------------------------------
(* Bot control                                                              *)

\* process_pending has a command in hand, in the loop, or is nowhere.
Hand ==
  /\ cur = NoClient <=> at = "none"
  /\ cur # NoClient => orch = "loop"
  /\ cur \notin batch

\* Of a client that has not submitted there is no trace.
Fresh ==
  \A c \in Clients : client[c] = "idle" =>
    /\ inbox[c] = "none" /\ outbox[c] = "none" /\ done[c] = 0
    /\ c \notin batch /\ cur # c

\* A file that is still to be written was not carried out, nor will it be in this
\* pass if that has read it.
Torn ==
  \A c \in Clients : inbox[c] = "torn" =>
    /\ done[c] = 0
    /\ cur = c => at \in {"failed", "answered"}

\* A command that was carried out, other than across an end of the process, is
\* being answered, or its file is gone and not in the list of this pass.
Spent ==
  \A c \in Clients : done[c] > 0 =>
    \/ c \in cut
    \/ cur = c /\ at \in {"ok", "answered"}
    \/ cur # c /\ inbox[c] = "none" /\ c \notin batch

\* A command that was taken back unread has no file to be read.
TakenBack ==
  \A c \in withdrawn :
    /\ done[c] = 0 /\ inbox[c] # "whole" /\ client[c] = "timeout"
    /\ cur = c => at \in {"failed", "answered"}

\* "ok" is answered after the command was carried out.
Accepted ==
  \A c \in Clients :
    outbox[c] = "ok" \/ client[c] = "ok" \/ (cur = c /\ at = "ok") => done[c] > 0

\* A command answered with a failure was not carried out and will not be, for its
\* file is gone or about to go.
Failed ==
  \A c \in Clients :
    outbox[c] = "failed" \/ client[c] = "failed" =>
      \/ c \in cut
      \/ /\ done[c] = 0 /\ c \notin batch
         /\ \/ cur # c /\ inbox[c] = "none"
            \/ cur = c /\ at = "answered"

Files == Hand /\ Fresh /\ Torn /\ Spent /\ TakenBack /\ Accepted /\ Failed

\* What start_bot and stop_bot know of their bot while they wait.
Waits ==
  LET b == cmd[cur].bot IN
  /\ at = "starting" => task[b] = "none" /\ state[b] # "stopped"
  /\ at = "cancelling" => task[b] \in {"none", "cancelled"}
  /\ at = "stopping" => task[b] = "none"

\* In the loop only the bot that is being stopped has a cancelled task.
Unwinding ==
  orch = "loop" =>
    \A b \in Bots : task[b] = "cancelled" => at = "cancelling" /\ cmd[cur].bot = b

\* start_all leaves no bot stopped.
Booting == orch = "boot" => \A b \in Bots : state[b] # "stopped"

Reports == Waits /\ Unwinding /\ Booting /\ ReportedTrue

\* Every step keeps the shape of the state.
LEMMA TypeStep == ASSUME ControlAssumption, TypeOK, Hand, [Next]_vars PROVE TypeOK'
<1> USE DEF ControlAssumption, Hand, TypeOK, TaskStates, InFiles, OutFiles, Waiting, Told,
      Commands
<1>1. ASSUME NEW c \in Clients, Submit(c) PROVE TypeOK'
  BY <1>1 DEF Submit, files, server, history
<1>2. ASSUME NEW c \in Clients, WriteCommand(c) PROVE TypeOK'
  BY <1>2 DEF WriteCommand, files, server, history
<1>3. ASSUME NEW c \in Clients, ReadAnswer(c) PROVE TypeOK'
  <2>1. CASE outbox[c] = "torn"
    BY <1>3, <2>1 DEF ReadAnswer, files, server, history
  <2>2. CASE outbox[c] # "torn"
    BY <1>3, <2>2 DEF ReadAnswer, files, server, history
  <2> QED
    BY <2>1, <2>2
<1>4. ASSUME NEW c \in Clients, GiveUp(c) PROVE TypeOK'
  BY <1>4 DEF GiveUp, files, server, history
<1>5. ASSUME NEW c \in Clients, Abandon(c) PROVE TypeOK'
  BY <1>5 DEF Abandon, files, server, history
<1>6. CASE Boot
  BY <1>6 DEF Boot, files, server, history
<1>7. CASE BootDone
  BY <1>7 DEF BootDone, files, server, history
<1>8. CASE Die
  BY <1>8 DEF Die, Ended, files, server, history
<1>9. CASE Terminate
  BY <1>9 DEF Terminate, files, server, history
<1>10. CASE StopBots
  BY <1>10 DEF StopBots, files, server, history
<1>11. CASE Exit
  BY <1>11 DEF Exit, Ended, files, server, history
<1>12. ASSUME NEW b \in Bots, Tick(b) PROVE TypeOK'
  BY <1>12 DEF Tick, files, server, history
<1>13. ASSUME NEW b \in Bots, TickDone(b) PROVE TypeOK'
  BY <1>13 DEF TickDone, files, server, history
<1>14. ASSUME NEW b \in Bots, TickFails(b) PROVE TypeOK'
  BY <1>14 DEF TickFails, Raise, files, server, history
<1>15. ASSUME NEW b \in Bots, TaskEnds(b) PROVE TypeOK'
  BY <1>15 DEF TaskEnds, files, server, history
<1>16. CASE ListInbox
  BY <1>16 DEF ListInbox, files, server, history
<1>17. ASSUME NEW c \in Clients, TakeUnreadable(c) PROVE TypeOK'
  BY <1>17 DEF TakeUnreadable, files, server, history
<1>18. ASSUME NEW c \in Clients, TakeStartRunning(c) PROVE TypeOK'
  BY <1>18 DEF TakeStartRunning, Take, files, server, history
<1>19. ASSUME NEW c \in Clients, TakeStart(c) PROVE TypeOK'
  BY <1>19 DEF TakeStart, Take, files, server, history
<1>20. ASSUME NEW c \in Clients, TakeStop(c) PROVE TypeOK'
  BY <1>20 DEF TakeStop, Take, files, server, history
<1>21. CASE Started
  BY <1>21 DEF Started, files, server, history
<1>22. CASE Cancelled
  BY <1>22 DEF Cancelled, files, server, history
<1>23. CASE Stopped
  BY <1>23 DEF Stopped, files, server, history
<1>24. CASE HookRaises
  BY <1>24 DEF HookRaises, Raise, files, server, history
<1>25. CASE CreateAnswer
  BY <1>25 DEF CreateAnswer, files, server, history
<1>26. CASE WriteAnswer
  BY <1>26 DEF WriteAnswer, files, server, history
<1>27. CASE Remove
  BY <1>27 DEF Remove, files, server, history
<1>28. CASE UNCHANGED vars
  BY <1>28 DEF vars, files, server, history
<1> QED
  BY <1>1, <1>2, <1>3, <1>4, <1>5, <1>6, <1>7, <1>8, <1>9, <1>10, <1>11, <1>12, <1>13,
     <1>14, <1>15, <1>16, <1>17, <1>18, <1>19, <1>20, <1>21, <1>22, <1>23, <1>24, <1>25,
     <1>26, <1>27, <1>28
  DEF Next, Call, Run, Process, Serve, Handle

\* One command at a time is in hand.
LEMMA HandStep == ASSUME ControlAssumption, TypeOK, Files, [Next]_vars PROVE Hand'
<1> USE DEF ControlAssumption, TypeOK, Commands, Waiting, Files, Hand
<1>1. ASSUME NEW c \in Clients, Submit(c) PROVE Hand'
  BY <1>1 DEF Submit, files, server, history
<1>2. ASSUME NEW c \in Clients, WriteCommand(c) PROVE Hand'
  BY <1>2 DEF WriteCommand, files, server, history
<1>3. ASSUME NEW c \in Clients, ReadAnswer(c) PROVE Hand'
  BY <1>3 DEF ReadAnswer, files, server, history
<1>4. ASSUME NEW c \in Clients, GiveUp(c) PROVE Hand'
  BY <1>4 DEF GiveUp, files, server, history
<1>5. ASSUME NEW c \in Clients, Abandon(c) PROVE Hand'
  BY <1>5 DEF Abandon, files, server, history
<1>6. CASE Boot
  BY <1>6 DEF Boot, files, server, history
<1>7. CASE BootDone
  BY <1>7 DEF BootDone, files, server, history
<1>8. CASE Die
  BY <1>8 DEF Die, Ended, files, server, history
<1>9. CASE Terminate
  BY <1>9 DEF Terminate, files, server, history
<1>10. CASE StopBots
  BY <1>10 DEF StopBots, files, server, history
<1>11. CASE Exit
  BY <1>11 DEF Exit, Ended, files, server, history
<1>12. ASSUME NEW b \in Bots, Tick(b) PROVE Hand'
  BY <1>12 DEF Tick, files, server, history
<1>13. ASSUME NEW b \in Bots, TickDone(b) PROVE Hand'
  BY <1>13 DEF TickDone, files, server, history
<1>14. ASSUME NEW b \in Bots, TickFails(b) PROVE Hand'
  BY <1>14 DEF TickFails, Raise, files, server, history
<1>15. ASSUME NEW b \in Bots, TaskEnds(b) PROVE Hand'
  BY <1>15 DEF TaskEnds, files, server, history
<1>16. CASE ListInbox
  BY <1>16 DEF ListInbox, files, server, history
<1>17. ASSUME NEW c \in Clients, TakeUnreadable(c) PROVE Hand'
  BY <1>17 DEF TakeUnreadable, files, server, history
<1>18. ASSUME NEW c \in Clients, TakeStartRunning(c) PROVE Hand'
  BY <1>18 DEF TakeStartRunning, Take, files, server, history
<1>19. ASSUME NEW c \in Clients, TakeStart(c) PROVE Hand'
  BY <1>19 DEF TakeStart, Take, files, server, history
<1>20. ASSUME NEW c \in Clients, TakeStop(c) PROVE Hand'
  BY <1>20 DEF TakeStop, Take, files, server, history
<1>21. CASE Started
  BY <1>21 DEF Started, files, server, history
<1>22. CASE Cancelled
  BY <1>22 DEF Cancelled, files, server, history
<1>23. CASE Stopped
  BY <1>23 DEF Stopped, files, server, history
<1>24. CASE HookRaises
  BY <1>24 DEF HookRaises, Raise, files, server, history
<1>25. CASE CreateAnswer
  BY <1>25 DEF CreateAnswer, files, server, history
<1>26. CASE WriteAnswer
  BY <1>26 DEF WriteAnswer, files, server, history
<1>27. CASE Remove
  BY <1>27 DEF Remove, files, server, history
<1>28. CASE UNCHANGED vars
  BY <1>28 DEF vars, files, server, history
<1> QED
  BY <1>1, <1>2, <1>3, <1>4, <1>5, <1>6, <1>7, <1>8, <1>9, <1>10, <1>11, <1>12, <1>13,
     <1>14, <1>15, <1>16, <1>17, <1>18, <1>19, <1>20, <1>21, <1>22, <1>23, <1>24, <1>25,
     <1>26, <1>27, <1>28
  DEF Next, Call, Run, Process, Serve, Handle

\* Nothing is read, answered or carried out before it is submitted.
LEMMA FreshStep == ASSUME ControlAssumption, TypeOK, Files, [Next]_vars PROVE Fresh'
<1> USE DEF ControlAssumption, TypeOK, Commands, Waiting, OutFiles, Files, Fresh, Hand
<1>1. ASSUME NEW c \in Clients, Submit(c) PROVE Fresh'
  BY <1>1 DEF Submit, files, server, history
<1>2. ASSUME NEW c \in Clients, WriteCommand(c) PROVE Fresh'
  BY <1>2 DEF WriteCommand, files, server, history
<1>3. ASSUME NEW c \in Clients, ReadAnswer(c) PROVE Fresh'
  <2>1. CASE outbox[c] = "torn"
    BY <1>3, <2>1 DEF ReadAnswer, files, server, history
  <2>2. CASE outbox[c] # "torn"
    BY <1>3, <2>2 DEF ReadAnswer, files, server, history
  <2> QED
    BY <2>1, <2>2
<1>4. ASSUME NEW c \in Clients, GiveUp(c) PROVE Fresh'
  BY <1>4 DEF GiveUp, files, server, history
<1>5. ASSUME NEW c \in Clients, Abandon(c) PROVE Fresh'
  BY <1>5 DEF Abandon, files, server, history
<1>6. CASE Boot
  BY <1>6 DEF Boot, files, server, history
<1>7. CASE BootDone
  BY <1>7 DEF BootDone, files, server, history
<1>8. CASE Die
  BY <1>8 DEF Die, Ended, files, server, history
<1>9. CASE Terminate
  BY <1>9 DEF Terminate, files, server, history
<1>10. CASE StopBots
  BY <1>10 DEF StopBots, files, server, history
<1>11. CASE Exit
  BY <1>11 DEF Exit, Ended, files, server, history
<1>12. ASSUME NEW b \in Bots, Tick(b) PROVE Fresh'
  BY <1>12 DEF Tick, files, server, history
<1>13. ASSUME NEW b \in Bots, TickDone(b) PROVE Fresh'
  BY <1>13 DEF TickDone, files, server, history
<1>14. ASSUME NEW b \in Bots, TickFails(b) PROVE Fresh'
  BY <1>14 DEF TickFails, Raise, files, server, history
<1>15. ASSUME NEW b \in Bots, TaskEnds(b) PROVE Fresh'
  BY <1>15 DEF TaskEnds, files, server, history
<1>16. CASE ListInbox
  BY <1>16 DEF ListInbox, files, server, history
<1>17. ASSUME NEW c \in Clients, TakeUnreadable(c) PROVE Fresh'
  BY <1>17 DEF TakeUnreadable, files, server, history
<1>18. ASSUME NEW c \in Clients, TakeStartRunning(c) PROVE Fresh'
  BY <1>18 DEF TakeStartRunning, Take, files, server, history
<1>19. ASSUME NEW c \in Clients, TakeStart(c) PROVE Fresh'
  BY <1>19 DEF TakeStart, Take, files, server, history
<1>20. ASSUME NEW c \in Clients, TakeStop(c) PROVE Fresh'
  BY <1>20 DEF TakeStop, Take, files, server, history
<1>21. CASE Started
  BY <1>21 DEF Started, files, server, history
<1>22. CASE Cancelled
  BY <1>22 DEF Cancelled, files, server, history
<1>23. CASE Stopped
  BY <1>23 DEF Stopped, files, server, history
<1>24. CASE HookRaises
  BY <1>24 DEF HookRaises, Raise, files, server, history
<1>25. CASE CreateAnswer
  BY <1>25 DEF CreateAnswer, files, server, history
<1>26. CASE WriteAnswer
  BY <1>26 DEF WriteAnswer, files, server, history
<1>27. CASE Remove
  BY <1>27 DEF Remove, files, server, history
<1>28. CASE UNCHANGED vars
  BY <1>28 DEF vars, files, server, history
<1> QED
  BY <1>1, <1>2, <1>3, <1>4, <1>5, <1>6, <1>7, <1>8, <1>9, <1>10, <1>11, <1>12, <1>13,
     <1>14, <1>15, <1>16, <1>17, <1>18, <1>19, <1>20, <1>21, <1>22, <1>23, <1>24, <1>25,
     <1>26, <1>27, <1>28
  DEF Next, Call, Run, Process, Serve, Handle

\* Only a file that has been written is carried out.
LEMMA TornStep == ASSUME ControlAssumption, TypeOK, Files, [Next]_vars PROVE Torn'
<1> USE DEF ControlAssumption, TypeOK, Commands, Waiting, Files, Torn, Fresh, Hand
<1>1. ASSUME NEW c \in Clients, Submit(c) PROVE Torn'
  BY <1>1 DEF Submit, files, server, history
<1>2. ASSUME NEW c \in Clients, WriteCommand(c) PROVE Torn'
  BY <1>2 DEF WriteCommand, files, server, history
<1>3. ASSUME NEW c \in Clients, ReadAnswer(c) PROVE Torn'
  BY <1>3 DEF ReadAnswer, files, server, history
<1>4. ASSUME NEW c \in Clients, GiveUp(c) PROVE Torn'
  BY <1>4 DEF GiveUp, files, server, history
<1>5. ASSUME NEW c \in Clients, Abandon(c) PROVE Torn'
  BY <1>5 DEF Abandon, files, server, history
<1>6. CASE Boot
  BY <1>6 DEF Boot, files, server, history
<1>7. CASE BootDone
  BY <1>7 DEF BootDone, files, server, history
<1>8. CASE Die
  BY <1>8 DEF Die, Ended, files, server, history
<1>9. CASE Terminate
  BY <1>9 DEF Terminate, files, server, history
<1>10. CASE StopBots
  BY <1>10 DEF StopBots, files, server, history
<1>11. CASE Exit
  BY <1>11 DEF Exit, Ended, files, server, history
<1>12. ASSUME NEW b \in Bots, Tick(b) PROVE Torn'
  BY <1>12 DEF Tick, files, server, history
<1>13. ASSUME NEW b \in Bots, TickDone(b) PROVE Torn'
  BY <1>13 DEF TickDone, files, server, history
<1>14. ASSUME NEW b \in Bots, TickFails(b) PROVE Torn'
  BY <1>14 DEF TickFails, Raise, files, server, history
<1>15. ASSUME NEW b \in Bots, TaskEnds(b) PROVE Torn'
  BY <1>15 DEF TaskEnds, files, server, history
<1>16. CASE ListInbox
  BY <1>16 DEF ListInbox, files, server, history
<1>17. ASSUME NEW c \in Clients, TakeUnreadable(c) PROVE Torn'
  BY <1>17 DEF TakeUnreadable, files, server, history
<1>18. ASSUME NEW c \in Clients, TakeStartRunning(c) PROVE Torn'
  BY <1>18 DEF TakeStartRunning, Take, files, server, history
<1>19. ASSUME NEW c \in Clients, TakeStart(c) PROVE Torn'
  BY <1>19 DEF TakeStart, Take, files, server, history
<1>20. ASSUME NEW c \in Clients, TakeStop(c) PROVE Torn'
  BY <1>20 DEF TakeStop, Take, files, server, history
<1>21. CASE Started
  BY <1>21 DEF Started, files, server, history
<1>22. CASE Cancelled
  BY <1>22 DEF Cancelled, files, server, history
<1>23. CASE Stopped
  BY <1>23 DEF Stopped, files, server, history
<1>24. CASE HookRaises
  BY <1>24 DEF HookRaises, Raise, files, server, history
<1>25. CASE CreateAnswer
  BY <1>25 DEF CreateAnswer, files, server, history
<1>26. CASE WriteAnswer
  BY <1>26 DEF WriteAnswer, files, server, history
<1>27. CASE Remove
  BY <1>27 DEF Remove, files, server, history
<1>28. CASE UNCHANGED vars
  BY <1>28 DEF vars, files, server, history
<1> QED
  BY <1>1, <1>2, <1>3, <1>4, <1>5, <1>6, <1>7, <1>8, <1>9, <1>10, <1>11, <1>12, <1>13,
     <1>14, <1>15, <1>16, <1>17, <1>18, <1>19, <1>20, <1>21, <1>22, <1>23, <1>24, <1>25,
     <1>26, <1>27, <1>28
  DEF Next, Call, Run, Process, Serve, Handle

\* What was carried out is not read again by the same process.
LEMMA SpentStep == ASSUME ControlAssumption, TypeOK, Files, [Next]_vars PROVE Spent'
<1> USE DEF ControlAssumption, TypeOK, Commands, Waiting, Files, Spent, Torn, Fresh, Hand
<1>1. ASSUME NEW c \in Clients, Submit(c) PROVE Spent'
  BY <1>1 DEF Submit, files, server, history
<1>2. ASSUME NEW c \in Clients, WriteCommand(c) PROVE Spent'
  BY <1>2 DEF WriteCommand, files, server, history
<1>3. ASSUME NEW c \in Clients, ReadAnswer(c) PROVE Spent'
  BY <1>3 DEF ReadAnswer, files, server, history
<1>4. ASSUME NEW c \in Clients, GiveUp(c) PROVE Spent'
  BY <1>4 DEF GiveUp, files, server, history
<1>5. ASSUME NEW c \in Clients, Abandon(c) PROVE Spent'
  BY <1>5 DEF Abandon, files, server, history
<1>6. CASE Boot
  BY <1>6 DEF Boot, files, server, history
<1>7. CASE BootDone
  BY <1>7 DEF BootDone, files, server, history
<1>8. CASE Die
  BY <1>8 DEF Die, Ended, files, server, history
<1>9. CASE Terminate
  BY <1>9 DEF Terminate, files, server, history
<1>10. CASE StopBots
  BY <1>10 DEF StopBots, files, server, history
<1>11. CASE Exit
  BY <1>11 DEF Exit, Ended, files, server, history
<1>12. ASSUME NEW b \in Bots, Tick(b) PROVE Spent'
  BY <1>12 DEF Tick, files, server, history
<1>13. ASSUME NEW b \in Bots, TickDone(b) PROVE Spent'
  BY <1>13 DEF TickDone, files, server, history
<1>14. ASSUME NEW b \in Bots, TickFails(b) PROVE Spent'
  BY <1>14 DEF TickFails, Raise, files, server, history
<1>15. ASSUME NEW b \in Bots, TaskEnds(b) PROVE Spent'
  BY <1>15 DEF TaskEnds, files, server, history
<1>16. CASE ListInbox
  BY <1>16 DEF ListInbox, files, server, history
<1>17. ASSUME NEW c \in Clients, TakeUnreadable(c) PROVE Spent'
  BY <1>17 DEF TakeUnreadable, files, server, history
<1>18. ASSUME NEW c \in Clients, TakeStartRunning(c) PROVE Spent'
  BY <1>18 DEF TakeStartRunning, Take, files, server, history
<1>19. ASSUME NEW c \in Clients, TakeStart(c) PROVE Spent'
  BY <1>19 DEF TakeStart, Take, files, server, history
<1>20. ASSUME NEW c \in Clients, TakeStop(c) PROVE Spent'
  BY <1>20 DEF TakeStop, Take, files, server, history
<1>21. CASE Started
  BY <1>21 DEF Started, files, server, history
<1>22. CASE Cancelled
  BY <1>22 DEF Cancelled, files, server, history
<1>23. CASE Stopped
  BY <1>23 DEF Stopped, files, server, history
<1>24. CASE HookRaises
  BY <1>24 DEF HookRaises, Raise, files, server, history
<1>25. CASE CreateAnswer
  BY <1>25 DEF CreateAnswer, files, server, history
<1>26. CASE WriteAnswer
  BY <1>26 DEF WriteAnswer, files, server, history
<1>27. CASE Remove
  BY <1>27 DEF Remove, files, server, history
<1>28. CASE UNCHANGED vars
  BY <1>28 DEF vars, files, server, history
<1> QED
  BY <1>1, <1>2, <1>3, <1>4, <1>5, <1>6, <1>7, <1>8, <1>9, <1>10, <1>11, <1>12, <1>13,
     <1>14, <1>15, <1>16, <1>17, <1>18, <1>19, <1>20, <1>21, <1>22, <1>23, <1>24, <1>25,
     <1>26, <1>27, <1>28
  DEF Next, Call, Run, Process, Serve, Handle

\* GiveUp removes the file, and write_text does not create it again.
LEMMA TakenBackStep == ASSUME ControlAssumption, TypeOK, Files, [Next]_vars PROVE TakenBack'
<1> USE DEF ControlAssumption, TypeOK, Commands, Waiting, Files, TakenBack, Spent, Torn,
      Fresh, Hand
<1>1. ASSUME NEW c \in Clients, Submit(c) PROVE TakenBack'
  BY <1>1 DEF Submit, files, server, history
<1>2. ASSUME NEW c \in Clients, WriteCommand(c) PROVE TakenBack'
  BY <1>2 DEF WriteCommand, files, server, history
<1>3. ASSUME NEW c \in Clients, ReadAnswer(c) PROVE TakenBack'
  BY <1>3 DEF ReadAnswer, files, server, history
<1>4. ASSUME NEW c \in Clients, GiveUp(c) PROVE TakenBack'
  BY <1>4 DEF GiveUp, files, server, history
<1>5. ASSUME NEW c \in Clients, Abandon(c) PROVE TakenBack'
  BY <1>5 DEF Abandon, files, server, history
<1>6. CASE Boot
  BY <1>6 DEF Boot, files, server, history
<1>7. CASE BootDone
  BY <1>7 DEF BootDone, files, server, history
<1>8. CASE Die
  BY <1>8 DEF Die, Ended, files, server, history
<1>9. CASE Terminate
  BY <1>9 DEF Terminate, files, server, history
<1>10. CASE StopBots
  BY <1>10 DEF StopBots, files, server, history
<1>11. CASE Exit
  BY <1>11 DEF Exit, Ended, files, server, history
<1>12. ASSUME NEW b \in Bots, Tick(b) PROVE TakenBack'
  BY <1>12 DEF Tick, files, server, history
<1>13. ASSUME NEW b \in Bots, TickDone(b) PROVE TakenBack'
  BY <1>13 DEF TickDone, files, server, history
<1>14. ASSUME NEW b \in Bots, TickFails(b) PROVE TakenBack'
  BY <1>14 DEF TickFails, Raise, files, server, history
<1>15. ASSUME NEW b \in Bots, TaskEnds(b) PROVE TakenBack'
  BY <1>15 DEF TaskEnds, files, server, history
<1>16. CASE ListInbox
  BY <1>16 DEF ListInbox, files, server, history
<1>17. ASSUME NEW c \in Clients, TakeUnreadable(c) PROVE TakenBack'
  BY <1>17 DEF TakeUnreadable, files, server, history
<1>18. ASSUME NEW c \in Clients, TakeStartRunning(c) PROVE TakenBack'
  BY <1>18 DEF TakeStartRunning, Take, files, server, history
<1>19. ASSUME NEW c \in Clients, TakeStart(c) PROVE TakenBack'
  BY <1>19 DEF TakeStart, Take, files, server, history
<1>20. ASSUME NEW c \in Clients, TakeStop(c) PROVE TakenBack'
  BY <1>20 DEF TakeStop, Take, files, server, history
<1>21. CASE Started
  BY <1>21 DEF Started, files, server, history
<1>22. CASE Cancelled
  BY <1>22 DEF Cancelled, files, server, history
<1>23. CASE Stopped
  BY <1>23 DEF Stopped, files, server, history
<1>24. CASE HookRaises
  BY <1>24 DEF HookRaises, Raise, files, server, history
<1>25. CASE CreateAnswer
  BY <1>25 DEF CreateAnswer, files, server, history
<1>26. CASE WriteAnswer
  BY <1>26 DEF WriteAnswer, files, server, history
<1>27. CASE Remove
  BY <1>27 DEF Remove, files, server, history
<1>28. CASE UNCHANGED vars
  BY <1>28 DEF vars, files, server, history
<1> QED
  BY <1>1, <1>2, <1>3, <1>4, <1>5, <1>6, <1>7, <1>8, <1>9, <1>10, <1>11, <1>12, <1>13,
     <1>14, <1>15, <1>16, <1>17, <1>18, <1>19, <1>20, <1>21, <1>22, <1>23, <1>24, <1>25,
     <1>26, <1>27, <1>28
  DEF Next, Call, Run, Process, Serve, Handle

\* An acceptance follows the start or stop.
LEMMA AcceptedStep == ASSUME ControlAssumption, TypeOK, Files, [Next]_vars PROVE Accepted'
<1> USE DEF ControlAssumption, TypeOK, Commands, Waiting, Files, Accepted, Hand, Fresh
<1>1. ASSUME NEW c \in Clients, Submit(c) PROVE Accepted'
  BY <1>1 DEF Submit, files, server, history
<1>2. ASSUME NEW c \in Clients, WriteCommand(c) PROVE Accepted'
  BY <1>2 DEF WriteCommand, files, server, history
<1>3. ASSUME NEW c \in Clients, ReadAnswer(c) PROVE Accepted'
  BY <1>3 DEF ReadAnswer, files, server, history
<1>4. ASSUME NEW c \in Clients, GiveUp(c) PROVE Accepted'
  BY <1>4 DEF GiveUp, files, server, history
<1>5. ASSUME NEW c \in Clients, Abandon(c) PROVE Accepted'
  BY <1>5 DEF Abandon, files, server, history
<1>6. CASE Boot
  BY <1>6 DEF Boot, files, server, history
<1>7. CASE BootDone
  BY <1>7 DEF BootDone, files, server, history
<1>8. CASE Die
  BY <1>8 DEF Die, Ended, files, server, history
<1>9. CASE Terminate
  BY <1>9 DEF Terminate, files, server, history
<1>10. CASE StopBots
  BY <1>10 DEF StopBots, files, server, history
<1>11. CASE Exit
  BY <1>11 DEF Exit, Ended, files, server, history
<1>12. ASSUME NEW b \in Bots, Tick(b) PROVE Accepted'
  BY <1>12 DEF Tick, files, server, history
<1>13. ASSUME NEW b \in Bots, TickDone(b) PROVE Accepted'
  BY <1>13 DEF TickDone, files, server, history
<1>14. ASSUME NEW b \in Bots, TickFails(b) PROVE Accepted'
  BY <1>14 DEF TickFails, Raise, files, server, history
<1>15. ASSUME NEW b \in Bots, TaskEnds(b) PROVE Accepted'
  BY <1>15 DEF TaskEnds, files, server, history
<1>16. CASE ListInbox
  BY <1>16 DEF ListInbox, files, server, history
<1>17. ASSUME NEW c \in Clients, TakeUnreadable(c) PROVE Accepted'
  BY <1>17 DEF TakeUnreadable, files, server, history
<1>18. ASSUME NEW c \in Clients, TakeStartRunning(c) PROVE Accepted'
  BY <1>18 DEF TakeStartRunning, Take, files, server, history
<1>19. ASSUME NEW c \in Clients, TakeStart(c) PROVE Accepted'
  BY <1>19 DEF TakeStart, Take, files, server, history
<1>20. ASSUME NEW c \in Clients, TakeStop(c) PROVE Accepted'
  BY <1>20 DEF TakeStop, Take, files, server, history
<1>21. CASE Started
  BY <1>21 DEF Started, files, server, history
<1>22. CASE Cancelled
  BY <1>22 DEF Cancelled, files, server, history
<1>23. CASE Stopped
  BY <1>23 DEF Stopped, files, server, history
<1>24. CASE HookRaises
  BY <1>24 DEF HookRaises, Raise, files, server, history
<1>25. CASE CreateAnswer
  BY <1>25 DEF CreateAnswer, files, server, history
<1>26. CASE WriteAnswer
  BY <1>26 DEF WriteAnswer, files, server, history
<1>27. CASE Remove
  BY <1>27 DEF Remove, files, server, history
<1>28. CASE UNCHANGED vars
  BY <1>28 DEF vars, files, server, history
<1> QED
  BY <1>1, <1>2, <1>3, <1>4, <1>5, <1>6, <1>7, <1>8, <1>9, <1>10, <1>11, <1>12, <1>13,
     <1>14, <1>15, <1>16, <1>17, <1>18, <1>19, <1>20, <1>21, <1>22, <1>23, <1>24, <1>25,
     <1>26, <1>27, <1>28
  DEF Next, Call, Run, Process, Serve, Handle

\* After a failure the file goes before the next pass lists the inbox.
LEMMA FailedStep == ASSUME ControlAssumption, TypeOK, Files, [Next]_vars PROVE Failed'
<1> USE DEF ControlAssumption, TypeOK, Commands, Waiting, Files, Failed, Spent, Fresh, Hand
<1>1. ASSUME NEW c \in Clients, Submit(c) PROVE Failed'
  BY <1>1 DEF Submit, files, server, history
<1>2. ASSUME NEW c \in Clients, WriteCommand(c) PROVE Failed'
  BY <1>2 DEF WriteCommand, files, server, history
<1>3. ASSUME NEW c \in Clients, ReadAnswer(c) PROVE Failed'
  BY <1>3 DEF ReadAnswer, files, server, history
<1>4. ASSUME NEW c \in Clients, GiveUp(c) PROVE Failed'
  BY <1>4 DEF GiveUp, files, server, history
<1>5. ASSUME NEW c \in Clients, Abandon(c) PROVE Failed'
  BY <1>5 DEF Abandon, files, server, history
<1>6. CASE Boot
  BY <1>6 DEF Boot, files, server, history
<1>7. CASE BootDone
  BY <1>7 DEF BootDone, files, server, history
<1>8. CASE Die
  BY <1>8 DEF Die, Ended, files, server, history
<1>9. CASE Terminate
  BY <1>9 DEF Terminate, files, server, history
<1>10. CASE StopBots
  BY <1>10 DEF StopBots, files, server, history
<1>11. CASE Exit
  BY <1>11 DEF Exit, Ended, files, server, history
<1>12. ASSUME NEW b \in Bots, Tick(b) PROVE Failed'
  BY <1>12 DEF Tick, files, server, history
<1>13. ASSUME NEW b \in Bots, TickDone(b) PROVE Failed'
  BY <1>13 DEF TickDone, files, server, history
<1>14. ASSUME NEW b \in Bots, TickFails(b) PROVE Failed'
  BY <1>14 DEF TickFails, Raise, files, server, history
<1>15. ASSUME NEW b \in Bots, TaskEnds(b) PROVE Failed'
  BY <1>15 DEF TaskEnds, files, server, history
<1>16. CASE ListInbox
  BY <1>16 DEF ListInbox, files, server, history
<1>17. ASSUME NEW c \in Clients, TakeUnreadable(c) PROVE Failed'
  BY <1>17 DEF TakeUnreadable, files, server, history
<1>18. ASSUME NEW c \in Clients, TakeStartRunning(c) PROVE Failed'
  BY <1>18 DEF TakeStartRunning, Take, files, server, history
<1>19. ASSUME NEW c \in Clients, TakeStart(c) PROVE Failed'
  BY <1>19 DEF TakeStart, Take, files, server, history
<1>20. ASSUME NEW c \in Clients, TakeStop(c) PROVE Failed'
  BY <1>20 DEF TakeStop, Take, files, server, history
<1>21. CASE Started
  BY <1>21 DEF Started, files, server, history
<1>22. CASE Cancelled
  BY <1>22 DEF Cancelled, files, server, history
<1>23. CASE Stopped
  BY <1>23 DEF Stopped, files, server, history
<1>24. CASE HookRaises
  BY <1>24 DEF HookRaises, Raise, files, server, history
<1>25. CASE CreateAnswer
  BY <1>25 DEF CreateAnswer, files, server, history
<1>26. CASE WriteAnswer
  BY <1>26 DEF WriteAnswer, files, server, history
<1>27. CASE Remove
  BY <1>27 DEF Remove, files, server, history
<1>28. CASE UNCHANGED vars
  BY <1>28 DEF vars, files, server, history
<1> QED
  BY <1>1, <1>2, <1>3, <1>4, <1>5, <1>6, <1>7, <1>8, <1>9, <1>10, <1>11, <1>12, <1>13,
     <1>14, <1>15, <1>16, <1>17, <1>18, <1>19, <1>20, <1>21, <1>22, <1>23, <1>24, <1>25,
     <1>26, <1>27, <1>28
  DEF Next, Call, Run, Process, Serve, Handle

\* start_bot, stop_bot and _run_bot keep what the heartbeat reports true.
LEMMA ReportStep == ASSUME ControlAssumption, TypeOK, Files, Reports, [Next]_vars PROVE
     Reports'
<1> USE DEF ControlAssumption, TypeOK, Commands, Files, Hand, Reports, Waits, Unwinding,
      Booting, ReportedTrue, InHand
<1>1. ASSUME NEW c \in Clients, Submit(c) PROVE Reports'
  BY <1>1 DEF Submit, files, server, history
<1>2. ASSUME NEW c \in Clients, WriteCommand(c) PROVE Reports'
  BY <1>2 DEF WriteCommand, files, server, history
<1>3. ASSUME NEW c \in Clients, ReadAnswer(c) PROVE Reports'
  BY <1>3 DEF ReadAnswer, files, server, history
<1>4. ASSUME NEW c \in Clients, GiveUp(c) PROVE Reports'
  BY <1>4 DEF GiveUp, files, server, history
<1>5. ASSUME NEW c \in Clients, Abandon(c) PROVE Reports'
  BY <1>5 DEF Abandon, files, server, history
<1>6. CASE Boot
  BY <1>6 DEF Boot, files, server, history
<1>7. CASE BootDone
  BY <1>7 DEF BootDone, files, server, history
<1>8. CASE Die
  BY <1>8 DEF Die, Ended, files, server, history
<1>9. CASE Terminate
  BY <1>9 DEF Terminate, files, server, history
<1>10. CASE StopBots
  BY <1>10 DEF StopBots, files, server, history
<1>11. CASE Exit
  BY <1>11 DEF Exit, Ended, files, server, history
<1>12. ASSUME NEW b \in Bots, Tick(b) PROVE Reports'
  BY <1>12 DEF Tick, files, server, history
<1>13. ASSUME NEW b \in Bots, TickDone(b) PROVE Reports'
  BY <1>13 DEF TickDone, files, server, history
<1>14. ASSUME NEW b \in Bots, TickFails(b) PROVE Reports'
  BY <1>14 DEF TickFails, Raise, files, server, history
<1>15. ASSUME NEW b \in Bots, TaskEnds(b) PROVE Reports'
  BY <1>15 DEF TaskEnds, files, server, history
<1>16. CASE ListInbox
  BY <1>16 DEF ListInbox, files, server, history
<1>17. ASSUME NEW c \in Clients, TakeUnreadable(c) PROVE Reports'
  BY <1>17 DEF TakeUnreadable, files, server, history
<1>18. ASSUME NEW c \in Clients, TakeStartRunning(c) PROVE Reports'
  BY <1>18 DEF TakeStartRunning, Take, files, server, history
<1>19. ASSUME NEW c \in Clients, TakeStart(c) PROVE Reports'
  BY <1>19 DEF TakeStart, Take, files, server, history
<1>20. ASSUME NEW c \in Clients, TakeStop(c) PROVE Reports'
  BY <1>20 DEF TakeStop, Take, files, server, history
<1>21. CASE Started
  BY <1>21 DEF Started, files, server, history
<1>22. CASE Cancelled
  BY <1>22 DEF Cancelled, files, server, history
<1>23. CASE Stopped
  BY <1>23 DEF Stopped, files, server, history
<1>24. CASE HookRaises
  BY <1>24 DEF HookRaises, Raise, files, server, history
<1>25. CASE CreateAnswer
  BY <1>25 DEF CreateAnswer, files, server, history
<1>26. CASE WriteAnswer
  BY <1>26 DEF WriteAnswer, files, server, history
<1>27. CASE Remove
  BY <1>27 DEF Remove, files, server, history
<1>28. CASE UNCHANGED vars
  BY <1>28 DEF vars, files, server, history
<1> QED
  BY <1>1, <1>2, <1>3, <1>4, <1>5, <1>6, <1>7, <1>8, <1>9, <1>10, <1>11, <1>12, <1>13,
     <1>14, <1>15, <1>16, <1>17, <1>18, <1>19, <1>20, <1>21, <1>22, <1>23, <1>24, <1>25,
     <1>26, <1>27, <1>28
  DEF Next, Call, Run, Process, Serve, Handle

-----------------------------------------------------------------------------
(* The theorems.                                                            *)

Inv == TypeOK /\ Files /\ Reports

LEMMA Always == Spec => []Inv
<1>1. Init => Inv
  BY ControlAssumption DEF ControlAssumption, Init, Inv, TypeOK, TaskStates, InFiles,
     OutFiles,
     Waiting, Told, Files, Hand, Fresh, Torn, Spent, TakenBack, Accepted, Failed, Reports,
     Waits, Unwinding, Booting, ReportedTrue, InHand
<1>2. Inv /\ [Next]_vars => Inv'
  <2> SUFFICES ASSUME Inv, [Next]_vars PROVE Inv'
    OBVIOUS
  <2>1. TypeOK'
    BY TypeStep, ControlAssumption DEF Inv, Files
  <2>2. Hand' /\ Fresh' /\ Torn' /\ Spent'
    BY HandStep, FreshStep, TornStep, SpentStep, ControlAssumption DEF Inv
  <2>3. TakenBack' /\ Accepted' /\ Failed'
    BY TakenBackStep, AcceptedStep, FailedStep, ControlAssumption DEF Inv
  <2>4. Reports'
    BY ReportStep, ControlAssumption DEF Inv
  <2> QED
    BY <2>1, <2>2, <2>3, <2>4 DEF Inv, Files
<1> QED
  BY <1>1, <1>2, PTL DEF Spec

\* The state is well typed, and what a client is told of its command and what the
\* heartbeat reports of a bot is so.
THEOREM AlwaysHonest == Spec => []Honest
<1>1. Inv => Honest
  BY DEF Inv, TypeOK, Files, Accepted, Failed, Reports, Honest, ToldTrue
<1> QED
  BY <1>1, Always, PTL

\* A command that its client took back before the orchestrator had read it is never
\* carried out, whatever list of files the pass in progress works from.
THEOREM TakenBackNeverRun == Spec => []WithdrawnNotRun
<1>1. Inv => WithdrawnNotRun
  BY DEF Inv, Files, TakenBack, WithdrawnNotRun
<1> QED
  BY <1>1, Always, PTL

\* A command is carried out twice only if the process ended with it in hand.
THEOREM RepeatsAreCut == Spec => []RepeatExplained
<1> DEFINE Once == \A c \in Clients : c \notin cut => done[c] <= 1
<1>1. Init => Once
  BY DEF Init
<1>2. Inv /\ Once /\ [Next]_vars => Once'
  <2> SUFFICES ASSUME Inv, Once, [Next]_vars, NEW c \in Clients, c \notin cut'
               PROVE  done'[c] <= 1
    OBVIOUS
  <2>1. cut \subseteq cut'
  BY DEF Next, Call, Run, Process, Serve, Handle, Submit, WriteCommand, ReadAnswer, GiveUp,
  Abandon, Boot, BootDone, Die, Terminate, StopBots, Exit, Ended, Tick, TickDone, TickFails,
       TaskEnds, ListInbox, TakeUnreadable, TakeStartRunning, TakeStart, TakeStop, Started,
       Cancelled, Stopped, HookRaises, CreateAnswer, WriteAnswer, Remove, vars, history
  <2>2. \/ done' = done
        \/ \E d \in Clients : TakeStartRunning(d)
        \/ Started \/ Stopped
  BY DEF Next, Call, Run, Process, Serve, Handle, Submit, WriteCommand, ReadAnswer, GiveUp,
       Abandon, Boot, BootDone, Die, Terminate, StopBots, Exit, Tick, TickDone, TickFails,
       TaskEnds, ListInbox, TakeUnreadable, TakeStart, TakeStop, Cancelled, HookRaises,
       CreateAnswer, WriteAnswer, Remove, vars, history
  <2>3. ASSUME NEW d \in Clients, TakeStartRunning(d) PROVE done'[c] <= 1
    BY <2>1, <2>3 DEF TakeStartRunning, Take, Inv, TypeOK, Files, Spent, Hand
  <2>4. CASE Started \/ Stopped
    BY <2>1, <2>4 DEF Started, Stopped, Inv, TypeOK, Files, Spent, Hand
  <2> QED
    BY <2>1, <2>2, <2>3, <2>4
<1>3. Inv /\ Once => RepeatExplained
  BY DEF Inv, TypeOK, RepeatExplained
<1> QED
  BY <1>1, <1>2, <1>3, Always, PTL DEF Spec

-----------------------------------------------------------------------------
(* The candle pipeline                                                      *)

\* The bar that a job hands over is the bar it marked.
HandMarked ==
  \A p \in Pairs : job[p].stage = "hand" => job[p].bar = rev[p] /\ rev[p] \in Bars

\* A job that is about to mark has analysed a bar.
MarkHasBar == \A p \in Pairs : job[p].stage = "mark" => job[p].bar \in Bars

\* A job that was not skipped is for a close after the revision.
AheadOfRevision ==
  \A p \in Pairs :
    job[p].stage \in {"analyze", "mark"} /\ ~job[p].boot /\ ~job[p].catchup =>
      rev[p] = 0 \/ rev[p] < job[p].trig

IInv == HandMarked /\ MarkHasBar /\ CoveredDelivered /\ AheadOfRevision

-----------------------------------------------------------------------------
(* Types.                                                                   *)

\* The bar the clock points at is a bar, and so is the one that closes next.
LEMMA ClockBars ==
  ASSUME PipelineTyped
  PROVE  /\ Expected \in Bars
         /\ NextCloseAt \in 0 .. 2 * MaxBar + 3
         /\ clock < 2 * MaxBar + 1 /\ clock % 2 # 0 => (clock + 1) \div 2 \in Bars
<1>1. MaxBar \in Nat /\ MaxBar > 0 /\ clock \in Nat /\ clock >= 2
      /\ clock <= 2 * MaxBar + 1
  BY ConstantsAssumption DEF PipelineTyped
<1>2. clock \div 2 \in Nat /\ clock \div 2 >= 1 /\ clock \div 2 <= MaxBar
  BY <1>1
<1>3. clock < 2 * MaxBar + 1 /\ clock % 2 # 0 =>
        (clock + 1) \div 2 \in Nat /\ (clock + 1) \div 2 >= 1
        /\ (clock + 1) \div 2 <= MaxBar
  BY <1>1
<1>4. Expected \in Bars
  BY <1>1, <1>2 DEF Expected, Bars
<1>5. NextCloseAt \in 0 .. 2 * MaxBar + 3
  BY <1>1, <1>2 DEF NextCloseAt, Expected
<1>6. clock < 2 * MaxBar + 1 /\ clock % 2 # 0 => (clock + 1) \div 2 \in Bars
  BY <1>1, <1>3 DEF Bars
<1> QED
  BY <1>4, <1>5, <1>6

\* A batch holds jobs.
LEMMA DispatchTypes ==
  ASSUME PipelineTyped, NEW due, NEW short, NEW catchup \in BOOLEAN,
         Dispatch(due, short, catchup)
  PROVE  /\ job' \in [Pairs -> Jobs \cup {NoJob}]
         /\ \A p \in Pairs : job'[p].stage \in {"fetch", "none"}
<1> DEFINE New(p) == [stage |-> "fetch", trig |-> Expected, boot |-> p \in short,
                      catchup |-> catchup, bar |-> 0]
<1>1. ASSUME NEW p \in Pairs
      PROVE  New(p) \in Jobs /\ New(p).stage = "fetch"
  <2>1. Expected \in BarOrNone /\ 0 \in BarOrNone
    BY ClockBars, ConstantsAssumption DEF Bars, BarOrNone
  <2> QED
    BY <2>1 DEF Jobs, Stages
<1>2. NoJob.stage = "none"
  BY DEF NoJob
<1>3. job' = [p \in Pairs |-> IF p \in due THEN New(p) ELSE NoJob]
  BY DEF Dispatch
<1> HIDE DEF New
<1> QED
  BY <1>1, <1>2, <1>3

\* The parts of the type invariant.
LEMMA PipelineTypeStep ==
  ASSUME PipelineTyped, HandMarked, [PipelineNext]_pipelineVars
  PROVE  PipelineTyped'
<1> USE ConstantsAssumption DEF PipelineTyped, env, store, process, outcome
<1>1. MaxBar \in Nat /\ MaxBar > 0
  OBVIOUS
<1>2. ASSUME Advance PROVE PipelineTyped'
  BY <1>1, <1>2, ClockBars DEF Advance
<1>3. ASSUME Startup PROVE PipelineTyped'
  <2>1. job' \in [Pairs -> Jobs \cup {NoJob}]
    BY <1>3, DispatchTypes DEF Startup
  <2> QED
    BY <1>3, <2>1, ClockBars DEF Startup
<1>4. ASSUME DueTick PROVE PipelineTyped'
  <2>1. job' \in [Pairs -> Jobs \cup {NoJob}]
    BY <1>4, DispatchTypes DEF DueTick
  <2> QED
    BY <1>4, <2>1, ClockBars DEF DueTick
<1>5. ASSUME FallbackTick PROVE PipelineTyped'
  <2>1. job' \in [Pairs -> Jobs \cup {NoJob}]
    BY <1>5, DispatchTypes DEF FallbackTick
  <2> QED
    BY <1>5, <2>1 DEF FallbackTick
<1>6. ASSUME Crash PROVE PipelineTyped'
  <2>1. 0 \in 0 .. 2 * MaxBar + 3 /\ 0 \in BarOrNone
    BY <1>1 DEF BarOrNone
  <2>2. lapses' \in [faults : 0 .. MaxFaults, crashes : 0 .. MaxCrashes]
    BY <1>6 DEF Crash
  <2> QED
    BY <1>6, <2>1, <2>2 DEF Crash
<1>7. ASSUME Restart PROVE PipelineTyped'
  BY <1>7 DEF Restart
<1>8. ASSUME NEW p \in Pairs, Fetch(p) PROVE PipelineTyped'
  <2>1. job[p] \in Jobs
    BY <1>8 DEF Fetch, NoJob
  <2>2. [job[p] EXCEPT !.stage = "analyze"] \in Jobs
    BY <2>1 DEF Jobs, Stages
  <2>3. job' \in [Pairs -> Jobs \cup {NoJob}]
    BY <1>8, <2>2 DEF Fetch
  <2>4. Synced(p) \subseteq BarOrNone
    BY <1>1 DEF Synced, Extended, NextServed, Newest, Bars, BarOrNone
  <2>5. cache' \in [Pairs -> BarOrNone]
    BY <1>8, <2>4 DEF Fetch
  <2>6. held' \in [Pairs -> NoBars .. RequirementMet]
    BY <1>8 DEF Fetch, NoBars, UnitMet, RequirementMet
  <2> QED
    BY <1>8, <2>3, <2>5, <2>6 DEF Fetch
<1>9. ASSUME NEW p \in Pairs, Analyze(p) PROVE PipelineTyped'
  <2>1. job[p] \in Jobs
    BY <1>9 DEF Analyze, NoJob
  <2>2. \A b \in Newest(p) : b \in BarOrNone
    BY <1>1 DEF Newest, Bars, BarOrNone
  <2>3. \A b \in BarOrNone : [job[p] EXCEPT !.stage = "mark", !.bar = b] \in Jobs
    BY <2>1 DEF Jobs, Stages
  <2>4. PICK b \in Newest(p) :
          job' = [job EXCEPT ![p] = [@ EXCEPT !.stage = "mark", !.bar = b]]
    BY <1>9 DEF Analyze
  <2>5. job' \in [Pairs -> Jobs \cup {NoJob}]
    BY <2>2, <2>3, <2>4
  <2> QED
    BY <1>9, <2>5 DEF Analyze
<1>10. ASSUME NEW p \in Pairs, Mark(p) PROVE PipelineTyped'
  <2>1. job[p] \in Jobs
    BY <1>10 DEF Mark, NoJob
  <2>2. [job[p] EXCEPT !.stage = "hand"] \in Jobs /\ job[p].bar \in BarOrNone
    BY <2>1 DEF Jobs, Stages
  <2> QED
    BY <1>10, <2>2 DEF Mark
<1>11. ASSUME NEW p \in Pairs, HandOver(p) PROVE PipelineTyped'
  <2>1. job[p].bar \in Bars
    BY <1>11 DEF HandOver, HandMarked
  <2>2. Signal(p) \subseteq Cross
    BY DEF Signal
  <2> QED
    BY <1>11, <2>1, <2>2 DEF HandOver
<1>12. ASSUME NEW p \in Pairs, Fail(p) PROVE PipelineTyped'
  <2>1. job[p].stage = "hand" => job[p].bar \in Bars
    BY <1>12 DEF HandMarked
  <2> QED
    BY <1>12, <2>1 DEF Fail
<1>13. ASSUME NEW p \in Pairs, WebSync(p) PROVE PipelineTyped'
  <2>1. Extended(p) \subseteq BarOrNone /\ NextServed(p) \subseteq BarOrNone
    BY <1>1 DEF Extended, NextServed, Newest, Bars, BarOrNone
  <2> QED
    BY <1>13, <2>1 DEF WebSync, NoBars, RequirementMet
<1>14. ASSUME NEW p \in Pairs, NEW b \in Bars, Publish(p, b) PROVE PipelineTyped'
  BY <1>14 DEF Publish
<1>15. ASSUME UNCHANGED pipelineVars PROVE PipelineTyped'
  BY <1>15 DEF pipelineVars
<1> QED
  BY <1>2, <1>3, <1>4, <1>5, <1>6, <1>7, <1>8, <1>9, <1>10, <1>11, <1>12, <1>13,
     <1>14, <1>15 DEF PipelineNext, BatchTick, Step

-----------------------------------------------------------------------------
(* The inductive invariant.                                                 *)

\* What a step that leaves the jobs past their fetch, the revisions and the
\* outcome of the pairs alone preserves.
LEMMA QuietStep ==
  ASSUME PipelineTyped, IInv, UNCHANGED <<handed, lost>>, UNCHANGED rev,
         \A q \in Pairs : job'[q] = job[q] \/ job'[q].stage \in {"fetch", "none"}
  PROVE  /\ HandMarked' /\ MarkHasBar' /\ AheadOfRevision'
         /\ (\A q \in Pairs : job[q].stage # "hand" \/ job'[q] = job[q]) => CoveredDelivered'
<1> USE DEF IInv, HandMarked, MarkHasBar, AheadOfRevision, CoveredDelivered
<1>1. HandMarked'
  OBVIOUS
<1>2. MarkHasBar'
  OBVIOUS
<1>3. AheadOfRevision'
  OBVIOUS
<1>4. (\A q \in Pairs : job[q].stage # "hand" \/ job'[q] = job[q]) => CoveredDelivered'
  OBVIOUS
<1> QED
  BY <1>1, <1>2, <1>3, <1>4

LEMMA InitInv == PipelineInit => PipelineTyped /\ IInv
<1> SUFFICES ASSUME PipelineInit PROVE PipelineTyped /\ IInv
  OBVIOUS
<1>1. MaxBar \in Nat /\ MaxBar > 0 /\ MaxFaults \in Nat /\ MaxCrashes \in Nat
  BY ConstantsAssumption
<1>2. 3 \in 2 .. 2 * MaxBar + 1 /\ 0 \in 0 .. 2 * MaxBar + 3 /\ 1 \in Bars
      /\ 0 \in BarOrNone /\ 1 \in BarOrNone
  BY <1>1 DEF Bars, BarOrNone
<1>3. PipelineTyped
  <2>1. cache \in [Pairs -> BarOrNone]
    BY <1>2 DEF PipelineInit
  <2>2. lapses \in [faults : 0 .. MaxFaults, crashes : 0 .. MaxCrashes]
    BY <1>1 DEF PipelineInit
  <2> QED
    BY <1>2, <2>1, <2>2 DEF PipelineInit, PipelineTyped
<1>4. IInv
  BY DEF PipelineInit, IInv, HandMarked, MarkHasBar, AheadOfRevision, CoveredDelivered, NoJob
<1> QED
  BY <1>3, <1>4

LEMMA InvStep ==
  ASSUME PipelineTyped, IInv, [PipelineNext]_pipelineVars
  PROVE  IInv'
<1> USE DEF env, store, process, outcome
<1>1. ASSUME Advance PROVE IInv'
  BY <1>1, QuietStep DEF Advance, IInv
<1>2. ASSUME Startup PROVE IInv'
  <2>1. \A q \in Pairs : job'[q].stage \in {"fetch", "none"}
    BY <1>2, DispatchTypes DEF Startup
  <2>2. \A q \in Pairs : job[q].stage # "hand"
    BY <1>2 DEF Startup, Idle, NoJob
  <2> QED
    BY <1>2, <2>1, <2>2, QuietStep DEF Startup, IInv
<1>3. ASSUME DueTick PROVE IInv'
  <2>1. \A q \in Pairs : job'[q].stage \in {"fetch", "none"}
    BY <1>3, DispatchTypes DEF DueTick
  <2>2. \A q \in Pairs : job[q].stage # "hand"
    BY <1>3 DEF DueTick, Idle, NoJob
  <2> QED
    BY <1>3, <2>1, <2>2, QuietStep DEF DueTick, IInv
<1>4. ASSUME FallbackTick PROVE IInv'
  <2>1. \A q \in Pairs : job'[q].stage \in {"fetch", "none"}
    BY <1>4, DispatchTypes DEF FallbackTick
  <2>2. \A q \in Pairs : job[q].stage # "hand"
    BY <1>4 DEF FallbackTick, Idle, NoJob
  <2> QED
    BY <1>4, <2>1, <2>2, QuietStep DEF FallbackTick, IInv
<1>5. ASSUME Crash PROVE IInv'
  BY <1>5 DEF Crash, NoJob, IInv, HandMarked, MarkHasBar, AheadOfRevision, CoveredDelivered
<1>6. ASSUME Restart PROVE IInv'
  BY <1>6, QuietStep DEF Restart, IInv
<1>7. ASSUME NEW p \in Pairs, Fetch(p) PROVE IInv'
  <2>1. PICK latest \in Synced(p) :
          job' = [job EXCEPT ![p] = IF Skips(p, latest) THEN NoJob
                                    ELSE [@ EXCEPT !.stage = "analyze"]]
    BY <1>7 DEF Fetch
  <2>2. job[p] \in Jobs /\ job[p].stage = "fetch"
    BY <1>7 DEF Fetch, PipelineTyped, NoJob
  <2>3. UNCHANGED <<rev, handed, lost>>
    BY <1>7 DEF Fetch
  <2>4. CASE Skips(p, latest)
    <3>1. \A q \in Pairs : job'[q] = IF q = p THEN NoJob ELSE job[q]
      BY <2>1, <2>4 DEF PipelineTyped
    <3> QED
      BY <2>2, <2>3, <3>1, QuietStep DEF IInv, NoJob
  <2>5. CASE ~Skips(p, latest)
    <3>1. \A q \in Pairs \ {p} : job'[q] = job[q]
      BY <2>1 DEF PipelineTyped
    <3>2. job'[p].stage = "analyze" /\ job'[p].boot = job[p].boot
          /\ job'[p].catchup = job[p].catchup /\ job'[p].trig = job[p].trig
      BY <2>1, <2>2, <2>5 DEF PipelineTyped, Jobs
    <3>3. ~job[p].boot /\ ~job[p].catchup => ~Covers(p, job[p].trig)
      BY <2>5 DEF Skips
    <3>4. rev[p] \in Nat /\ job[p].trig \in Nat
      BY <2>2, ConstantsAssumption DEF PipelineTyped, Jobs, BarOrNone
    <3>5. ~job[p].boot /\ ~job[p].catchup => rev[p] = 0 \/ rev[p] < job[p].trig
      BY <3>3, <3>4 DEF Covers
    <3>6. AheadOfRevision'
      BY <2>3, <3>1, <3>2, <3>5 DEF AheadOfRevision, IInv
    <3>7. HandMarked' /\ MarkHasBar'
      BY <2>3, <3>1, <3>2 DEF HandMarked, MarkHasBar, IInv
    <3>8. CoveredDelivered'
      BY <2>2, <2>3, <3>1, <3>2 DEF CoveredDelivered, IInv
    <3> QED
      BY <3>6, <3>7, <3>8 DEF IInv
  <2> QED
    BY <2>4, <2>5
<1>8. ASSUME NEW p \in Pairs, Analyze(p) PROVE IInv'
  <2>1. PICK b \in Newest(p) :
          job' = [job EXCEPT ![p] = [@ EXCEPT !.stage = "mark", !.bar = b]]
    BY <1>8 DEF Analyze
  <2>2. job[p] \in Jobs /\ job[p].stage = "analyze" /\ b \in Bars
    BY <1>8, <2>1 DEF Analyze, PipelineTyped, NoJob, Newest
  <2>3. \A q \in Pairs \ {p} : job'[q] = job[q]
    BY <2>1 DEF PipelineTyped
  <2>4. job'[p].stage = "mark" /\ job'[p].boot = job[p].boot /\ job'[p].bar = b
        /\ job'[p].catchup = job[p].catchup /\ job'[p].trig = job[p].trig
    BY <2>1, <2>2 DEF PipelineTyped, Jobs
  <2>5. UNCHANGED <<rev, handed, lost>>
    BY <1>8 DEF Analyze
  <2>6. AheadOfRevision'
    BY <2>2, <2>3, <2>4, <2>5 DEF AheadOfRevision, IInv
  <2>7. HandMarked' /\ MarkHasBar'
    BY <2>2, <2>3, <2>4, <2>5 DEF HandMarked, MarkHasBar, IInv
  <2>8. CoveredDelivered'
    BY <2>2, <2>3, <2>4, <2>5 DEF CoveredDelivered, IInv
  <2> QED
    BY <2>6, <2>7, <2>8 DEF IInv
<1>9. ASSUME NEW p \in Pairs, Mark(p) PROVE IInv'
  <2>1. job[p] \in Jobs /\ job[p].stage = "mark" /\ job[p].bar \in Bars
    BY <1>9 DEF Mark, PipelineTyped, NoJob, IInv, MarkHasBar
  <2>2. \A q \in Pairs \ {p} : job'[q] = job[q] /\ rev'[q] = rev[q]
    BY <1>9 DEF Mark, PipelineTyped
  <2>3. job'[p].stage = "hand" /\ job'[p].bar = job[p].bar /\ rev'[p] = job[p].bar
    BY <1>9, <2>1 DEF Mark, PipelineTyped, Jobs
  <2>4. UNCHANGED <<handed, lost>>
    BY <1>9 DEF Mark
  <2>5. AheadOfRevision'
    BY <2>2, <2>3 DEF AheadOfRevision, IInv
  <2>6. HandMarked' /\ MarkHasBar'
    BY <2>1, <2>2, <2>3 DEF HandMarked, MarkHasBar, IInv
  <2>7. CoveredDelivered'
    BY <2>2, <2>3, <2>4 DEF CoveredDelivered, IInv
  <2> QED
    BY <2>5, <2>6, <2>7 DEF IInv
<1>10. ASSUME NEW p \in Pairs, HandOver(p) \/ Fail(p) PROVE IInv'
  <2>1. \A q \in Pairs : job'[q] = IF q = p THEN NoJob ELSE job[q]
    BY <1>10 DEF HandOver, Fail, PipelineTyped
  <2>2. UNCHANGED rev
    BY <1>10 DEF HandOver, Fail
  <2>3. \A q \in Pairs : handed[q] \subseteq handed'[q] /\ lost[q] \subseteq lost'[q]
    BY <1>10 DEF HandOver, Fail, PipelineTyped
  <2>4. job[p].stage = "hand" => job[p].bar \in handed'[p] \cup lost'[p]
    BY <1>10 DEF HandOver, Fail, PipelineTyped
  <2>5. job[p].stage = "hand" => rev'[p] \in handed'[p] \cup lost'[p]
    BY <2>2, <2>4 DEF IInv, HandMarked
  <2>6. AheadOfRevision' /\ HandMarked' /\ MarkHasBar'
    BY <2>1, <2>2 DEF NoJob, AheadOfRevision, HandMarked, MarkHasBar, IInv
  <2>7. CoveredDelivered'
    BY <2>1, <2>2, <2>3, <2>5 DEF CoveredDelivered, IInv
  <2> QED
    BY <2>6, <2>7 DEF IInv
<1>11. ASSUME NEW p \in Pairs, WebSync(p) PROVE IInv'
  BY <1>11, QuietStep DEF WebSync, IInv
<1>12. ASSUME NEW p \in Pairs, NEW b \in Bars, Publish(p, b) PROVE IInv'
  BY <1>12, QuietStep DEF Publish, IInv
<1>13. ASSUME UNCHANGED pipelineVars PROVE IInv'
  BY <1>13, QuietStep DEF pipelineVars, IInv
<1> QED
  BY <1>1, <1>2, <1>3, <1>4, <1>5, <1>6, <1>7, <1>8, <1>9, <1>10, <1>11, <1>12,
     <1>13 DEF PipelineNext, BatchTick, Step

LEMMA Invariant == Pipeline => [](PipelineTyped /\ IInv)
<1>1. PipelineTyped /\ IInv /\ [PipelineNext]_pipelineVars => PipelineTyped' /\ IInv'
  BY PipelineTypeStep, InvStep DEF IInv
<1> QED
  BY InitInv, <1>1, PTL DEF Pipeline

-----------------------------------------------------------------------------
(* The theorems.                                                            *)

\* Every reachable state of the candle pipeline is well typed.
THEOREM PipelineTypeCorrect == Pipeline => []PipelineTyped
  BY Invariant, PTL

\* A bar that is marked as analysed, and whose job is over, was processed by the
\* Broker or its hand-over raised: with any number of crashes no signal is lost
\* silently between run_job's mark and process_analysis.
THEOREM MarkedMeansDelivered == Pipeline => []CoveredDelivered
<1>1. IInv => CoveredDelivered
  BY DEF IInv
<1> QED
  BY Invariant, <1>1, PTL

\* Only warm-up, catch-up and bars that OANDA serves late make the pipeline
\* analyse a bar again.
THEOREM RepeatsAreExplained == Pipeline => []ReanalysisExplained
<1>1. PipelineTyped /\ IInv => ReanalysisExplained
  BY DEF IInv, AheadOfRevision, ReanalysisExplained
<1> QED
  BY Invariant, <1>1, PTL
=============================================================================
