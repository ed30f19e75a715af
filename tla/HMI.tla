-------------------------------- MODULE HMI --------------------------------
(***************************************************************************)
(* The conveyor HMI, meta-plc/recipes-app/hmi-app/files/hmi_fx_ai.py.      *)
(*                                                                         *)
(* Two threads share one Modbus client: the worker samples the PLC, runs   *)
(* the AI model every AiPeriod cycles and posts Qt signals; the GUI thread *)
(* delivers those signals one at a time, and writes the speed command from *)
(* its own click handlers.  A signal emitted by the worker is queued for   *)
(* the GUI's event loop; one emitted in the GUI thread (write_speed's      *)
(* error report) is a direct call.                                         *)
(*                                                                         *)
(* Of a telemetry sample only the speed is kept.  Wording, MQTT and the    *)
(* curves of the graph window are left out.                                *)
(***************************************************************************)
EXTENDS Integers, Sequences

CONSTANTS
  ManualSpeeds,  \* what the spin box can hold
  AiSpeeds,      \* what the model may recommend: any integer it was trained to
  Readings,      \* what register D120 can read
  AiPeriod,      \* worker cycles between two inferences (10 in the code)
  NoSuggestion,  \* the label's placeholder texts
  AiReady,       \* the model and the scaler were loaded
  MaxBacklog     \* bound: a new cycle starts with at most this many queued signals

ASSUME SpeedAssumption ==
  /\ ManualSpeeds \subseteq 0..600
  /\ AiSpeeds \subseteq Int /\ NoSuggestion \notin Int
  /\ Readings \subseteq Nat
  /\ AiPeriod \in Nat \ {0}
  /\ AiReady \in BOOLEAN
  /\ MaxBacklog \in Nat

VARIABLES
  worker,            \* where the worker thread is in run()
  is_running,        \* cleared by stop()
  ai_counter,        \* cycles since the last inference
  current_speed,     \* the sample of the cycle in progress
  port,              \* the serial port of plc_client: "open" or "closed"
  register,          \* the PLC's command register D8116
  queue,             \* worker signals not yet delivered, oldest first
  gui,               \* where the GUI thread is
  cause,             \* which handler is writing: "manual" or "apply"
  command,           \* the raw command of the write in progress or last made
  write_result,      \* how the last write_register ended
  lbl_speed,         \* the labels and the button the operator sees
  lbl_status,
  ai_display_label,  \* the recommended speed shown, or NoSuggestion
  current_ai_speed,
  btn_apply,
  graph_window       \* "none", "visible", or "hidden" once it was closed

hwVars     == <<worker, is_running, ai_counter, current_speed>>
offerVars  == <<ai_display_label, current_ai_speed, btn_apply>>
writeVars  == <<cause, command, write_result>>
guiVars    == <<gui, lbl_speed, lbl_status, graph_window>>
vars == <<hwVars, port, register, queue, guiVars, writeVars, offerVars>>

Telemetry(s)  == [sig |-> "telemetry", speed |-> s]
Suggestion(s) == [sig |-> "suggestion", speed |-> s]
PlcError      == [sig |-> "status", speed |-> 0]

Signals == [sig : {"telemetry", "suggestion", "status"}, speed : Int]

\* Mutant of RawCommand: the upper clamp forgotten.
RawCommandUnclamped(speed) ==
  LET raw == (4087 * speed + 1402000) \div 1000
  IN  IF speed = 0 THEN 0 ELSE IF raw < 2000 THEN 2000 ELSE raw

\* Mutant of RawCommand: the offset subtracted, and no lower clamp.
RawCommandWrongSign(speed) ==
  IF speed = 0 THEN 0 ELSE (4087 * speed - 1402000) \div 1000

\* calculate_raw_command: 4.087 * speed + 1402, truncated and clamped, in
\* thousandths.  No speed below the clamp makes 4.087 * speed an integer, so
\* the binary rounding of the product never moves the truncation.
RawCommand(speed) ==
  LET raw == (4087 * speed + 1402000) \div 1000
  IN  IF speed = 0 THEN 0
      ELSE IF raw < 2000 THEN 2000
      ELSE IF raw > 4000 THEN 4000
      ELSE raw

TypeOK ==
  /\ worker \in {"start", "check", "read", "emit", "ai", "done"}
  /\ is_running \in BOOLEAN
  /\ ai_counter \in Nat
  /\ current_speed \in Nat
  /\ port \in {"open", "closed"}
  /\ register \in Nat
  /\ queue \in Seq(Signals)
  /\ gui \in {"idle", "writing", "reporting", "stopping", "waiting", "closed"}
  /\ cause \in {"manual", "apply"}
  /\ command \in Nat
  /\ write_result \in {"none", "ok", "error", "exception"}
  /\ lbl_speed \in Int
  /\ lbl_status \in {"ready", "plc_error", "write_error", "written", "applied"}
  /\ ai_display_label \in Int \cup {NoSuggestion}
  /\ current_ai_speed \in Int
  /\ btn_apply \in BOOLEAN
  /\ graph_window \in {"none", "visible", "hidden"}

Init ==
  /\ worker = "start" /\ is_running = TRUE
  /\ ai_counter = 0 /\ current_speed = 0
  /\ port = "closed" /\ register = 0
  /\ queue = <<>>
  /\ gui = "idle" /\ cause = "manual" /\ command = 0 /\ write_result = "none"
  /\ lbl_speed = 0 /\ lbl_status = "ready"
  /\ ai_display_label = NoSuggestion /\ current_ai_speed = 0 /\ btn_apply = FALSE
  /\ graph_window = "none"

-----------------------------------------------------------------------------
(* The worker thread: run(). *)

Connect ==
  /\ worker = "start"
  /\ port' \in {"open", "closed"}          \* connect() reports failure, never raises
  /\ worker' = "check"
  /\ UNCHANGED <<is_running, ai_counter, current_speed, register, queue,
                 guiVars, writeVars, offerVars>>

BeginCycle ==
  /\ worker = "check" /\ is_running
  /\ Len(queue) <= MaxBacklog
  /\ current_speed' = 0
  /\ worker' = "read"
  /\ UNCHANGED <<is_running, ai_counter, port, register, queue,
                 guiVars, writeVars, offerVars>>

LeaveLoop ==
  /\ worker = "check" /\ ~is_running
  /\ worker' = "done"
  /\ UNCHANGED <<is_running, ai_counter, current_speed, port, register, queue,
                 guiVars, writeVars, offerVars>>

\* The client reopens a closed port before it sends a request, so a read that
\* gets an answer leaves the port open even after stop() has closed it.
ReadPLC ==
  /\ worker = "read"
  /\ worker' = "emit"
  /\ \/ /\ current_speed' \in Readings     \* a good answer
        /\ port' = "open"
        /\ UNCHANGED queue
     \/ /\ port' = "open"                  \* res.isError(): the sample stays 0
        /\ UNCHANGED <<current_speed, queue>>
     \/ /\ port' \in {"open", "closed"}    \* no answer, or no port
        /\ queue' = Append(queue, PlcError)
        /\ UNCHANGED current_speed
  /\ UNCHANGED <<is_running, ai_counter, register, guiVars, writeVars, offerVars>>

EmitTelemetry ==
  /\ worker = "emit"
  /\ queue' = Append(queue, Telemetry(current_speed))
  /\ ai_counter' = IF AiReady THEN ai_counter + 1
                   ELSE ai_counter         \* bound: never compared when not ready
  /\ worker' = "ai"
  /\ UNCHANGED <<is_running, current_speed, port, register, guiVars, writeVars, offerVars>>

InferenceDue == ai_counter >= AiPeriod /\ AiReady

\* An exception inside the inference is printed and dropped.
RunInference ==
  /\ worker = "ai" /\ InferenceDue
  /\ \/ \E s \in AiSpeeds : queue' = Append(queue, Suggestion(s))
     \/ UNCHANGED queue
  /\ ai_counter' = 0
  /\ worker' = "check"
  /\ UNCHANGED <<is_running, current_speed, port, register, guiVars, writeVars, offerVars>>

SkipInference ==
  /\ worker = "ai" /\ ~InferenceDue
  /\ worker' = "check"
  /\ UNCHANGED <<is_running, ai_counter, current_speed, port, register, queue,
                 guiVars, writeVars, offerVars>>

WorkerStep == \/ Connect \/ BeginCycle \/ LeaveLoop \/ ReadPLC
              \/ EmitTelemetry \/ RunInference \/ SkipInference

-----------------------------------------------------------------------------
(* The GUI thread: the slots the queued signals run... *)

\* Mutant of DisplaySuggestion: setEnabled(True) forgotten.
DisplaySuggestionDisabled ==
  /\ Head(queue).sig = "suggestion"
  /\ ai_display_label' = Head(queue).speed
  /\ current_ai_speed' = Head(queue).speed
  /\ UNCHANGED <<btn_apply, lbl_speed, lbl_status>>

DisplaySuggestion ==
  /\ Head(queue).sig = "suggestion"
  /\ ai_display_label' = Head(queue).speed
  /\ current_ai_speed' = Head(queue).speed
  /\ btn_apply' = TRUE
  /\ UNCHANGED <<lbl_speed, lbl_status>>

UpdateTelemetry ==
  /\ Head(queue).sig = "telemetry"
  /\ lbl_speed' = Head(queue).speed
  /\ UNCHANGED <<lbl_status, offerVars>>

DisplayStatus ==
  /\ Head(queue).sig = "status"
  /\ lbl_status' = "plc_error"
  /\ UNCHANGED <<lbl_speed, offerVars>>

Deliver ==
  /\ gui = "idle" /\ queue # <<>>
  /\ queue' = Tail(queue)
  /\ DisplaySuggestion \/ UpdateTelemetry \/ DisplayStatus
  /\ UNCHANGED <<hwVars, port, register, gui, graph_window, writeVars>>

(* ... and the clicks. *)

StartWrite(handler, speed) ==
  /\ gui = "idle"
  /\ gui' = "writing"
  /\ cause' = handler
  /\ command' = RawCommand(speed)
  /\ UNCHANGED <<hwVars, port, register, queue, lbl_speed, lbl_status,
                 graph_window, write_result, offerVars>>

ClickManual == \E speed \in ManualSpeeds : StartWrite("manual", speed)

ClickApply  == btn_apply /\ StartWrite("apply", current_ai_speed)

\* write_speed.  The answer to a write the PLC did execute may be lost, so an
\* exception leaves the register old or new.
WriteSpeed ==
  /\ gui = "writing"
  /\ gui' = "reporting"
  /\ \/ /\ register' = command /\ port' = "open"
        /\ write_result' = "ok"
        /\ UNCHANGED lbl_status
     \/ /\ port' = "open"                  \* an error response is not looked at
        /\ write_result' = "error"
        /\ UNCHANGED <<register, lbl_status>>
     \/ /\ register' \in {register, command}
        /\ port' \in {"open", "closed"}
        /\ write_result' = "exception"
        /\ lbl_status' = "write_error"
  /\ UNCHANGED <<hwVars, queue, lbl_speed, graph_window, cause, command, offerVars>>

ReportManual ==
  /\ gui = "reporting" /\ cause = "manual"
  /\ lbl_status' = "written"
  /\ gui' = "idle"
  /\ UNCHANGED <<hwVars, port, register, queue, lbl_speed, graph_window,
                 writeVars, offerVars>>

\* Mutant of ReportApply: the button stays enabled.
ReportApplyEnabled ==
  /\ gui = "reporting" /\ cause = "apply"
  /\ lbl_status' = "applied"
  /\ ai_display_label' = NoSuggestion
  /\ gui' = "idle"
  /\ UNCHANGED <<hwVars, port, register, queue, lbl_speed, graph_window,
                 writeVars, current_ai_speed, btn_apply>>

ReportApply ==
  /\ gui = "reporting" /\ cause = "apply"
  /\ lbl_status' = "applied"
  /\ ai_display_label' = NoSuggestion
  /\ btn_apply' = FALSE
  /\ gui' = "idle"
  /\ UNCHANGED <<hwVars, port, register, queue, lbl_speed, graph_window,
                 writeVars, current_ai_speed>>

ToggleGraph ==
  /\ gui = "idle"
  /\ graph_window' = IF graph_window = "visible" THEN "none" ELSE "visible"
  /\ UNCHANGED <<hwVars, port, register, queue, gui, lbl_speed, lbl_status,
                 writeVars, offerVars>>

\* The graph window closed by the window system, behind the main window's back.
CloseGraph ==
  /\ gui = "idle" /\ graph_window = "visible"
  /\ graph_window' = "hidden"
  /\ UNCHANGED <<hwVars, port, register, queue, gui, lbl_speed, lbl_status,
                 writeVars, offerVars>>

-----------------------------------------------------------------------------
(* Closing: closeEvent runs stop(), which blocks the GUI thread in wait(). *)

\* Mutant of Stop: the flag is not cleared.
StopForgetsFlag ==
  /\ gui = "idle"
  /\ gui' = "stopping"
  /\ UNCHANGED <<hwVars, port, register, queue, lbl_speed, lbl_status,
                 graph_window, writeVars, offerVars>>

Stop ==
  /\ gui = "idle"
  /\ is_running' = FALSE
  /\ gui' = "stopping"
  /\ UNCHANGED <<worker, ai_counter, current_speed, port, register, queue,
                 lbl_speed, lbl_status, graph_window, writeVars, offerVars>>

ClosePort ==
  /\ gui = "stopping"
  /\ port' = "closed"
  /\ gui' = "waiting"
  /\ UNCHANGED <<hwVars, register, queue, lbl_speed, lbl_status, graph_window,
                 writeVars, offerVars>>

\* Mutant of FinishClose: stop() without wait().
FinishCloseEarly ==
  /\ gui = "waiting"
  /\ gui' = "closed"
  /\ graph_window' = IF graph_window = "visible" THEN "hidden" ELSE graph_window
  /\ UNCHANGED <<hwVars, port, register, queue, lbl_speed, lbl_status,
                 writeVars, offerVars>>

FinishClose ==
  /\ gui = "waiting" /\ worker = "done"
  /\ gui' = "closed"
  /\ graph_window' = IF graph_window = "visible" THEN "hidden" ELSE graph_window
  /\ UNCHANGED <<hwVars, port, register, queue, lbl_speed, lbl_status,
                 writeVars, offerVars>>

GuiStep == \/ Deliver \/ ClickManual \/ ClickApply \/ WriteSpeed
           \/ ReportManual \/ ReportApply \/ ToggleGraph \/ CloseGraph
           \/ Stop \/ ClosePort \/ FinishClose

Next == WorkerStep \/ GuiStep

Spec == Init /\ [][Next]_vars

\* Every Modbus call times out (timeout=1), so neither thread stays in one;
\* Qt handles posted events on every turn of its loop, clicks or no clicks.
\* Nobody is obliged to click, nor to close the window.
FairSpec ==
  /\ Spec
  /\ WF_vars(WorkerStep)
  /\ SF_vars(Deliver)
  /\ WF_vars(WriteSpeed) /\ WF_vars(ReportManual) /\ WF_vars(ReportApply)
  /\ WF_vars(ClosePort) /\ WF_vars(FinishClose)

-----------------------------------------------------------------------------
(* Properties *)

SafeCommands == {0} \cup 2000..4000

\* Whatever the model recommends and however writes, timeouts and lost answers
\* interleave, the drive's register holds a stop or a command of the drive's
\* working range (calculate_raw_command's clamps), never a raw model output.
CommandInRange ==
  /\ register \in SafeCommands
  /\ gui = "writing" => command \in SafeCommands

\* The offer the operator accepts is the one on the screen: while the button
\* is enabled or an accepted offer is being written, the label shows the speed
\* that is applied, and an accepted offer cannot be accepted again.
OfferIsWhatIsShown ==
  /\ btn_apply <=> ai_display_label # NoSuggestion
  /\ btn_apply => ai_display_label = current_ai_speed
  /\ gui = "writing" /\ cause = "apply" =>
        btn_apply /\ command = RawCommand(ai_display_label)

\* Once the window is closed nobody touches the port or the drive any more:
\* stop() waits for a worker that may still have been in the middle of a cycle,
\* even one that reopened the port stop() had closed.
QuietAfterClose == [][gui = "closed" => UNCHANGED <<port, register, worker>>]_vars

\* stop() blocks the GUI thread until the worker leaves its loop, and it does.
CloseCompletes == (gui = "stopping") ~> (gui = "closed")

\* A suggestion the worker posted reaches the operator, unless the window is
\* being closed, however busy the operator is clicking.
SuggestionArrives ==
  (\E i \in DOMAIN queue : queue[i].sig = "suggestion")
    ~> (btn_apply \/ gui \in {"stopping", "waiting", "closed"})

\* The label that replaces the message boxes tells the operator when a write
\* to the PLC failed: write_speed reports the exception there.
FailedWriteIsVisible ==
  gui = "idle" /\ write_result = "exception" =>
     lbl_status \notin {"written", "applied"}

=============================================================================
