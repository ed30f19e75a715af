----------------------------- MODULE HMI_proofs -----------------------------
(* Proofs about the HMI for every set of speeds and readings and every period. *)
EXTENDS HMI, SequenceTheorems, TLAPS

\* calculate_raw_command maps every integer, also one no model should
\* recommend, to a stop or into the working range of the drive.
LEMMA RawCommandInRange ==
  ASSUME NEW speed \in Int
  PROVE  RawCommand(speed) \in SafeCommands /\ RawCommand(speed) \in Nat
  BY DEF RawCommand, SafeCommands

\* calculate_raw_command never turns a higher speed into a lower command.
THEOREM RawCommandMonotone ==
  ASSUME NEW s \in Nat, NEW t \in Nat, s <= t
  PROVE  RawCommand(s) <= RawCommand(t)
<1>1. (4087 * s + 1402000) \div 1000 <= (4087 * t + 1402000) \div 1000
  OBVIOUS
<1>2. QED
  BY <1>1 DEF RawCommand

-----------------------------------------------------------------------------

\* Every variable keeps its type.
THEOREM TypeCorrect == Spec => []TypeOK
<1>1. Init => TypeOK
  <2>1. <<>> \in Seq(Signals)  OBVIOUS
  <2>2. ASSUME Init PROVE is_running \in BOOLEAN /\ btn_apply \in BOOLEAN
    BY <2>2, Zenon DEF Init
  <2>3. ASSUME Init PROVE ai_display_label \in Int \cup {NoSuggestion}
                          /\ lbl_speed \in Int /\ current_ai_speed \in Int
    BY <2>3 DEF Init
  <2>4. ASSUME Init PROVE ai_counter \in Nat /\ current_speed \in Nat
                          /\ register \in Nat /\ command \in Nat
    BY <2>4 DEF Init
  <2>5. ASSUME Init PROVE queue \in Seq(Signals)
    BY <2>5, <2>1 DEF Init
  <2>6. QED  BY <2>2, <2>3, <2>4, <2>5 DEF Init, TypeOK
<1>2. TypeOK /\ [Next]_vars => TypeOK'
  <2> SUFFICES ASSUME TypeOK, [Next]_vars PROVE TypeOK'
    OBVIOUS
  <2> USE SpeedAssumption DEF TypeOK, hwVars, guiVars, writeVars, offerVars
  <2>1. ASSUME NEW m \in Signals PROVE Append(queue, m) \in Seq(Signals)
    OBVIOUS
  <2>2. CASE Connect    BY <2>2 DEF Connect
  <2>3. CASE BeginCycle BY <2>3 DEF BeginCycle
  <2>4. CASE LeaveLoop  BY <2>4 DEF LeaveLoop
  <2>5. CASE ReadPLC
    <3>1. PlcError \in Signals  BY DEF PlcError, Signals
    <3>2. queue' \in Seq(Signals)  BY <2>1, <2>5, <3>1 DEF ReadPLC
    <3>3. current_speed' \in Nat  BY <2>5 DEF ReadPLC
    <3>4. QED  BY <2>5, <3>2, <3>3, SMTT(30) DEF ReadPLC
  <2>6. CASE EmitTelemetry
    <3>1. Telemetry(current_speed) \in Signals  BY DEF Telemetry, Signals
    <3>2. QED  BY <2>1, <2>6, <3>1 DEF EmitTelemetry
  <2>7. CASE RunInference
    <3>1. \A s \in AiSpeeds : Suggestion(s) \in Signals  BY DEF Suggestion, Signals
    <3>2. queue' \in Seq(Signals)  BY <2>1, <2>7, <3>1 DEF RunInference
    <3>3. QED  BY <2>7, <3>2 DEF RunInference
  <2>8. CASE SkipInference BY <2>8 DEF SkipInference
  <2>9. CASE Deliver
    <3>1. Head(queue) \in Signals /\ Tail(queue) \in Seq(Signals)
      BY <2>9, HeadTailProperties DEF Deliver
    <3>2. Head(queue).speed \in Int  BY <3>1 DEF Signals
    <3>3. CASE DisplaySuggestion
      <4>1. btn_apply' \in BOOLEAN  BY <3>3, Zenon DEF DisplaySuggestion
      <4>2. ai_display_label' \in Int \cup {NoSuggestion} /\ current_ai_speed' \in Int
        BY <3>2, <3>3 DEF DisplaySuggestion
      <4>3. QED  BY <2>9, <3>1, <3>3, <4>1, <4>2 DEF Deliver, DisplaySuggestion
    <3>4. CASE UpdateTelemetry  BY <2>9, <3>1, <3>2, <3>4 DEF Deliver, UpdateTelemetry
    <3>5. CASE DisplayStatus    BY <2>9, <3>1, <3>5 DEF Deliver, DisplayStatus
    <3>6. QED  BY <2>9, <3>3, <3>4, <3>5 DEF Deliver
  <2>10. CASE ClickManual
    <3>1. PICK s \in ManualSpeeds : StartWrite("manual", s)  BY <2>10 DEF ClickManual
    <3>2. RawCommand(s) \in Nat  BY RawCommandInRange
    <3>3. QED  BY <3>1, <3>2 DEF StartWrite
  <2>11. CASE ClickApply
    BY <2>11, RawCommandInRange DEF ClickApply, StartWrite
  <2>12. CASE WriteSpeed   
    <3>1. register' \in Nat /\ port' \in {"open", "closed"}  BY <2>12 DEF WriteSpeed
    <3>2. write_result' \in {"none", "ok", "error", "exception"}
          /\ lbl_status' \in {"ready", "plc_error", "write_error", "written", "applied"}
      BY <2>12 DEF WriteSpeed
    <3>3. QED  BY <2>12, <3>1, <3>2 DEF WriteSpeed
  <2>13. CASE ReportManual BY <2>13 DEF ReportManual
  <2>14. CASE ReportApply  BY <2>14 DEF ReportApply
  <2>15. CASE ToggleGraph
    <3>1. graph_window' \in {"none", "visible", "hidden"}  BY <2>15 DEF ToggleGraph
    <3>2. QED  BY <2>15, <3>1 DEF ToggleGraph
  <2>16. CASE CloseGraph   BY <2>16 DEF CloseGraph
  <2>17. CASE Stop
    <3>1. is_running' \in BOOLEAN  BY <2>17, Zenon DEF Stop
    <3>2. QED  BY <2>17, <3>1 DEF Stop
  <2>18. CASE ClosePort    BY <2>18 DEF ClosePort
  <2>19. CASE FinishClose  BY <2>19 DEF FinishClose
  <2>20. CASE UNCHANGED vars BY <2>20 DEF vars
  <2>21. QED
    BY <2>2, <2>3, <2>4, <2>5, <2>6, <2>7, <2>8, <2>9, <2>10, <2>11, <2>12, <2>13,
       <2>14, <2>15, <2>16, <2>17, <2>18, <2>19, <2>20 DEF Next, WorkerStep, GuiStep
<1>3. QED
  BY <1>1, <1>2, PTL DEF Spec

-----------------------------------------------------------------------------

\* No interleaving of writes, timeouts and lost answers leaves anything but a
\* stop or a working-range command in the drive's register.
THEOREM CommandsAreSafe == Spec => []CommandInRange
<1>1. Init => CommandInRange
  BY DEF Init, CommandInRange, SafeCommands
<1>2. TypeOK /\ CommandInRange /\ [Next]_vars => CommandInRange'
  <2> SUFFICES ASSUME TypeOK, CommandInRange, [Next]_vars PROVE CommandInRange'
    OBVIOUS
  <2> USE DEF CommandInRange, hwVars, guiVars, writeVars
  <2>1. CASE WorkerStep
    BY <2>1 DEF WorkerStep, Connect, BeginCycle, LeaveLoop, ReadPLC, EmitTelemetry,
                RunInference, SkipInference
  <2>2. CASE ClickManual
    <3>1. PICK s \in ManualSpeeds : StartWrite("manual", s)  BY <2>2 DEF ClickManual
    <3>2. RawCommand(s) \in SafeCommands  BY SpeedAssumption, RawCommandInRange
    <3>3. QED  BY <3>1, <3>2 DEF StartWrite
  <2>3. CASE ClickApply
    <3>1. RawCommand(current_ai_speed) \in SafeCommands  BY RawCommandInRange DEF TypeOK
    <3>2. QED  BY <2>3, <3>1 DEF ClickApply, StartWrite
  <2>4. CASE WriteSpeed  BY <2>4 DEF WriteSpeed
  <2>5. CASE Deliver \/ ReportManual \/ ReportApply \/ ToggleGraph \/ CloseGraph
             \/ Stop \/ ClosePort \/ FinishClose
    BY <2>5 DEF Deliver, ReportManual, ReportApply, ToggleGraph, CloseGraph,
                Stop, ClosePort, FinishClose
  <2>6. CASE UNCHANGED vars  BY <2>6 DEF vars
  <2>7. QED
    BY <2>1, <2>2, <2>3, <2>4, <2>5, <2>6 DEF Next, GuiStep
<1>3. QED
  BY <1>1, <1>2, TypeCorrect, PTL DEF Spec

-----------------------------------------------------------------------------

\* The speed an accepted offer writes is the one the operator saw.
THEOREM OffersAreHonest == Spec => []OfferIsWhatIsShown
<1>1. Init => OfferIsWhatIsShown
  BY DEF Init, OfferIsWhatIsShown
<1>2. TypeOK /\ OfferIsWhatIsShown /\ [Next]_vars => OfferIsWhatIsShown'
  <2> SUFFICES ASSUME TypeOK, OfferIsWhatIsShown, [Next]_vars PROVE OfferIsWhatIsShown'
    OBVIOUS
  <2> USE DEF OfferIsWhatIsShown, hwVars, guiVars, writeVars, offerVars
  <2>1. CASE WorkerStep
    BY <2>1 DEF WorkerStep, Connect, BeginCycle, LeaveLoop, ReadPLC, EmitTelemetry,
                RunInference, SkipInference
  <2>2. CASE Deliver
    <3>1. Head(queue).speed \in Int
      <4>1. Head(queue) \in Signals  BY <2>2, HeadTailProperties DEF Deliver, TypeOK
      <4>2. QED  BY <4>1 DEF Signals
    <3>2. Head(queue).speed # NoSuggestion
      BY <3>1, SpeedAssumption
    <3>3. CASE DisplaySuggestion
      <4>1. btn_apply'  BY <3>3 DEF DisplaySuggestion
      <4>2. QED  BY <2>2, <3>2, <3>3, <4>1 DEF Deliver, DisplaySuggestion
    <3>4. CASE UpdateTelemetry \/ DisplayStatus
      BY <2>2, <3>4 DEF Deliver, UpdateTelemetry, DisplayStatus
    <3>5. QED  BY <2>2, <3>3, <3>4 DEF Deliver
  <2>3. CASE ClickManual  BY <2>3 DEF ClickManual, StartWrite
  <2>4. CASE ClickApply  BY <2>4 DEF ClickApply, StartWrite
  <2>5. CASE WriteSpeed \/ ReportManual \/ ReportApply \/ ToggleGraph \/ CloseGraph
             \/ Stop \/ ClosePort \/ FinishClose
    BY <2>5 DEF WriteSpeed, ReportManual, ReportApply, ToggleGraph, CloseGraph,
                Stop, ClosePort, FinishClose
  <2>6. CASE UNCHANGED vars  BY <2>6 DEF vars
  <2>7. QED
    BY <2>1, <2>2, <2>3, <2>4, <2>5, <2>6 DEF Next, GuiStep
<1>3. QED
  BY <1>1, <1>2, TypeCorrect, PTL DEF Spec

-----------------------------------------------------------------------------

\* stop() returns only after the worker left its loop.
ClosedAfterWorker == gui = "closed" => worker = "done"

LEMMA ClosedAfterWorkerInvariant == Spec => []ClosedAfterWorker
<1>1. Init => ClosedAfterWorker
  BY DEF Init, ClosedAfterWorker
<1>2. ClosedAfterWorker /\ [Next]_vars => ClosedAfterWorker'
  BY DEF ClosedAfterWorker, Next, WorkerStep, GuiStep, Connect, BeginCycle, LeaveLoop,
         ReadPLC, EmitTelemetry, RunInference, SkipInference, Deliver, ClickManual,
         ClickApply, StartWrite, WriteSpeed, ReportManual, ReportApply, ToggleGraph,
         CloseGraph, Stop, ClosePort, FinishClose, vars, hwVars, guiVars
<1>3. QED
  BY <1>1, <1>2, PTL DEF Spec

\* After the window is closed the port, the drive and the worker stay as they are.
THEOREM ClosedIsQuiet == Spec => QuietAfterClose
<1>1. ClosedAfterWorker /\ [Next]_vars
        => [gui = "closed" => UNCHANGED <<port, register, worker>>]_vars
  BY DEF ClosedAfterWorker, Next, WorkerStep, GuiStep, Connect, BeginCycle, LeaveLoop,
         ReadPLC, EmitTelemetry, RunInference, SkipInference, Deliver, ClickManual,
         ClickApply, StartWrite, WriteSpeed, ReportManual, ReportApply, ToggleGraph,
         CloseGraph, Stop, ClosePort, FinishClose, vars, hwVars, guiVars
<1>2. QED
  BY <1>1, ClosedAfterWorkerInvariant, PTL DEF Spec, QuietAfterClose
=============================================================================
