----------------------------- MODULE PlannerFsm -----------------------------
(***************************************************************************)
(* PlannerStateMachine: a Boost.MSM machine behind a wrapper that keeps    *)
(* its own copy of the current state.  The wrapper decides from its copy   *)
(* whether to forward an event, and then sets the copy to a state named in *)
(* the wrapper, not to the one the machine reached: the two tables have to *)
(* agree or current_state() lies about the machine.                        *)
(***************************************************************************)

PlannerStates == {"Idle", "Planning", "Dispatching", "Running"}

Events == {"StartPlanning", "ScheduleReady", "DispatchComplete",
           "PhaseComplete", "AllPhasesComplete", "Tick"}

(* The transition table of the MSM machine: <<source, event, target>>. *)
Rows ==
    { <<"Idle",        "StartPlanning",     "Planning">>,
      <<"Running",     "StartPlanning",     "Planning">>,
      <<"Dispatching", "StartPlanning",     "Planning">>,
      <<"Planning",    "StartPlanning",     "Planning">>,
      <<"Planning",    "ScheduleReady",     "Dispatching">>,
      <<"Dispatching", "DispatchComplete",  "Running">>,
      <<"Running",     "PhaseComplete",     "Running">>,
      <<"Running",     "AllPhasesComplete", "Idle">>,
      <<"Planning",    "PhaseComplete",     "Running">>,
      <<"Dispatching", "PhaseComplete",     "Running">>,
      <<"Planning",    "Tick",              "Planning">>,
      <<"Idle",        "Tick",              "Idle">>,
      <<"Running",     "Tick",              "Running">> }

(* Fault: PhaseComplete and AllPhasesComplete forwarded in every state. *)
Forwarded_anyState(ev) ==
    CASE ev = "AllPhasesComplete" -> PlannerStates
      [] ev = "PhaseComplete"     -> PlannerStates
      [] ev = "StartPlanning"     -> PlannerStates
      [] ev = "ScheduleReady"     -> {"Planning"}
      [] ev = "DispatchComplete"  -> {"Dispatching"}
      [] ev = "Tick"              -> {"Idle", "Planning", "Running"}

(* The states in which the wrapper forwards an event. *)
Forwarded(ev) ==
    CASE ev = "StartPlanning"     -> PlannerStates
      [] ev = "ScheduleReady"     -> {"Planning"}
      [] ev = "DispatchComplete"  -> {"Dispatching"}
      [] ev = "PhaseComplete"     -> {"Planning", "Dispatching", "Running"}
      [] ev = "AllPhasesComplete" -> {"Running"}
      [] ev = "Tick"              -> {"Idle", "Planning", "Running"}

(* The state the wrapper records after forwarding; a Tick records nothing. *)
Recorded(ev, s) ==
    CASE ev = "StartPlanning"     -> "Planning"
      [] ev = "ScheduleReady"     -> "Dispatching"
      [] ev = "DispatchComplete"  -> "Running"
      [] ev = "PhaseComplete"     -> "Running"
      [] ev = "AllPhasesComplete" -> "Idle"
      [] ev = "Tick"              -> s

(***************************************************************************)
(* The machine's own step: MSM keeps its state when no row matches.        *)
(***************************************************************************)
MsmStep(s, ev) ==
    IF \E d \in PlannerStates : <<s, ev, d>> \in Rows
    THEN CHOOSE d \in PlannerStates : <<s, ev, d>> \in Rows
    ELSE s

(* process_event on the pair of the wrapper's copy and the machine. *)
Fire(p, ev) ==
    IF p.last_known \in Forwarded(ev)
    THEN [last_known |-> Recorded(ev, p.last_known), msm |-> MsmStep(p.msm, ev)]
    ELSE p

PlannerInit == [last_known |-> "Idle", msm |-> "Idle"]
=============================================================================
