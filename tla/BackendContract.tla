--------------------------- MODULE BackendContract ---------------------------
(***************************************************************************)
(* What a WireGuard backend promises its caller (the interface Backend of  *)
(* internal/client/backend): calls come one at a time, a call touches only *)
(* the tunnel it names, an Apply that reports success has established the  *)
(* configuration and the enabled state, one that fails or is cut short     *)
(* stops somewhere on the way, and a Remove brings nothing up and never    *)
(* reports an error.  Module Reconcile has the same effects, a call at a   *)
(* time.                                                                   *)
(***************************************************************************)
CONSTANTS
    Names,     \* interface or connection names
    Configs,   \* tunnel configurations
    None       \* no call, no tunnel

VARIABLES
    keeps,     \* whether the backend keeps a profile of a disabled tunnel
    device,    \* what there is under each name
    call,      \* the call in progress, or None
    reply      \* what the last call reported, "none" during a call

vars == <<keeps, device, call, reply>>

Call ==
    [op: {"apply"}, name: Names, cfg: Configs, enabled: BOOLEAN]
      \cup [op: {"remove"}, name: Names]

Effect(cfg, enabled) ==
    IF enabled \/ keeps THEN [cfg |-> cfg, up |-> enabled] ELSE None

\* Where an Apply may pass through, or stop: nothing left, a profile that is down,
\* or, if it was asked for, the tunnel up.
ApplySteps(cfg, enabled) ==
    {None, Effect(cfg, FALSE)} \cup IF enabled THEN {Effect(cfg, TRUE)} ELSE {}

RemoveSteps(old) ==
    {None} \cup IF keeps /\ old # None THEN [cfg: Configs, up: {FALSE}] ELSE {}

-----------------------------------------------------------------------------
Init ==
    /\ keeps \in BOOLEAN
    /\ device = [n \in Names |-> None]
    /\ call = None
    /\ reply = "none"

Begin ==
    /\ call = None
    /\ call' \in Call
    /\ reply' = "none"
    /\ UNCHANGED <<keeps, device>>

Work ==
    /\ call # None
    /\ \E e \in IF call.op = "apply" THEN ApplySteps(call.cfg, call.enabled)
                                     ELSE RemoveSteps(device[call.name]) :
          device' = [device EXCEPT ![call.name] = e]
    /\ UNCHANGED <<keeps, call, reply>>

Return ==
    /\ call # None
    /\ call' = None
    /\ \/ /\ call.op = "apply" => device[call.name] = Effect(call.cfg, call.enabled)
          /\ reply' = "ok"
       \/ /\ call.op = "apply"
          /\ reply' = "error"
    /\ UNCHANGED <<keeps, device>>

\* The caller's process dies.
Crash ==
    /\ call # None
    /\ call' = None
    /\ UNCHANGED <<keeps, device, reply>>

Next == Begin \/ Work \/ Return \/ Crash

Spec == Init /\ [][Next]_vars
=============================================================================
