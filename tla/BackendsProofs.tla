--------------------------- MODULE BackendsProofs ---------------------------
(***************************************************************************)
(* Proofs about Backends, for any names, configurations and commands that  *)
(* may fail.                                                               *)
(***************************************************************************)
EXTENDS Backends, TLAPS

NM == kind = "networkmanager"
Applying == call.op = "apply"

\* Which call of which backend runs the command.
Flow ==
    /\ pc = "idle" <=> call = None
    /\ pc \in {"wg show", "wg-quick strip", "wg syncconf", "wg setconf", "wg-quick up"} =>
         kind = "wg-quick" /\ Enabling
    /\ pc = "wg-quick down" => kind = "wg-quick"
    /\ pc = "mktemp" => Applying /\ (kind = "wg-quick" \/ (kind = "windows" /\ Enabling))
    /\ pc = "uninstall" => kind = "windows"
    /\ pc = "install" => kind = "windows" /\ Enabling
    /\ pc \in {"parse", "truncate", "write", "nmcli reload"} => NM /\ Applying
    /\ pc = "nmcli up" => NM /\ Enabling
    /\ pc = "nmcli down" => NM /\ ~Enabling
    /\ pc \in {"nmcli delete", "unlink"} => NM /\ Removing
    /\ pc = "error" => Applying

\* Only NetworkManager has connection files.
OnlyNMFiles == ~NM => \A n \in Names : file[n] = None /\ loaded[n] = None

\* What the commands before it have prepared for the command that is next.
Prepared ==
    /\ pc \in {"wg-quick strip", "wg syncconf", "wg setconf"} => Running # None
    /\ pc \in {"wg-quick up", "install"} => Running = None \/ failed
    /\ pc = "mktemp" /\ kind = "windows" => Running = None \/ failed
    /\ pc \in {"truncate", "write"} => out \in Conf /\ out.wg = call.cfg.wg
    /\ pc \in {"nmcli reload", "nmcli up"} \/ (pc = "nmcli down" /\ Applying) =>
         file[call.name] \in Conf /\ file[call.name].wg = call.cfg.wg
    /\ pc = "nmcli up" =>
         loaded[call.name] = file[call.name] \/ (failed /\ "nmcli reload" \in MayFail)

IInv == TypeOK /\ Flow /\ OnlyNMFiles /\ Prepared /\ EnabledFailsOnlyOnFault

\* An Apply that is about to report success has done what it was asked for.
Done ==
    pc = "ok" /\ Applying =>
      IF call.enabled
      THEN Running \in Conf /\ Running.wg = call.cfg.wg
      ELSE /\ Running = None
           /\ NM => file[call.name] \in Conf /\ file[call.name].wg = call.cfg.wg

\* A fresh tunnel gets nothing but its configuration.
FreshOnly ==
    fresh /\ call # None /\ Enabling =>
      /\ pc \in {"uninstall", "mktemp", "wg show", "wg-quick down", "wg-quick up", "install"} =>
           Running = None
      /\ pc \in {"wg-quick strip", "wg syncconf", "wg setconf"} => FALSE
      /\ pc = "parse" => file[call.name] = None
      /\ pc \in {"truncate", "write"} => out = call.cfg
      /\ pc \in {"nmcli reload", "nmcli up"} => file[call.name] = call.cfg
      /\ pc = "ok" => Running = call.cfg

\* How far a Remove has got.
RemovedSoFar ==
    call # None /\ Removing /\ ~failed =>
      /\ pc \in {"nmcli delete", "unlink", "ok"} => Running = None
      /\ pc \in {"unlink", "ok"} => loaded[call.name] = None
      /\ pc = "ok" => file[call.name] = None

-----------------------------------------------------------------------------
(* The invariant *)

\* What a call in progress consists of.
LEMMA CallFacts ==
    ASSUME TypeOK, call # None
    PROVE  /\ call.name \in Names
           /\ Removing <=> ~Applying
           /\ Applying => /\ call.cfg \in Configs /\ call.cfg \in Conf
                          /\ call.enabled \in BOOLEAN
BY BackendsAssumption DEF TypeOK, Call, Removing, Applying

\* Every step keeps the types.
LEMMA TypeStep == TypeOK /\ Flow /\ Prepared /\ [Next]_vars => TypeOK'
<1> SUFFICES ASSUME TypeOK, Flow, Prepared, [Next]_vars PROVE TypeOK'
    OBVIOUS
<1> USE DEF TypeOK, Commands, device
<1>1. CASE UNCHANGED vars
      BY <1>1 DEF vars
<1>2. ASSUME NEW c \in Call, Begin(c) PROVE TypeOK'
      BY <1>2 DEF Begin, First
<1>3. CASE Return \/ Crash
      BY <1>3 DEF Return, Crash
<1>4. CASE MakeTemp \/ Show \/ Strip
      BY <1>4 DEF MakeTemp, Show, Strip, Runs
<1>5. CASE Update
  <2>1. call # None /\ Applying /\ Running # None
        BY <1>5 DEF Update, Runs, Flow, Prepared, Enabling, Applying
  <2>2. [Running EXCEPT !.wg = call.cfg.wg] \in Conf
        BY <2>1, CallFacts DEF Running, Conf
  <2> QED
      BY <1>5, <2>2 DEF Update, Runs, SetIface
<1>6. CASE Down \/ NMDown \/ Uninstall
      BY <1>6 DEF Down, NMDown, Uninstall, Runs, SetIface
<1>7. CASE Up \/ Install
  <2>1. call # None /\ Applying
        BY <1>7 DEF Up, Install, Runs, Flow, Enabling, Applying
  <2>2. call.cfg \in Conf /\ Running \in Conf \cup {None}
        BY <2>1, CallFacts DEF Running
  <2> QED
      BY <1>7, <2>2 DEF Up, Install, Runs, SetIface
<1>8. CASE Parse
  <2>1. call # None /\ Applying
        BY <1>8 DEF Parse, Runs, Flow
  <2>2. call.cfg \in Conf /\ file[call.name] \in Conf \cup {None, Torn}
        BY <2>1, CallFacts
  <2>3. ~Refused => Edited(file[call.name], call.cfg) \in Conf
        BY <2>2 DEF Refused, Edited, Conf
  <2> QED
      BY <1>8, <2>3 DEF Parse, Runs
<1>9. CASE Truncate \/ Write \/ Unlink
      BY <1>9 DEF Truncate, Write, Unlink, Runs
<1>10. CASE Reload
      BY <1>10 DEF Reload, Runs
<1>11. CASE NMUp
  <2>1. loaded[call.name] \in Conf \cup {None} /\ Running \in Conf \cup {None}
        BY <1>11, CallFacts DEF NMUp, Runs, Flow, Running
  <2> QED
      BY <1>11, <2>1 DEF NMUp, Runs, SetIface
<1>12. CASE NMDelete
      BY <1>12 DEF NMDelete, Runs, SetIface
<1>13. CASE Fail
      BY <1>13 DEF Fail, OnFailure, SetIface
<1> QED
    BY <1>1, <1>2, <1>3, <1>4, <1>5, <1>6, <1>7, <1>8, <1>9, <1>10, <1>11, <1>12, <1>13
    DEF Next, Command

\* The program counter goes the way of the call's backend.
LEMMA FlowStep == TypeOK /\ Flow /\ Prepared /\ [Next]_vars => Flow'
<1> SUFFICES ASSUME TypeOK, Flow, Prepared, [Next]_vars PROVE Flow'
    OBVIOUS
<1> USE DEF Flow, NM, Applying, Removing, Enabling
<1>1. CASE UNCHANGED vars
      BY <1>1 DEF vars, device
<1>2. ASSUME NEW c \in Call, Begin(c) PROVE Flow'
  <2>1. c.op \in {"apply", "remove"} /\ c # None
        BY NoneAssumption DEF Call
  <2>2. kind \in {"wg-quick", "networkmanager", "windows"}
        BY BackendsAssumption DEF TypeOK
  <2> QED
      BY <1>2, <2>1, <2>2 DEF Begin, First, device
<1>3. CASE Return \/ Crash
      BY <1>3 DEF Return, Crash
<1>4. CASE MakeTemp \/ Show \/ Strip \/ Update \/ Down \/ Up
      BY <1>4, CallFacts DEF MakeTemp, Show, Strip, Update, Down, Up, Runs
<1>5. CASE Parse \/ Truncate \/ Write \/ Reload
      BY <1>5 DEF Parse, Truncate, Write, Reload, Runs
<1>6. CASE NMUp \/ NMDown \/ NMDelete \/ Unlink
      BY <1>6, CallFacts DEF NMUp, NMDown, NMDelete, Unlink, Runs
<1>7. CASE Uninstall \/ Install
      BY <1>7 DEF Uninstall, Install, Runs
<1>8. CASE Fail
  <2>1. pc \in Commands /\ call # None
        BY <1>8, BackendsAssumption DEF Fail, Commands
  <2>2. CASE pc \in {"mktemp", "wg show", "wg-quick strip", "wg syncconf", "wg setconf",
                    "wg-quick down", "wg-quick up", "uninstall", "install"}
        BY <1>8, <2>1, <2>2, CallFacts DEF Fail, OnFailure
  <2>3. CASE pc \in {"truncate", "write", "nmcli reload", "nmcli up", "nmcli down",
                    "nmcli delete", "unlink"}
    <3>1. NM /\ (Removing <=> ~Applying) /\ UNCHANGED <<kind, call>>
          BY <1>8, <2>1, <2>3, CallFacts DEF Fail
    <3>2. CASE pc \in {"truncate", "write"}
          BY <1>8, <2>1, <3>1, <3>2 DEF Fail, OnFailure
    <3>3. CASE pc \in {"nmcli reload", "nmcli up"}
          BY <1>8, <2>1, <3>1, <3>3 DEF Fail, OnFailure
    <3>4. CASE pc = "nmcli down"
      <4>1. pc' = IF Removing THEN "nmcli delete" ELSE "error"
            BY <1>8, <3>4 DEF Fail, OnFailure
      <4> QED
          BY <2>1, <3>1, <3>4, <4>1
    <3>5. CASE pc \in {"nmcli delete", "unlink"}
      <4>1. pc' = IF pc = "unlink" THEN "ok" ELSE "unlink"
            BY <1>8, <3>5 DEF Fail, OnFailure
      <4> QED
          BY <2>1, <3>1, <3>5, <4>1
    <3> QED
        BY <2>3, <3>2, <3>3, <3>4, <3>5
  <2> QED
      BY <2>1, <2>2, <2>3 DEF Commands
<1> QED
    BY <1>1, <1>2, <1>3, <1>4, <1>5, <1>6, <1>7, <1>8 DEF Next, Command

\* No connection file is written but by NetworkManager.
LEMMA FilesStep == TypeOK /\ Flow /\ OnlyNMFiles /\ [Next]_vars => OnlyNMFiles'
<1> SUFFICES ASSUME TypeOK, Flow, OnlyNMFiles, [Next]_vars, ~NM PROVE OnlyNMFiles'
    BY DEF OnlyNMFiles, NM, Next, Command, Begin, Return, Crash, Fail, MakeTemp, Show, Strip,
       Update, Down, Up, Parse, Truncate, Write, Reload, NMUp, NMDown, NMDelete, Unlink,
       Uninstall, Install, Runs, vars
<1>1. UNCHANGED <<kind, file, loaded>>
  <2>1. pc \notin {"truncate", "write", "nmcli reload", "nmcli delete", "unlink"}
        BY DEF Flow
  <2> QED
      BY <2>1 DEF Next, Command, Begin, Return, Crash, Fail, MakeTemp, Show, Strip, Update,
         Down, Up, Parse, Truncate, Write, Reload, NMUp, NMDown, NMDelete, Unlink, Uninstall,
         Install, Runs, vars, device
<1> QED
    BY <1>1 DEF OnlyNMFiles, NM

\* Each command finds what the ones before it were for.
LEMMA PreparedStep == TypeOK /\ Flow /\ Prepared /\ [Next]_vars => Prepared'
<1> SUFFICES ASSUME TypeOK, Flow, Prepared, [Next]_vars PROVE Prepared'
    OBVIOUS
<1> USE DEF Prepared, NM, Applying, Removing, Enabling, Running
<1>1. CASE UNCHANGED vars
      BY <1>1 DEF vars, device
<1>2. ASSUME NEW c \in Call, Begin(c) PROVE Prepared'
  <2>1. c.op \in {"apply", "remove"}
        BY DEF Call
  <2>2. kind \in {"wg-quick", "networkmanager", "windows"}
        BY BackendsAssumption DEF TypeOK
  <2> QED
      BY <1>2, <2>1, <2>2 DEF Begin, First, device
<1>3. CASE Return \/ Crash
      BY <1>3 DEF Return, Crash
<1>4. CASE MakeTemp \/ Show \/ Strip
      BY <1>4 DEF MakeTemp, Show, Strip, Runs, device, Flow
<1>5. CASE Update \/ Down \/ Up
      BY <1>5, CallFacts DEF Update, Down, Up, Runs, SetIface, TypeOK, Flow
<1>6. CASE Parse
  <2>1. call # None /\ Applying
        BY <1>6 DEF Parse, Runs, Flow
  <2>2. call.cfg \in Conf /\ file[call.name] \in Conf \cup {None, Torn}
        BY <2>1, CallFacts DEF TypeOK
  <2>3. ~Refused => /\ Edited(file[call.name], call.cfg) \in Conf
                    /\ Edited(file[call.name], call.cfg).wg = call.cfg.wg
        BY <2>2 DEF Refused, Edited, Conf
  <2> QED
      BY <1>6, <2>3 DEF Parse, Runs
<1>7. CASE Truncate
      BY <1>7 DEF Truncate, Runs
<1>8. CASE Write
  <2>1. call # None
        BY <1>8 DEF Write, Runs, Flow
  <2>2. file'[call.name] = out
        BY <1>8, <2>1, CallFacts DEF Write, TypeOK
  <2> QED
      BY <1>8, <2>2 DEF Write, Runs
<1>9. CASE Reload
  <2>1. call # None /\ file[call.name] \in Conf /\ call.name \in Names
        BY <1>9, CallFacts DEF Reload, Runs, Flow
  <2>2. loaded'[call.name] = file[call.name] /\ UNCHANGED file
        BY <1>9, <2>1, NoneAssumption DEF Reload
  <2> QED
      BY <1>9, <2>1, <2>2 DEF Reload, Runs
<1>10. CASE NMUp \/ NMDown \/ NMDelete \/ Unlink
      BY <1>10 DEF NMUp, NMDown, NMDelete, Unlink, Runs
<1>11. CASE Uninstall \/ Install
      BY <1>11, CallFacts DEF Uninstall, Install, Runs, SetIface, TypeOK, Flow
<1>12. CASE Fail
      BY <1>12, CallFacts DEF Fail, OnFailure, Flow, SetIface
<1> QED
    BY <1>1, <1>2, <1>3, <1>4, <1>5, <1>6, <1>7, <1>8, <1>9, <1>10, <1>11, <1>12
    DEF Next, Command

\* An error that no command of the call has caused is the refusal of its text.
LEMMA ErrorStep ==
    TypeOK /\ Flow /\ Prepared /\ EnabledFailsOnlyOnFault /\ [Next]_vars
      => EnabledFailsOnlyOnFault'
<1> SUFFICES ASSUME TypeOK, Flow, Prepared, EnabledFailsOnlyOnFault, [Next]_vars
             PROVE  EnabledFailsOnlyOnFault'
    OBVIOUS
<1> USE DEF EnabledFailsOnlyOnFault, Enabling, Removing
<1>1. CASE UNCHANGED vars
      BY <1>1 DEF vars, device, Refused
<1>2. CASE (\E c \in Call : Begin(c)) \/ Return \/ Crash
      BY <1>2 DEF Begin, First, Return, Crash
<1>3. CASE MakeTemp \/ Show \/ Strip \/ Update \/ Truncate \/ Write \/ Reload \/ NMDelete
           \/ Unlink \/ Uninstall
      BY <1>3 DEF MakeTemp, Show, Strip, Update, Truncate, Write, Reload, NMDelete, Unlink,
         Uninstall, Runs
<1>4. CASE Down \/ NMDown
      BY <1>4 DEF Down, NMDown, Runs, Flow
<1>5. CASE Up \/ Install
      BY <1>5 DEF Up, Install, Runs, Prepared
<1>6. CASE Parse
      BY <1>6 DEF Parse, Runs, Flow, NM, Refused, device
<1>7. CASE NMUp
      BY <1>7, NoneAssumption DEF NMUp, Runs, Prepared
<1>8. CASE Fail
      BY <1>8 DEF Fail
<1> QED
    BY <1>1, <1>2, <1>3, <1>4, <1>5, <1>6, <1>7, <1>8 DEF Next, Command

LEMMA InvInit == Init => IInv
<1> SUFFICES ASSUME Init PROVE IInv
    OBVIOUS
<1> QED
    BY DEF Init, IInv, TypeOK, Flow, OnlyNMFiles, Prepared, EnabledFailsOnlyOnFault

LEMMA InvAlways == Spec => []IInv
<1>1. IInv /\ [Next]_vars => IInv'
      BY TypeStep, FlowStep, FilesStep, PreparedStep, ErrorStep DEF IInv
<1> QED
    BY InvInit, <1>1, PTL DEF Spec

\* The device, the call and its program counter have their types, whichever
\* commands of the backends fail and wherever the client dies.
THEOREM TypeCorrect == Spec => []TypeOK
BY InvAlways, PTL DEF IInv

\* An Apply of an enabled tunnel reports an error only if one of its own commands
\* failed or its configuration is refused: nothing that earlier calls, failures
\* and crashes leave behind makes it fail.
THEOREM RetryGetsThrough == Spec => []EnabledFailsOnlyOnFault
BY InvAlways, PTL DEF IInv

-----------------------------------------------------------------------------
(* What a success stands for *)

\* An Apply about to report success has established what it was asked for.
LEMMA DoneStep ==
    ASSUME ResultsChecked, IInv, Done, [Next]_vars
    PROVE  Done'
<1> USE DEF IInv, Done, NM, Applying, Removing, Enabling, Running
<1>1. CASE UNCHANGED vars
      BY <1>1 DEF vars, device
<1>2. CASE (\E c \in Call : Begin(c)) \/ Return \/ Crash
      BY <1>2 DEF Begin, First, Return, Crash
<1>3. CASE MakeTemp \/ Show \/ Strip \/ Parse \/ Truncate \/ Write \/ Reload
      BY <1>3 DEF MakeTemp, Show, Strip, Parse, Truncate, Write, Reload, Runs
<1>4. CASE Update
  <2>1. /\ call # None /\ Enabling /\ iface[call.name] \in Conf
        /\ call.name \in Names /\ call.cfg \in Conf
        BY <1>4, CallFacts DEF Update, Runs, Flow, Prepared, TypeOK
  <2>2. LET new == [iface[call.name] EXCEPT !.wg = call.cfg.wg]
        IN  new \in Conf /\ new.wg = call.cfg.wg
        BY <2>1 DEF Conf
  <2>3. iface'[call.name] = [iface[call.name] EXCEPT !.wg = call.cfg.wg]
        BY <1>4, <2>1 DEF Update, SetIface, TypeOK
  <2> QED
      BY <1>4, <2>1, <2>2, <2>3 DEF Update, Runs
<1>5. CASE Down \/ NMDown \/ Uninstall
  <2>1. call # None /\ call.name \in Names /\ iface'[call.name] = None /\ UNCHANGED <<kind, file, call>>
        BY <1>5, CallFacts DEF Down, NMDown, Uninstall, Runs, SetIface, Flow, TypeOK
  <2> QED
      BY <1>5, <2>1 DEF Down, NMDown, Uninstall, Runs, Flow, Prepared
<1>6. CASE Up \/ Install
  <2>1. /\ call # None /\ Enabling /\ call.name \in Names /\ call.cfg \in Conf
        BY <1>6, CallFacts DEF Up, Install, Runs, Flow
  <2>2. pc' = "ok" => iface'[call.name] = call.cfg
        BY <1>6, <2>1 DEF Up, Install, Runs, SetIface, TypeOK
  <2> QED
      BY <1>6, <2>1, <2>2 DEF Up, Install, Runs
<1>7. CASE NMUp
  <2>1. /\ call # None /\ Enabling /\ call.name \in Names
        BY <1>7, CallFacts DEF NMUp, Runs, Flow
  <2>2. /\ loaded[call.name] = file[call.name]
        /\ file[call.name] \in Conf /\ file[call.name].wg = call.cfg.wg
        BY <1>7 DEF NMUp, Runs, Prepared, ResultsChecked
  <2>3. pc' = "ok" => iface'[call.name] = loaded[call.name]
        BY <1>7, <2>1 DEF NMUp, Runs, SetIface, TypeOK
  <2> QED
      BY <1>7, <2>1, <2>2, <2>3 DEF NMUp, Runs
<1>8. CASE NMDelete \/ Unlink
      BY <1>8, CallFacts DEF NMDelete, Unlink, Runs, Flow
<1>9. CASE Fail
  <2>1. pc # "uninstall" /\ pc \in Commands /\ call # None /\ UNCHANGED call
        BY <1>9, BackendsAssumption DEF Fail, ResultsChecked, Flow, Commands
  <2>2. pc' = "ok" => Removing
        BY <1>9, <2>1 DEF Fail, OnFailure, Commands, Flow
  <2> QED
      BY <2>1, <2>2, CallFacts
<1> QED
    BY <1>1, <1>2, <1>3, <1>4, <1>5, <1>6, <1>7, <1>8, <1>9 DEF Next, Command

LEMMA DoneAlways == ASSUME ResultsChecked PROVE Spec => []Done
<1>1. Init => Done
      BY DEF Init, Done
<1>2. IInv /\ Done /\ [Next]_vars => Done'
      BY DoneStep
<1> QED
    BY <1>1, <1>2, InvAlways, PTL DEF Spec

-----------------------------------------------------------------------------
(* The refinement of the contract *)

\* A call, with the part of its configuration the contract speaks of.
LEMMA CallOfContract ==
    ASSUME NEW c \in Call
    PROVE  (IF c.op = "apply" THEN [c EXCEPT !.cfg = c.cfg.wg] ELSE c) \in Contract!Call
<1>1. CASE c.op = "apply"
  <2>1. c \in [op: {"apply"}, name: Names, cfg: Configs, enabled: BOOLEAN] /\ c.cfg.wg \in WGParts
        BY <1>1, BackendsAssumption DEF Call, Conf
  <2>2. [c EXCEPT !.cfg = c.cfg.wg] \in [op: {"apply"}, name: Names, cfg: WGParts, enabled: BOOLEAN]
        BY <2>1
  <2> QED
      BY <1>1, <2>2 DEF Contract!Call
<1>2. CASE c.op # "apply"
      BY <1>2 DEF Call, Contract!Call
<1> QED
    BY <1>1, <1>2

\* The call as the contract sees it.
LEMMA AskedFacts ==
    ASSUME TypeOK
    PROVE  /\ call = None => Asked = None
           /\ call # None =>
                /\ Asked \in Contract!Call /\ Asked # None
                /\ Asked.op = call.op /\ Asked.name = call.name
                /\ Applying => Asked.cfg = call.cfg.wg /\ Asked.enabled = call.enabled
<1>1. CASE call = None
      BY <1>1 DEF Asked
<1>2. CASE call # None /\ Applying
  <2>1. /\ call \in [op: {"apply"}, name: Names, cfg: Configs, enabled: BOOLEAN]
        /\ call.cfg.wg \in WGParts
        BY <1>2, BackendsAssumption DEF TypeOK, Call, Applying, Conf
  <2>2. Asked = [call EXCEPT !.cfg = call.cfg.wg]
        BY <1>2 DEF Asked, Applying
  <2>3. Asked \in [op: {"apply"}, name: Names, cfg: WGParts, enabled: BOOLEAN]
        BY <2>1, <2>2
  <2>4. Asked # None
        BY <2>3, NoneAssumption
  <2> QED
      BY <1>2, <2>1, <2>2, <2>3, <2>4 DEF Contract!Call
<1>3. CASE call # None /\ ~Applying
  <2>1. Asked = call /\ call \in [op: {"remove"}, name: Names]
        BY <1>3 DEF Asked, TypeOK, Call, Applying
  <2> QED
      BY <1>3, <2>1 DEF Contract!Call
<1> QED
    BY <1>1, <1>2, <1>3

\* A step that only touches the tunnel of the call is a step of the contract's work.
LEMMA Works ==
    ASSUME TypeOK, call # None, UNCHANGED <<kind, call, reply>>,
           \A n \in Names \ {call.name} : Tunnel(n)' = Tunnel(n),
           Tunnel(call.name)' \in
               IF Applying THEN Contract!ApplySteps(call.cfg.wg, call.enabled)
                           ELSE Contract!RemoveSteps(Tunnel(call.name))
    PROVE  Contract!Work
<1> DEFINE before == [n \in Names |-> Tunnel(n)]
           after == [n \in Names |-> Tunnel(n)']
<1>1. /\ Asked # None /\ Asked.op = call.op /\ Asked.name = call.name /\ call.name \in Names
      /\ Applying => Asked.cfg = call.cfg.wg /\ Asked.enabled = call.enabled
      BY AskedFacts, CallFacts
<1>2. UNCHANGED <<Asked, kind = "networkmanager", reply>>
      BY DEF Asked
<1>3. after = [before EXCEPT ![call.name] = Tunnel(call.name)']
      OBVIOUS
<1>4. before[call.name] = Tunnel(call.name)
      BY <1>1
<1> HIDE DEF before, after
<1>5. Tunnel(call.name)' \in IF Asked.op = "apply" THEN Contract!ApplySteps(Asked.cfg, Asked.enabled)
                                                 ELSE Contract!RemoveSteps(before[Asked.name])
      BY <1>1, <1>4 DEF Applying
<1>6. after = [before EXCEPT ![Asked.name] = Tunnel(call.name)']
      BY <1>1, <1>3
<1> QED
    BY <1>1, <1>2, <1>5, <1>6 DEF Contract!Work, before, after

\* A step that touches no tunnel is a stutter of the contract.
LEMMA Stutters ==
    ASSUME UNCHANGED <<kind, iface, file, call, reply>>
    PROVE  UNCHANGED Contract!vars
BY DEF Contract!vars, Tunnel, Asked

\* What the tunnel of the call becomes when an interface or a file is set.
LEMMA Becomes ==
    ASSUME TypeOK, call # None, UNCHANGED call,
           NEW i, NEW f,
           \/ iface' = [iface EXCEPT ![call.name] = i] /\ file' = file /\ f = file[call.name]
           \/ iface' = iface /\ file' = [file EXCEPT ![call.name] = f] /\ i = Running
    PROVE  /\ \A n \in Names \ {call.name} : Tunnel(n)' = Tunnel(n)
           /\ Tunnel(call.name)' = CASE i # None -> [cfg |-> i.wg, up |-> TRUE]
                                     [] i = None /\ f \notin {None, Torn} -> [cfg |-> f.wg, up |-> FALSE]
                                     [] OTHER -> None
<1>1. /\ iface'[call.name] = i /\ file'[call.name] = f
      /\ \A n \in Names \ {call.name} : iface'[n] = iface[n] /\ file'[n] = file[n]
      BY CallFacts DEF TypeOK, Running
<1> QED
    BY <1>1 DEF Tunnel

LEMMA TunnelRecord ==
    ASSUME NEW w \in WGParts, NEW b \in BOOLEAN
    PROVE  [cfg |-> w, up |-> b] \in [cfg: WGParts, up: {b}] /\ [cfg |-> w, up |-> b] # None
<1>1. [cfg |-> w, up |-> b] \in [cfg: WGParts, up: BOOLEAN]
      OBVIOUS
<1> QED
    BY <1>1, NoneAssumption

\* The commands that bring a tunnel up.
LEMMA UpRefines ==
    ASSUME IInv, ResultsChecked, Update \/ Up \/ NMUp \/ Install
    PROVE  [Contract!Next]_(Contract!vars)
<1> USE DEF IInv, Running, Enabling, Applying, NM
<1>1. /\ call # None /\ Enabling /\ call.name \in Names /\ call.cfg \in Conf
      /\ UNCHANGED <<kind, call, reply, file>>
      BY CallFacts DEF Update, Up, NMUp, Install, Runs, Flow
<1>2. PICK i : iface' = [iface EXCEPT ![call.name] = i] /\ (i = iface[call.name] \/ (i \in Conf /\ i.wg = call.cfg.wg))
  <2>1. CASE Update
    <3>1. iface[call.name] \in Conf
          BY <1>1, <2>1 DEF Update, Runs, Prepared, TypeOK
    <3>2. LET new == [iface[call.name] EXCEPT !.wg = call.cfg.wg]
          IN  new \in Conf /\ new.wg = call.cfg.wg
          BY <1>1, <3>1 DEF Conf
    <3> QED
        BY <2>1, <3>2 DEF Update, SetIface
  <2>2. CASE Up \/ Install
        BY <1>1, <2>2 DEF Up, Install, SetIface
  <2>3. CASE NMUp
        BY <1>1, <2>3 DEF NMUp, Runs, SetIface, Prepared, ResultsChecked
  <2> QED
      BY <2>1, <2>2, <2>3
<1>3. CASE i = iface[call.name]
  <2>1. iface' = iface
        BY <1>1, <1>2, <1>3 DEF TypeOK
  <2> QED
      BY <1>1, <2>1, Stutters
<1>4. CASE i \in Conf /\ i.wg = call.cfg.wg
  <2>1. i # None
        BY <1>4, NoneAssumption
  <2>2. /\ \A n \in Names \ {call.name} : Tunnel(n)' = Tunnel(n)
        /\ Tunnel(call.name)' = [cfg |-> call.cfg.wg, up |-> TRUE]
        BY <1>1, <1>2, <1>4, <2>1, Becomes
  <2>3. Tunnel(call.name)' \in Contract!ApplySteps(call.cfg.wg, call.enabled)
        BY <1>1, <2>2 DEF Contract!ApplySteps, Contract!Effect
  <2>4. Contract!Work
        BY <1>1, <2>2, <2>3, Works
  <2> QED
      BY <2>4 DEF Contract!Next
<1> QED
    BY <1>2, <1>3, <1>4

\* The commands that take a tunnel down or away, and the failure that may.
LEMMA DownRefines ==
    ASSUME IInv, Down \/ NMDown \/ Uninstall \/ (Fail /\ pc = "nmcli up" /\ SetIface(None))
    PROVE  [Contract!Next]_(Contract!vars)
<1> USE DEF IInv, Running, Enabling, Removing, Applying, NM
<1>1. /\ call # None /\ call.name \in Names
      /\ UNCHANGED <<kind, call, reply, file>>
      /\ iface' = [iface EXCEPT ![call.name] = None]
      BY CallFacts DEF Down, NMDown, Uninstall, Fail, Runs, Flow, SetIface
<1>2. /\ \A n \in Names \ {call.name} : Tunnel(n)' = Tunnel(n)
      /\ Tunnel(call.name)' = IF file[call.name] \notin {None, Torn}
                              THEN [cfg |-> file[call.name].wg, up |-> FALSE] ELSE None
      BY <1>1, Becomes
<1>3. CASE file[call.name] \in {None, Torn}
  <2>1. Tunnel(call.name)' \in IF Applying THEN Contract!ApplySteps(call.cfg.wg, call.enabled)
                                           ELSE Contract!RemoveSteps(Tunnel(call.name))
        BY <1>2, <1>3 DEF Contract!ApplySteps, Contract!RemoveSteps
  <2> QED
      BY <1>1, <1>2, <2>1, Works DEF Contract!Next
<1>4. CASE file[call.name] \notin {None, Torn} /\ Applying
  <2>1. NM /\ file[call.name].wg = call.cfg.wg
        BY <1>1, <1>4 DEF Down, NMDown, Uninstall, Fail, Runs, OnlyNMFiles, Prepared, Flow
  <2>2. Tunnel(call.name)' \in Contract!ApplySteps(call.cfg.wg, call.enabled)
        BY <1>2, <1>4, <2>1 DEF Contract!ApplySteps, Contract!Effect
  <2> QED
      BY <1>1, <1>2, <1>4, <2>2, Works DEF Contract!Next
<1>5. CASE file[call.name] \notin {None, Torn} /\ ~Applying
  <2>1. NM /\ file[call.name] \in Conf
        BY <1>1, <1>5 DEF OnlyNMFiles, TypeOK
  <2>2. file[call.name].wg \in WGParts /\ iface[call.name] \in Conf \cup {None}
        BY <1>1, <2>1 DEF Conf, TypeOK
  <2>3. Tunnel(call.name) # None
    <3>1. CASE iface[call.name] # None
      <4>1. iface[call.name].wg \in WGParts
            BY <2>2, <3>1 DEF Conf
      <4>2. Tunnel(call.name) = [cfg |-> iface[call.name].wg, up |-> TRUE]
            BY <3>1 DEF Tunnel
      <4> QED
          BY <4>1, <4>2, TunnelRecord
    <3>2. CASE iface[call.name] = None
      <4>1. Tunnel(call.name) = [cfg |-> file[call.name].wg, up |-> FALSE]
            BY <1>5, <3>2 DEF Tunnel
      <4> QED
          BY <2>2, <4>1, TunnelRecord
    <3> QED
        BY <3>1, <3>2
  <2>4. Tunnel(call.name)' \in [cfg: WGParts, up: {FALSE}]
    <3>1. Tunnel(call.name)' = [cfg |-> file[call.name].wg, up |-> FALSE]
          BY <1>2, <1>5
    <3> QED
        BY <2>2, <3>1, TunnelRecord
  <2>5. Tunnel(call.name)' \in Contract!RemoveSteps(Tunnel(call.name))
        BY <2>1, <2>3, <2>4 DEF Contract!RemoveSteps
  <2> QED
      BY <1>1, <1>2, <1>5, <2>5, Works DEF Contract!Next
<1> QED
    BY <1>3, <1>4, <1>5

\* The commands that write or delete the connection file.
LEMMA FileRefines ==
    ASSUME IInv, Truncate \/ Write \/ NMDelete \/ Unlink
    PROVE  [Contract!Next]_(Contract!vars)
<1> USE DEF IInv, Running, Applying, Removing, NM
<1>1. /\ call # None /\ call.name \in Names /\ NM
      /\ UNCHANGED <<kind, call, reply>>
      BY CallFacts DEF Truncate, Write, NMDelete, Unlink, Runs, Flow
<1>2. CASE Truncate \/ Write
  <2>1. PICK f : /\ iface' = iface /\ file' = [file EXCEPT ![call.name] = f]
                 /\ f \in {None, Torn} \/ (f \in Conf /\ f.wg = call.cfg.wg)
        BY <1>2 DEF Truncate, Write, Runs, Prepared
  <2>2. /\ \A n \in Names \ {call.name} : Tunnel(n)' = Tunnel(n)
        /\ Tunnel(call.name)' = CASE iface[call.name] # None -> [cfg |-> iface[call.name].wg, up |-> TRUE]
                                  [] iface[call.name] = None /\ f \notin {None, Torn} -> [cfg |-> f.wg, up |-> FALSE]
                                  [] OTHER -> None
        BY <1>1, <2>1, Becomes
  <2>3. Applying
        BY <1>2 DEF Truncate, Write, Runs, Flow
  <2>4. CASE iface[call.name] # None
    <3>1. Tunnel(call.name)' = Tunnel(call.name)
          BY <2>2, <2>4 DEF Tunnel
    <3>2. \A n \in Names : Tunnel(n)' = Tunnel(n)
          BY <1>1, <2>2, <3>1
    <3> QED
        BY <1>1, <3>2 DEF Contract!vars, Asked
  <2>5. CASE iface[call.name] = None
    <3>1. Tunnel(call.name)' \in Contract!ApplySteps(call.cfg.wg, call.enabled)
          BY <1>1, <2>1, <2>2, <2>5 DEF Contract!ApplySteps, Contract!Effect
    <3> QED
        BY <1>1, <2>2, <2>3, <3>1, Works DEF Contract!Next
  <2> QED
      BY <2>4, <2>5
<1>3. CASE Unlink
  <2>1. /\ \A n \in Names \ {call.name} : Tunnel(n)' = Tunnel(n)
        /\ Tunnel(call.name)' = IF iface[call.name] # None
                                THEN [cfg |-> iface[call.name].wg, up |-> TRUE] ELSE None
        BY <1>1, <1>3, Becomes DEF Unlink
  <2>2. CASE iface[call.name] # None
    <3>1. Tunnel(call.name)' = Tunnel(call.name)
          BY <2>1, <2>2 DEF Tunnel
    <3>2. \A n \in Names : Tunnel(n)' = Tunnel(n)
          BY <1>1, <2>1, <3>1
    <3> QED
        BY <1>1, <3>2 DEF Contract!vars, Asked
  <2>3. CASE iface[call.name] = None
    <3>1. Tunnel(call.name)' \in Contract!RemoveSteps(Tunnel(call.name))
          BY <2>1, <2>3 DEF Contract!RemoveSteps
    <3>2. ~Applying
          BY <1>3 DEF Unlink, Runs, Flow
    <3> QED
        BY <1>1, <2>1, <3>1, <3>2, Works DEF Contract!Next
  <2> QED
      BY <2>2, <2>3
<1>4. CASE NMDelete /\ loaded[call.name] = None
      BY <1>1, <1>4, Stutters DEF NMDelete, device
<1>5. CASE NMDelete /\ loaded[call.name] # None
  <2>1. /\ iface' = [iface EXCEPT ![call.name] = None]
        /\ file' = [file EXCEPT ![call.name] = None]
        BY <1>5 DEF NMDelete, SetIface
  <2>2. /\ iface'[call.name] = None /\ file'[call.name] = None
        /\ \A n \in Names \ {call.name} : iface'[n] = iface[n] /\ file'[n] = file[n]
        BY <1>1, <2>1 DEF TypeOK
  <2>3. /\ \A n \in Names \ {call.name} : Tunnel(n)' = Tunnel(n)
        /\ Tunnel(call.name)' = None
        BY <1>1, <2>2 DEF Tunnel
  <2>4. Tunnel(call.name)' \in Contract!RemoveSteps(Tunnel(call.name))
        BY <2>3 DEF Contract!RemoveSteps
  <2>5. ~Applying
        BY <1>5 DEF NMDelete, Runs, Flow
  <2> QED
      BY <1>1, <2>3, <2>4, <2>5, Works DEF Contract!Next
<1> QED
    BY <1>2, <1>3, <1>4, <1>5

\* A call returns only what the contract allows.
LEMMA ReturnRefines ==
    ASSUME IInv, Done, Return
    PROVE  Contract!Return
<1> USE DEF IInv, Running, Applying, NM
<1>1. call # None /\ call.name \in Names /\ call' = None /\ UNCHANGED <<kind, iface, file>>
      BY CallFacts DEF Return, device, Flow
<1>2. Asked # None /\ Asked' = None /\ Asked.op = call.op /\ Asked.name = call.name
      BY <1>1, AskedFacts DEF Asked
<1>3. [n \in Names |-> Tunnel(n)]' = [n \in Names |-> Tunnel(n)]
      BY <1>1 DEF Tunnel
<1>4. CASE pc = "error"
      BY <1>1, <1>2, <1>3, <1>4 DEF Return, Flow, Contract!Return
<1>5. CASE pc = "ok"
  <2>1. Applying => Tunnel(call.name) = Contract!Effect(call.cfg.wg, call.enabled)
    <3>1. ASSUME Applying, call.enabled PROVE Tunnel(call.name) = [cfg |-> call.cfg.wg, up |-> TRUE]
          BY <1>5, <3>1, NoneAssumption DEF Done, Tunnel
    <3>2. ASSUME Applying, ~call.enabled, NM PROVE Tunnel(call.name) = [cfg |-> call.cfg.wg, up |-> FALSE]
          BY <1>5, <3>2, NoneAssumption DEF Done, Tunnel
    <3>3. ASSUME Applying, ~call.enabled, ~NM PROVE Tunnel(call.name) = None
          BY <1>1, <1>5, <3>3 DEF Done, Tunnel, OnlyNMFiles
    <3>4. Applying => call.enabled \in BOOLEAN
          BY <1>1, CallFacts
    <3> QED
        BY <3>1, <3>2, <3>3, <3>4 DEF Contract!Effect
  <2>2. Applying => Asked.cfg = call.cfg.wg /\ Asked.enabled = call.enabled
        BY <1>1, AskedFacts
  <2>3. Asked.op = "apply" =>
            [n \in Names |-> Tunnel(n)][Asked.name] = Contract!Effect(Asked.cfg, Asked.enabled)
        BY <1>1, <1>2, <2>1, <2>2
  <2> QED
      BY <1>1, <1>2, <1>3, <1>5, <2>3 DEF Return, Contract!Return
<1> QED
    BY <1>4, <1>5 DEF Return

\* The backends implement the contract: every command is a step of its work, or
\* none, as long as no command fails whose result is not looked at.
THEOREM ContractKept == ASSUME ResultsChecked PROVE Spec => KeepsContract
<1>1. Init => Contract!Init
      BY BackendsAssumption DEF Init, Contract!Init, Tunnel, Asked
<1>2. ASSUME IInv, Done, [Next]_vars PROVE [Contract!Next]_(Contract!vars)
  <2> USE DEF IInv
  <2>1. CASE UNCHANGED vars
        BY <2>1, Stutters DEF vars, device
  <2>2. ASSUME NEW c \in Call, Begin(c) PROVE Contract!Begin
    <3>1. call = None /\ call' = c /\ c # None /\ UNCHANGED <<kind, iface, file>> /\ reply' = "none"
          BY <2>2, NoneAssumption DEF Begin, device
    <3>2. Asked = None /\ Asked' \in Contract!Call
          BY <3>1, CallOfContract DEF Asked
    <3>3. [n \in Names |-> Tunnel(n)]' = [n \in Names |-> Tunnel(n)]
          BY <3>1 DEF Tunnel
    <3> QED
        BY <3>1, <3>2, <3>3 DEF Contract!Begin
  <2>3. CASE Return
        BY <1>2, <2>3, ReturnRefines DEF Contract!Next
  <2>4. CASE Crash
    <3>1. call # None /\ call' = None /\ UNCHANGED <<kind, iface, file, reply>>
          BY <2>4 DEF Crash, device
    <3>2. Asked # None /\ Asked' = None
          BY <1>2, <3>1, AskedFacts DEF Asked
    <3>3. [n \in Names |-> Tunnel(n)]' = [n \in Names |-> Tunnel(n)]
          BY <3>1 DEF Tunnel
    <3> QED
        BY <3>1, <3>2, <3>3 DEF Contract!Crash, Contract!Next
  <2>5. CASE MakeTemp \/ Show \/ Strip \/ Parse \/ Reload \/ (Fail /\ UNCHANGED iface)
        BY <2>5, Stutters DEF MakeTemp, Show, Strip, Parse, Reload, Fail, Runs, device
  <2>6. CASE Update \/ Up \/ NMUp \/ Install
        BY <1>2, <2>6, UpRefines
  <2>7. CASE Down \/ NMDown \/ Uninstall \/ (Fail /\ pc = "nmcli up" /\ SetIface(None))
        BY <1>2, <2>7, DownRefines
  <2>8. CASE Truncate \/ Write \/ NMDelete \/ Unlink
        BY <1>2, <2>8, FileRefines
  <2> QED
      BY <1>2, <2>1, <2>2, <2>3, <2>4, <2>5, <2>6, <2>7, <2>8
      DEF Next, Command, Fail, Contract!Next
<1> QED
    BY <1>1, <1>2, InvAlways, DoneAlways, PTL DEF Spec, KeepsContract, Contract!Spec

-----------------------------------------------------------------------------
(* Fresh tunnels and removals *)

\* Nothing but its configuration gets into a fresh tunnel.
LEMMA FreshStep ==
    ASSUME ResultsChecked, IInv, FreshOnly, [Next]_vars
    PROVE  FreshOnly'
<1> USE DEF IInv, FreshOnly, NM, Applying, Removing, Enabling, Running
<1>1. CASE UNCHANGED vars
      BY <1>1 DEF vars, device
<1>2. ASSUME NEW c \in Call, Begin(c) PROVE FreshOnly'
  <2>1. kind \in {"wg-quick", "networkmanager", "windows"}
        BY BackendsAssumption DEF TypeOK
  <2> QED
      BY <1>2, <2>1 DEF Begin, First, device
<1>3. CASE Return \/ Crash
      BY <1>3 DEF Return, Crash
<1>4. CASE MakeTemp \/ Show \/ Strip
      BY <1>4 DEF MakeTemp, Show, Strip, Runs, device
<1>5. CASE Update
      BY <1>5 DEF Update, Runs
<1>6. CASE Down \/ NMDown \/ Uninstall
  <2>1. call # None => call.name \in Names /\ iface'[call.name] = None
        BY <1>6, CallFacts DEF Down, NMDown, Uninstall, SetIface, TypeOK, Flow
  <2> QED
      BY <1>6, <2>1 DEF Down, NMDown, Uninstall, Runs, Flow
<1>7. CASE Up \/ Install
  <2>1. call # None /\ call.name \in Names
        BY <1>7, CallFacts DEF Up, Install, Runs, Flow
  <2>2. pc' = "ok" => iface'[call.name] = call.cfg
        BY <1>7, <2>1 DEF Up, Install, Runs, SetIface, TypeOK
  <2> QED
      BY <1>7, <2>2 DEF Up, Install, Runs
<1>8. CASE Parse
  <2>1. call # None /\ Applying /\ call.cfg \in Conf
        BY <1>8, CallFacts DEF Parse, Runs, Flow
  <2>2. Edited(None, call.cfg) = call.cfg
        BY <2>1 DEF Edited, Conf
  <2> QED
      BY <1>8, <2>2 DEF Parse, Runs
<1>9. CASE Truncate
      BY <1>9 DEF Truncate, Runs
<1>10. CASE Write
  <2>1. call # None /\ file'[call.name] = out
        BY <1>10, CallFacts DEF Write, Runs, Flow, TypeOK
  <2> QED
      BY <1>10, <2>1 DEF Write, Runs
<1>11. CASE Reload
      BY <1>11 DEF Reload, Runs
<1>12. CASE NMUp
  <2>1. call # None /\ call.name \in Names
        BY <1>12, CallFacts DEF NMUp, Runs, Flow
  <2>2. loaded[call.name] = file[call.name]
        BY <1>12 DEF NMUp, Runs, Prepared, ResultsChecked
  <2>3. pc' = "ok" => iface'[call.name] = loaded[call.name]
        BY <1>12, <2>1 DEF NMUp, Runs, SetIface, TypeOK
  <2> QED
      BY <1>12, <2>2, <2>3 DEF NMUp, Runs
<1>13. CASE NMDelete \/ Unlink
      BY <1>13, CallFacts DEF NMDelete, Unlink, Runs, Flow
<1>14. CASE Fail
  <2>1. /\ pc \in Commands /\ pc # "nmcli reload" /\ pc # "uninstall"
        /\ call # None /\ UNCHANGED <<call, fresh, file, out>>
        BY <1>14, BackendsAssumption DEF Fail, ResultsChecked, Commands, Flow
  <2>2. CASE pc \in {"wg show", "wg-quick strip", "wg syncconf", "wg setconf", "wg-quick down"}
    <3>1. UNCHANGED iface /\ (Enabling => pc' \in {"wg setconf", "wg-quick down", "wg-quick up"})
          BY <1>14, <2>1, <2>2, CallFacts DEF Fail, OnFailure
    <3>2. fresh /\ Enabling => Running = None
          BY <2>1, <2>2
    <3>3. pc' = "wg setconf" => pc = "wg syncconf"
          BY <1>14, <2>2 DEF Fail, OnFailure
    <3> QED
        BY <2>1, <2>2, <3>1, <3>2, <3>3
  <2>3. CASE pc \in {"mktemp", "truncate", "write", "wg-quick up", "nmcli up", "install"}
        BY <1>14, <2>1, <2>3 DEF Fail, OnFailure
  <2>4. CASE pc \in {"nmcli down", "nmcli delete", "unlink"}
        BY <1>14, <2>1, <2>4, CallFacts DEF Flow
  <2> QED
      BY <2>1, <2>2, <2>3, <2>4 DEF Commands
<1> QED
    BY <1>1, <1>2, <1>3, <1>4, <1>5, <1>6, <1>7, <1>8, <1>9, <1>10, <1>11, <1>12, <1>13, <1>14
    DEF Next, Command

\* An Apply that reports success for an enabled tunnel of a name under which there
\* was nothing has all of its configuration running, and nothing else, as long as
\* no command fails whose result is not looked at.
THEOREM FreshTunnels == ASSUME ResultsChecked PROVE Spec => []FreshInForce
<1>1. Init => FreshOnly
      BY DEF Init, FreshOnly
<1>2. IInv /\ FreshOnly /\ [Next]_vars => FreshOnly'
      BY FreshStep
<1>3. IInv /\ FreshOnly => FreshInForce
      BY DEF IInv, Flow, FreshOnly, FreshInForce
<1> QED
    BY <1>1, <1>2, <1>3, InvAlways, PTL DEF Spec

\* A Remove gets a command further.
LEMMA RemovedStep ==
    ASSUME IInv, RemovedSoFar, [Next]_vars
    PROVE  RemovedSoFar'
<1> USE DEF IInv, RemovedSoFar, NM, Applying, Removing, Enabling, Running
<1>1. CASE UNCHANGED vars
      BY <1>1 DEF vars, device
<1>2. CASE (\E c \in Call : Begin(c)) \/ Return \/ Crash
      BY <1>2 DEF Begin, First, Return, Crash
<1>3. CASE MakeTemp \/ Show \/ Strip \/ Update \/ Up \/ Install
      BY <1>3, CallFacts DEF MakeTemp, Show, Strip, Update, Up, Install, Runs, Flow
<1>4. CASE Parse \/ Truncate \/ Write \/ Reload \/ NMUp
      BY <1>4, CallFacts DEF Parse, Truncate, Write, Reload, NMUp, Runs, Flow
<1>5. CASE Down \/ NMDown \/ Uninstall
  <2>1. /\ call # None /\ call.name \in Names /\ iface'[call.name] = None
        /\ UNCHANGED <<call, file, loaded>>
        BY <1>5, CallFacts DEF Down, NMDown, Uninstall, Runs, SetIface, TypeOK, Flow
  <2>2. pc' = "ok" /\ Removing => file[call.name] = None /\ loaded[call.name] = None
        BY <1>5, <2>1 DEF Down, NMDown, Uninstall, Runs, Flow, OnlyNMFiles
  <2> QED
      BY <1>5, <2>1, <2>2 DEF Down, NMDown, Uninstall, Runs
<1>6. CASE NMDelete
  <2>1. call # None /\ call.name \in Names
        BY <1>6, CallFacts DEF NMDelete, Runs, Flow
  <2>2. loaded'[call.name] = None /\ iface'[call.name] \in {None, iface[call.name]}
        BY <1>6, <2>1 DEF NMDelete, SetIface, TypeOK, device
  <2> QED
      BY <1>6, <2>2 DEF NMDelete, Runs
<1>7. CASE Unlink
  <2>1. call # None /\ file'[call.name] = None
        BY <1>7, CallFacts DEF Unlink, Runs, Flow, TypeOK
  <2> QED
      BY <1>7, <2>1 DEF Unlink, Runs
<1>8. CASE Fail
      BY <1>8 DEF Fail
<1> QED
    BY <1>1, <1>2, <1>3, <1>4, <1>5, <1>6, <1>7, <1>8 DEF Next, Command

\* A Remove none of whose commands fails leaves neither an interface nor a
\* connection nor its file, whatever state an earlier call has left.
THEOREM RemovesAll == Spec => []CleanRemove
<1>1. Init => RemovedSoFar
      BY DEF Init, RemovedSoFar
<1>2. IInv /\ RemovedSoFar /\ [Next]_vars => RemovedSoFar'
      BY RemovedStep
<1>3. IInv /\ RemovedSoFar => CleanRemove
      BY DEF IInv, Flow, RemovedSoFar, CleanRemove
<1> QED
    BY <1>1, <1>2, <1>3, InvAlways, PTL DEF Spec
=============================================================================
