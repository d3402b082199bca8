------------------------------- MODULE Backends -------------------------------
(***************************************************************************)
(* The three backends command by command: the external programs Apply and  *)
(* Remove run, in their order, which results are looked at, and what is    *)
(* left when one fails or the process dies between two                     *)
(* (internal/client/backend/wgquick, networkmanager, windows).             *)
(*                                                                         *)
(* `pc` names the command that runs next, or how the call returns.  What a *)
(* command does to the device is external to the code and modelled from    *)
(* how the code uses it.  A configuration has the part `wg` controls       *)
(* (key, peers) and the rest of [Interface] (addresses, DNS, MTU), as far  *)
(* as every backend carries it over: a connection of NetworkManager gets   *)
(* one address of each family and no keepalive, whatever the text has.     *)
(***************************************************************************)
CONSTANTS
    Names,      \* interface or connection names
    WGParts,    \* private key and peers
    NetParts,   \* addresses, DNS, MTU
    Configs,    \* the wg-quick texts, as pairs of parts
    Unparsable, \* those the NetworkManager backend refuses
    Kinds,      \* the backends
    MayFail,    \* the commands that may fail for reasons of their own
    None,       \* nothing, or no call
    Torn        \* a connection file that cannot be parsed

Commands ==
    {"mktemp", "wg show", "wg-quick strip", "wg syncconf", "wg setconf",
     "wg-quick down", "wg-quick up", "truncate", "write", "nmcli reload",
     "nmcli up", "nmcli down", "nmcli delete", "unlink", "uninstall", "install"}

Conf == [wg: WGParts, net: NetParts \cup {None}]

ASSUME BackendsAssumption ==
    /\ Configs \subseteq Conf /\ Unparsable \subseteq Configs
    /\ Kinds \subseteq {"wg-quick", "networkmanager", "windows"}
    /\ MayFail \subseteq Commands

Call ==
    [op: {"apply"}, name: Names, cfg: Configs, enabled: BOOLEAN]
      \cup [op: {"remove"}, name: Names]

ASSUME NoneAssumption ==
    /\ None \notin Call \cup Conf
    /\ Torn \notin Conf \cup {None}
    /\ None \notin [cfg: WGParts, up: BOOLEAN]
    /\ None \notin [op: {"apply"}, name: Names, cfg: WGParts, enabled: BOOLEAN]

\* No command fails whose result the code does not look at.
ResultsChecked == MayFail \cap {"nmcli reload", "uninstall"} = {}

VARIABLES
    kind,      \* the backend, chosen when the client starts
    iface,     \* what runs under each name
    file,      \* the connection files of NetworkManager
    loaded,    \* the connections NetworkManager has read
    call,      \* the call in progress, or None
    pc,        \* the command it runs next, "ok" or "error" before it returns
    out,       \* the connection file it is about to write
    fresh,     \* nothing was there under its name when it began
    failed,    \* one of its commands has failed for reasons of its own
    reply      \* what the last call reported

device == <<iface, file, loaded>>
vars == <<kind, device, call, pc, out, fresh, failed, reply>>

Running == iface[call.name]
Removing == call.op = "remove"
Enabling == call.op = "apply" /\ call.enabled

Init ==
    /\ kind \in Kinds
    /\ iface = [n \in Names |-> None] /\ file = iface /\ loaded = iface
    /\ call = None /\ pc = "idle" /\ out = None
    /\ fresh = FALSE /\ failed = FALSE /\ reply = "none"

\* The first command of a call; "parse" is the reading NetworkManager's Apply starts with.
First(c) ==
    CASE kind = "networkmanager" -> IF c.op = "apply" THEN "parse" ELSE "nmcli down"
      [] kind = "windows" -> "uninstall"
      [] OTHER -> IF c.op = "apply" THEN "mktemp" ELSE "wg-quick down"

Begin(c) ==
    /\ call = None
    /\ call' = c
    /\ pc' = First(c)
    /\ fresh' = (iface[c.name] = None /\ file[c.name] = None)
    /\ failed' = FALSE /\ out' = None /\ reply' = "none"
    /\ UNCHANGED <<kind, device>>

Return ==
    /\ pc \in {"ok", "error"}
    /\ call' = None /\ pc' = "idle" /\ out' = None
    /\ fresh' = FALSE /\ failed' = FALSE /\ reply' = pc
    /\ UNCHANGED <<kind, device>>

\* A command that does what it is for, and the one after it.
Runs(command, next) ==
    /\ pc = command
    /\ pc' = next
    /\ UNCHANGED <<kind, call, fresh, failed, reply>>

SetIface(c) == iface' = [iface EXCEPT ![call.name] = c]

(* wg-quick *)

\* The configuration goes into a file in a new directory.
MakeTemp ==
    /\ Runs("mktemp", CASE kind = "windows" -> "install"
                        [] kind # "windows" /\ Enabling -> "wg show"
                        [] OTHER -> "wg-quick down")
    /\ UNCHANGED <<device, out>>

\* isUp
Show ==
    /\ Runs("wg show", IF Running # None THEN "wg-quick strip" ELSE "wg-quick down")
    /\ UNCHANGED <<device, out>>

Strip ==
    /\ Runs("wg-quick strip", "wg syncconf")
    /\ UNCHANGED <<device, out>>

\* The update in place: the interface takes over the part of `wg`.
Update ==
    /\ Runs("wg syncconf", "ok") \/ Runs("wg setconf", "ok")
    /\ SetIface([Running EXCEPT !.wg = call.cfg.wg])
    /\ UNCHANGED <<file, loaded, out>>

\* Down of an interface that is not up is an error; only a disabling Apply looks.
Down ==
    /\ Runs("wg-quick down", CASE Removing -> "ok"
                               [] Enabling -> "wg-quick up"
                               [] OTHER -> IF Running # None THEN "ok" ELSE "error")
    /\ SetIface(None)
    /\ UNCHANGED <<file, loaded, out>>

\* Mutant: the rest of [Interface] is left out.
UpPartly ==
    /\ Runs("wg-quick up", IF Running = None THEN "ok" ELSE "error")
    /\ SetIface(IF Running = None THEN [wg |-> call.cfg.wg, net |-> None] ELSE Running)
    /\ UNCHANGED <<file, loaded, out>>

\* Up of an interface that is up is an error.
Up ==
    /\ Runs("wg-quick up", IF Running = None THEN "ok" ELSE "error")
    /\ SetIface(IF Running = None THEN call.cfg ELSE Running)
    /\ UNCHANGED <<file, loaded, out>>

(* NetworkManager *)

\* buildNMConnection: an existing file is edited in place, and a key the new
\* configuration does not set keeps its value.
Edited(old, cfg) ==
    [wg |-> cfg.wg,
     net |-> IF cfg.net = None /\ old # None THEN old.net ELSE cfg.net]

\* What the backend does not work on: a text without a key or a peer, and a
\* connection file it cannot parse.
Refused == call.cfg \in Unparsable \/ file[call.name] = Torn

Parse ==
    /\ Runs("parse", IF Refused THEN "error" ELSE "truncate")
    /\ out' = IF Refused THEN None ELSE Edited(file[call.name], call.cfg)
    /\ UNCHANGED device

\* Mutant: the emptied file counts as a connection.
TruncateToEmpty ==
    /\ Runs("truncate", "write")
    /\ file' = [file EXCEPT ![call.name] = [wg |-> None, net |-> None]]
    /\ UNCHANGED <<iface, loaded, out>>

\* os.WriteFile empties the file and begins to write: what is left if it gets no
\* further is as good as no file, or breaks off where the parser cannot take it.
Truncate ==
    /\ Runs("truncate", "write")
    /\ \E left \in {None, Torn} : file' = [file EXCEPT ![call.name] = left]
    /\ UNCHANGED <<iface, loaded, out>>

Write ==
    /\ Runs("write", "nmcli reload")
    /\ file' = [file EXCEPT ![call.name] = out]
    /\ UNCHANGED <<iface, loaded, out>>

\* Mutant: only connections that are known are read again.
ReloadKnown ==
    /\ Runs("nmcli reload", IF Enabling THEN "nmcli up" ELSE "nmcli down")
    /\ loaded' = [n \in Names |-> IF file[n] = Torn \/ loaded[n] = None THEN None ELSE file[n]]
    /\ UNCHANGED <<iface, file, out>>

Reload ==
    /\ Runs("nmcli reload", IF Enabling THEN "nmcli up" ELSE "nmcli down")
    /\ loaded' = [n \in Names |-> IF file[n] = Torn THEN None ELSE file[n]]
    /\ UNCHANGED <<iface, file, out>>

\* Mutant: a connection that is active is not activated again.
NMUpOnce ==
    /\ Runs("nmcli up", IF loaded[call.name] # None THEN "ok" ELSE "error")
    /\ SetIface(IF Running = None THEN loaded[call.name] ELSE Running)
    /\ UNCHANGED <<file, loaded, out>>

NMUp ==
    /\ Runs("nmcli up", IF loaded[call.name] # None THEN "ok" ELSE "error")
    /\ SetIface(IF loaded[call.name] # None THEN loaded[call.name] ELSE Running)
    /\ UNCHANGED <<file, loaded, out>>

\* Down of a connection that is not active is an error.
NMDown ==
    /\ Runs("nmcli down", CASE Removing -> "nmcli delete"
                            [] OTHER -> IF Running # None THEN "ok" ELSE "error")
    /\ SetIface(None)
    /\ UNCHANGED <<file, loaded, out>>

\* nmcli deletes a connection it has loaded, with its file.
NMDelete ==
    /\ Runs("nmcli delete", "unlink")
    /\ IF loaded[call.name] = None
       THEN UNCHANGED device
       ELSE /\ SetIface(None)
            /\ file' = [file EXCEPT ![call.name] = None]
            /\ loaded' = [loaded EXCEPT ![call.name] = None]
    /\ UNCHANGED out

\* Mutant: the file is left to nmcli.
UnlinkLeaves ==
    /\ Runs("unlink", "ok")
    /\ UNCHANGED <<device, out>>

Unlink ==
    /\ Runs("unlink", "ok")
    /\ file' = [file EXCEPT ![call.name] = None]
    /\ UNCHANGED <<iface, loaded, out>>

(* Windows *)

Uninstall ==
    /\ Runs("uninstall", IF Enabling THEN "mktemp" ELSE "ok")
    /\ SetIface(None)
    /\ UNCHANGED <<file, loaded, out>>

\* A service that is installed is not installed again.
Install ==
    /\ Runs("install", IF Running = None THEN "ok" ELSE "error")
    /\ SetIface(IF Running = None THEN call.cfg ELSE Running)
    /\ UNCHANGED <<file, loaded, out>>

(* Failures *)

\* What follows a command that fails: an error that is returned, the next way to
\* get there, or the next command as if nothing had been.
OnFailure(command) ==
    CASE command \in {"mktemp", "truncate", "write", "wg-quick up", "nmcli up", "install"} -> "error"
      [] command = "wg syncconf" -> "wg setconf"
      [] command \in {"wg show", "wg-quick strip", "wg setconf"} -> "wg-quick down"
      [] command \in {"wg-quick down", "nmcli down"} /\ ~Removing ->
           IF command = "wg-quick down" /\ Enabling THEN "wg-quick up" ELSE "error"
      [] command = "nmcli reload" -> IF Enabling THEN "nmcli up" ELSE "nmcli down"
      [] command = "uninstall" -> IF Enabling THEN "mktemp" ELSE "ok"
      [] command = "nmcli down" /\ Removing -> "nmcli delete"
      [] command = "nmcli delete" -> "unlink"
      [] OTHER -> "ok"

\* A failed command does nothing, but an activation that fails may have ended the
\* one before it.
Fail ==
    /\ pc \in MayFail
    /\ pc' = OnFailure(pc)
    /\ failed' = TRUE
    /\ \/ UNCHANGED iface
       \/ pc = "nmcli up" /\ SetIface(None)
    /\ UNCHANGED <<kind, file, loaded, call, out, fresh, reply>>

\* The client dies; its device stays.
Crash ==
    /\ call # None
    /\ call' = None /\ pc' = "idle" /\ out' = None
    /\ fresh' = FALSE /\ failed' = FALSE
    /\ UNCHANGED <<kind, device, reply>>

Command ==
    \/ MakeTemp \/ Show \/ Strip \/ Update \/ Down \/ Up
    \/ Parse \/ Truncate \/ Write \/ Reload \/ NMUp \/ NMDown \/ NMDelete \/ Unlink
    \/ Uninstall \/ Install

Next == (\E c \in Call : Begin(c)) \/ Command \/ Fail \/ Return \/ Crash

Spec == Init /\ [][Next]_vars

-----------------------------------------------------------------------------
(* Properties *)

\* The device, the call and its program counter have their types.
TypeOK ==
    /\ kind \in Kinds
    /\ iface \in [Names -> Conf \cup {None}]
    /\ file \in [Names -> Conf \cup {None, Torn}]
    /\ loaded \in [Names -> Conf \cup {None}]
    /\ call \in Call \cup {None} /\ out \in Conf \cup {None}
    /\ pc \in Commands \cup {"parse", "idle", "ok", "error"}
    /\ fresh \in BOOLEAN /\ failed \in BOOLEAN
    /\ reply \in {"none", "ok", "error"}

\* A tunnel as the contract sees it: what runs, or else the profile that is kept;
\* of its configuration, the part all backends replace.
Tunnel(n) ==
    CASE iface[n] # None -> [cfg |-> iface[n].wg, up |-> TRUE]
      [] iface[n] = None /\ file[n] \notin {None, Torn} -> [cfg |-> file[n].wg, up |-> FALSE]
      [] OTHER -> None

Asked ==
    IF call # None /\ call.op = "apply" THEN [call EXCEPT !.cfg = call.cfg.wg] ELSE call

Contract == INSTANCE BackendContract WITH
    Configs <- WGParts,
    keeps <- kind = "networkmanager",
    device <- [n \in Names |-> Tunnel(n)],
    call <- Asked

\* The backends keep the contract ApplyFeed relies on, through failed commands and
\* crashes, as long as ResultsChecked.
KeepsContract == Contract!Spec

\* An Apply of an enabled tunnel is not refused without a reason: whatever earlier
\* calls, failures and crashes have left behind, it reports an error only if one of
\* its own commands failed, its configuration is unusable, or an earlier writing of
\* its connection file was cut short; otherwise a retry gets through.  (A disabled
\* one fails in Down and NMDown whenever nothing is up.)
EnabledFailsOnlyOnFault ==
    pc = "error" /\ Enabling => failed \/ (kind = "networkmanager" /\ Refused)

\* A tunnel applied where nothing was before runs with the whole of its
\* configuration, also what a tunnel of that name had before it was removed is gone.
FreshInForce == pc = "ok" /\ Enabling /\ fresh => Running = call.cfg

\* A Remove none of whose commands fails leaves nothing, wherever it starts from.
CleanRemove ==
    pc = "ok" /\ Removing /\ ~failed =>
        Running = None /\ file[call.name] = None /\ loaded[call.name] = None
=============================================================================
