------------------------------ MODULE TargetConfig ------------------------------
(***************************************************************************)
(* On which targets a command runs, and how they are dialled: GetTargets   *)
(* of config/target.go and app/target.go.  The targets are those of        *)
(* --address, or else those under "targets" of the configuration file,     *)
(* which are visited in no particular order.  Each is completed with the   *)
(* global flags and kept under its name.                                   *)
(***************************************************************************)
CONSTANTS
    Hosts,
    TargetNames   \* names given in the configuration file

VARIABLES
    global,    \* --insecure and --tls-ca
    asked,     \* the targets the user wrote
    left,      \* those not configured yet
    targets,   \* the map GetTargets builds
    getting    \* "targets", what GetTargets returned, or "none"

tcVars == <<global, asked, left, targets, getting>>

Unset == "unset"
Given == {"port", "no port", "malformed"}

\* An element of --address, and an entry of the file.
CliTargets  == [host : Hosts, port : Given, name : {Unset},
                insecure : {Unset}, ca : {Unset}]
FileTargets == [host : Hosts, port : Given, name : TargetNames \cup {Unset},
                insecure : {Unset, "true", "false"}, ca : {Unset, "own"}]

\* At most two targets, a bound; the keys of a YAML map are distinct.
Written(entries) == {{}} \cup {{e, f} : e, f \in entries}
OneEach(S) == \A e, f \in S : e # f => <<e.host, e.port>> # <<f.host, f.port>>

TcInit ==
    /\ global \in [insecure : BOOLEAN, ca : {Unset, "global"}]
    /\ asked \in Written(CliTargets) \cup {S \in Written(FileTargets) : OneEach(S)}
    /\ left = asked
    /\ targets = <<>>
    /\ getting = "targets"

-----------------------------------------------------------------------------
\* The port flag completes an address without a port.
parseAddress(e) == <<e.host, IF e.port = "port" THEN "port" ELSE "57400">>

\* Mutant: a target without a name gets that of its host.
TcNameOfHost(e) == IF e.name = Unset THEN <<e.host>> ELSE <<e.name>>

TcName(e) == IF e.name = Unset THEN parseAddress(e) ELSE <<e.name>>

\* Mutant: TLS files are only completed when nothing is said of insecure.
TcDefaultsUnset(e) ==
    [Address  |-> parseAddress(e),
     Insecure |-> global.insecure \/ e.insecure = "true",
     TLSCA    |-> IF e.ca = Unset /\ ~global.insecure /\ e.insecure = Unset
                  THEN global.ca ELSE e.ca]

setTargetConfigDefaults(e) ==
    LET insecure == global.insecure \/ e.insecure = "true"
    IN  [Address  |-> parseAddress(e),
         Insecure |-> insecure,
         TLSCA    |-> IF e.ca = Unset /\ ~insecure THEN global.ca ELSE e.ca]

TcConfigure ==
    /\ getting = "targets"
    /\ \E e \in left :
           /\ e.port # "malformed"
           /\ targets' = [n \in DOMAIN targets \cup {TcName(e)} |->
                             IF n = TcName(e) THEN setTargetConfigDefaults(e) ELSE targets[n]]
           /\ left' = left \ {e}
    /\ UNCHANGED <<global, asked, getting>>

\* An address is malformed, an entry does not decode, or there is no target.
TcFails ==
    /\ getting = "targets"
    /\ asked = {} \/ \E e \in left : e.port = "malformed" \/ e.insecure # Unset
    /\ getting' = "error"
    /\ UNCHANGED <<global, asked, left, targets>>

TcDone ==
    /\ getting = "targets" /\ left = {} /\ asked # {}
    /\ getting' = "ok"
    /\ UNCHANGED <<global, asked, left, targets>>

TcNext == TcConfigure \/ TcFails \/ TcDone

TcSpec == TcInit /\ [][TcNext]_tcVars

\* How a target is dialled: in plain text, or trusting a CA.
DialOpts(tc) == IF tc.Insecure THEN "plain text" ELSE tc.TLSCA

-----------------------------------------------------------------------------
\* A command runs on every target it was asked to run on: none is lost, in
\* whichever order they are visited, unless it was given the name of another.
TargetsNoneLost ==
    getting = "ok" =>
        \A e \in asked :
            \/ \E n \in DOMAIN targets : targets[n].Address = parseAddress(e)
            \/ \E f \in asked \ {e} : f.name = e.name /\ f.name # Unset

\* A target is dialled as it was asked for: in plain text only where --insecure or
\* its own setting says so, and otherwise trusting its own CA, or the global one.
TargetsDialAsAsked ==
    getting = "ok" =>
        \A n \in DOMAIN targets :
            \E e \in asked :
                /\ targets[n].Address = parseAddress(e)
                /\ DialOpts(targets[n]) =
                       IF global.insecure \/ e.insecure = "true" THEN "plain text"
                       ELSE IF e.ca # Unset THEN e.ca ELSE global.ca
=============================================================================
