--------------------------- MODULE EthernetController --------------------------
(***************************************************************************)
(* EthernetController (src/src/InterfaceControllers/src): setStatic and    *)
(* useDHCP drive the DHCPClient of one interface, and both a caller of     *)
(* setStatic and the client's thread write the interface's configuration   *)
(* through configureInterface, field after field and without a lock.       *)
(*                                                                         *)
(* A field holds the name of who configured it: a caller for a static      *)
(* configuration, an offer for a DHCP one.                                 *)
(***************************************************************************)
EXTENDS DHCPClient

ASSUME SourcesAssumption == Callers \cap Offers = {}

VARIABLES
  method,      \* the controller's method each caller is in
  writing,     \* the next field each caller writes in configureInterface
  cbWriting,   \* the next field the client's thread writes
  iface,       \* Interface: who set its ip and mask, its gateway, its DNS
  overlapped   \* history: did two executions of configureInterface overlap?

controllerVars == <<method, writing, cbWriting, iface, overlapped>>
vars == <<clientVars, controllerVars>>

Fields  == {"ip", "gw", "dns"}
Nowhere == "nowhere"
Sources == Callers \cup Offers \cup {None}

ControllerTypeOK ==
  /\ TypeOK
  /\ method \in [Callers -> {"none", "setStatic", "useDHCP"}]
  /\ writing \in [Callers -> Fields \cup {Nowhere}]
  /\ cbWriting \in Fields \cup {Nowhere}
  /\ iface \in [ip : Sources, gw : Sources, dns : SUBSET Sources]
  /\ overlapped \in BOOLEAN

ControllerInit ==
  /\ Init
  /\ method = [c \in Callers |-> "none"]
  /\ writing = [c \in Callers |-> Nowhere]
  /\ cbWriting = Nowhere
  /\ iface = [ip |-> None, gw |-> None, dns |-> {}]
  /\ overlapped = FALSE

\* Two executions of configureInterface at a time.
Writers == {c \in Callers : writing[c] # Nowhere}
Overlap == \/ \E c, d \in Writers : c # d
           \/ Writers # {} /\ cbWriting # Nowhere

\* setStatic: dhcp_client.stop() comes first.
SetStatic(c) ==
  /\ method[c] = "none"
  /\ CallStop(c)
  /\ method' = [method EXCEPT ![c] = "setStatic"]
  /\ UNCHANGED <<writing, cbWriting, iface, overlapped>>

\* useDHCP: interface->enable(), whose failure ends the method with nothing
\* done, then dhcp_client.start().
UseDHCP(c) ==
  /\ method[c] = "none"
  /\ CallStart(c)
  /\ method' = [method EXCEPT ![c] = "useDHCP"]
  /\ UNCHANGED <<writing, cbWriting, iface, overlapped>>

\* The destructor; dhcp_client is the last member, so it goes first.
Destroy(c) ==
  /\ \A d \in Callers : method[d] = "none"
  /\ CallDestructor(c)
  /\ UNCHANGED <<method, writing, cbWriting, iface, overlapped>>

\* A step inside start() or stop().  When it returns, useDHCP returns and
\* setStatic goes on to configureInterface.
InsideClient(c) ==
  /\ MethodStep(c)
  /\ IF pc'[c] = "idle" /\ method[c] = "setStatic"
       THEN writing' = [writing EXCEPT ![c] = "ip"] /\ UNCHANGED method
       ELSE /\ method' = IF pc'[c] = "idle" THEN [method EXCEPT ![c] = "none"] ELSE method
            /\ UNCHANGED writing
  /\ UNCHANGED <<cbWriting, iface>>
  /\ overlapped' = (overlapped \/ Overlap')

\* Mutant: setIP assigns the address before it executes ifconfig.
StaticSetIPFailsLate(c) ==
  /\ crash = "no"
  /\ writing[c] = "ip"
  /\ iface' = [iface EXCEPT !.ip = c]
  /\ writing' = [writing EXCEPT ![c] = Nowhere]
  /\ method' = [method EXCEPT ![c] = "none"]
  /\ UNCHANGED <<clientVars, cbWriting, overlapped>>

\* configureInterface by a caller.  ifconfig may fail in setIP; the exception
\* ends setStatic.
StaticSetIPFails(c) ==
  /\ crash = "no"
  /\ writing[c] = "ip"
  /\ writing' = [writing EXCEPT ![c] = Nowhere]
  /\ method' = [method EXCEPT ![c] = "none"]
  /\ UNCHANGED <<clientVars, cbWriting, iface, overlapped>>

StaticSetIP(c) ==
  /\ crash = "no"
  /\ writing[c] = "ip"
  /\ iface' = [iface EXCEPT !.ip = c]
  /\ writing' = [writing EXCEPT ![c] = "gw"]
  /\ UNCHANGED <<clientVars, method, cbWriting, overlapped>>

StaticSetGW(c) ==
  /\ crash = "no"
  /\ writing[c] = "gw"
  /\ iface' = [iface EXCEPT !.gw = c]
  /\ writing' = [writing EXCEPT ![c] = "dns"]
  /\ UNCHANGED <<clientVars, method, cbWriting, overlapped>>

StaticSetDNS(c) ==
  /\ crash = "no"
  /\ writing[c] = "dns"
  /\ iface' = [iface EXCEPT !.dns = {c}]
  /\ writing' = [writing EXCEPT ![c] = Nowhere]
  /\ method' = [method EXCEPT ![c] = "none"]
  /\ UNCHANGED <<clientVars, cbWriting, overlapped>>

\* The client's thread parses an offer and enters configureInterface.
CallbackBegins ==
  /\ Parse
  /\ cbWriting' = IF run' = "callback" THEN "ip" ELSE Nowhere
  /\ UNCHANGED <<method, writing, iface>>
  /\ overlapped' = (overlapped \/ Overlap')

\* Mutant: the gateway is set before the address.
CallbackSetsGWFirst ==
  /\ crash = "no"
  /\ cbWriting = "ip"
  /\ iface' = [iface EXCEPT !.gw = handed.offer]
  /\ cbWriting' = "gw"
  /\ UNCHANGED <<clientVars, method, writing, overlapped>>

CallbackSetIP ==
  /\ crash = "no"
  /\ cbWriting = "ip"
  /\ iface' = [iface EXCEPT !.ip = handed.offer]
  /\ cbWriting' = "gw"
  /\ UNCHANGED <<clientVars, method, writing, overlapped>>

\* setIP throws on the client's thread.
CallbackSetIPFails ==
  /\ cbWriting = "ip"
  /\ CallbackThrows
  /\ cbWriting' = Nowhere
  /\ UNCHANGED <<method, writing, iface, overlapped>>

CallbackSetGW ==
  /\ crash = "no"
  /\ cbWriting = "gw"
  /\ iface' = [iface EXCEPT !.gw = handed.offer]
  /\ cbWriting' = "dns"
  /\ UNCHANGED <<clientVars, method, writing, overlapped>>

CallbackSetDNS ==
  /\ cbWriting = "dns"
  /\ CallbackReturns
  /\ iface' = [iface EXCEPT !.dns = handed.dns]
  /\ cbWriting' = Nowhere
  /\ UNCHANGED <<method, writing, overlapped>>

\* The other steps of the client's thread.
ThreadStep ==
  /\ \/ TestRunning \/ ResolverExits \/ ResolverNotRun \/ NotifyTrigger
     \/ CheckRunning \/ EnterWait \/ TimerExpires
  /\ UNCHANGED <<method, writing, cbWriting, iface, overlapped>>

CallbackStep == CallbackBegins \/ CallbackSetIP \/ CallbackSetIPFails
                \/ CallbackSetGW \/ CallbackSetDNS

ConfigureStep(c) == StaticSetIP(c) \/ StaticSetIPFails(c)
                    \/ StaticSetGW(c) \/ StaticSetDNS(c)

ControllerNext ==
  \/ ThreadStep
  \/ CallbackStep
  \/ \E c \in Callers : \/ SetStatic(c)
                        \/ UseDHCP(c)
                        \/ Destroy(c)
                        \/ InsideClient(c)
                        \/ ConfigureStep(c)

ControllerSpec == ControllerInit /\ [][ControllerNext]_vars

-----------------------------------------------------------------------------
(* Properties. *)

\* A DHCP answer in flight never lands behind a setStatic() that stopped the
\* client: a DHCP field is written only while the client runs or while a stop()
\* still waits for its thread (setStatic joins before it writes, lines 26-27).
DHCPWrites ==
  \/ \E f \in {"ip", "gw"} : iface'[f] # iface[f] /\ iface'[f] \in Offers
  \/ iface'.dns # iface.dns /\ iface'.dns \cap Offers # {}
NoDHCPBehindStop ==
  [][DHCPWrites => running \/ \E c \in Callers : pc[c] \in InStop]_vars

\* Address, gateway and name servers come from one configuration: a caller's,
\* or an offer's, whose servers join those of the earlier offers.
BelongsTogether ==
  /\ iface.gw = iface.ip
  /\ iface.ip = None      => iface.dns = {}
  /\ iface.ip \in Callers => iface.dns = {iface.ip}
  /\ iface.ip \in Offers  => iface.ip \in iface.dns /\ iface.dns \subseteq Offers

\* They do whenever nobody is inside configureInterface,
WholeWhenQuiet ==
  (Writers = {} /\ cbWriting = Nowhere) => BelongsTogether

\* unless two executions of it overlapped, which nothing in the controller
\* prevents (lines 5-15 take no lock).
NoTornConfiguration == ~overlapped => WholeWhenQuiet

\* The inductive invariant behind the properties: the thread writes only
\* inside its callback, a caller only after its stop() returned, and, unless
\* executions overlapped, the fields written so far are the writer's, and all
\* belong together where no writer is between two of them.
WritingInv ==
  /\ cbWriting # Nowhere => /\ run = "callback"
                            /\ handed.offer \in Offers
                            /\ handed.offer \in handed.dns
  /\ \A c \in Writers : pc[c] = "idle" /\ method[c] = "setStatic"
Consistent ==
  /\ \A c \in Callers : /\ writing[c] \in {"gw", "dns"} => iface.ip = c
                        /\ writing[c] = "dns" => iface.gw = c
  /\ cbWriting \in {"gw", "dns"} => iface.ip = handed.offer
  /\ cbWriting = "dns" => iface.gw = handed.offer
  /\ cbWriting \in {"ip", Nowhere} /\ (\A c \in Callers : writing[c] \in {"ip", Nowhere})
       => BelongsTogether
ControllerInv ==
  /\ ControllerTypeOK
  /\ WritingInv
  /\ ~overlapped => ~Overlap /\ Consistent
=============================================================================
