----------------------------- MODULE HostPolicy -----------------------------
(***************************************************************************)
(* The host firewall that security/debian/render.py renders, as packets    *)
(* meet it: published ports are translated by Docker before the forward    *)
(* hook, everything else reaches the input hook, and connections live on   *)
(* in conntrack when the policy changes.  FirewallTrial has the commands   *)
(* that put a policy in force step by step; here a trial is one action,    *)
(* with the checks that keep its administrator connected.  No name is      *)
(* FirewallTrial's, so that both can be reasoned about together.           *)
(***************************************************************************)
EXTENDS Naturals, FiniteSets

CONSTANTS Networks,    \* networks an administrator may write into the settings
          Addresses,   \* remote addresses,
          Family,      \* and their protocol versions: 4 or 6
          Interfaces,  \* network interfaces of the host,
          Bridges,     \* and those among them named docker0 or br-*
          Settings,    \* contents of host.json (see SettingsType)
          Ports,       \* destination ports
          Target,      \* container port a published port is translated to
          Translated,  \* <<version, protocol, port>> that Docker may publish
          Attempts,    \* connections that are attempted (see Connection)
          MaxFlows,    \* bound: connections alive at a time
          Nothing      \* no table danubaas_host, no administrator

Loopback == "lo"
Web == {80, 443}
Mqtt == 8883

(* One network of a given version covers some addresses; "whole" is /0.    *)
NetworkType == [version : {4, 6}, hosts : SUBSET Addresses, whole : BOOLEAN]
SettingsType ==
    [external : SUBSET Interfaces, admin : SUBSET Networks, mqtt : SUBSET Networks,
     ssh : Ports, dhcp4 : BOOLEAN, dhcp6 : BOOLEAN]

(* A connection attempt as its sender sees it.  "host" is an address of    *)
(* the host, "container" one on a bridge that is routed to directly.       *)
Connection ==
    [iif : Interfaces, src : Addresses, local : BOOLEAN, proto : {"tcp", "udp", "icmp"},
     sport : Ports, port : Ports, dest : {"host", "container"}]

ASSUME PolicyAssumption ==
    /\ Networks \subseteq NetworkType
    /\ Family \in [Addresses -> {4, 6}]
    /\ \A n \in Networks : \A a \in n.hosts : Family[a] = n.version
    /\ Settings \subseteq SettingsType
    /\ Target \in [Ports -> Ports]
    /\ Translated \subseteq {4, 6} \X {"tcp", "udp"} \X Ports
    /\ \A c \in Settings, v \in {4, 6} :
         c.ssh \notin Web \cup {Mqtt} => <<v, "tcp", c.ssh>> \notin Translated  \* sshd has it
    /\ Bridges \subseteq Interfaces
    /\ Attempts \subseteq Connection
    /\ Nothing \notin Settings /\ Nothing \notin Attempts
    /\ MaxFlows \in Nat

VARIABLES
    policy,    \* settings of the loaded table, or Nothing
    fallback,  \* what a rollback loads
    nat,       \* <<version, protocol, port>> published at the moment
    trying,    \* a trial is neither confirmed nor rolled back
    session,   \* SSH connection of the administrator whose trial is active
    flows      \* connections conntrack knows: their later packets pass

policyVars == <<policy, fallback, nat, trying, session, flows>>

PolicyInit ==
    /\ policy = Nothing /\ fallback = Nothing
    /\ nat = {}
    /\ trying = FALSE /\ session = Nothing
    /\ flows = {}
-----------------------------------------------------------------------------
(* Regression: SSH may share a port with an application.                   *)
ValidAnyPort(c) ==
    /\ c.external # {} /\ Loopback \notin c.external
    /\ c.admin # {} /\ c.mqtt # {}
    /\ \A n \in c.admin : ~n.whole

(* load: what render.py accepts as settings.                               *)
Valid(c) ==
    /\ c.external # {} /\ Loopback \notin c.external
    /\ c.admin # {} /\ c.mqtt # {}
    /\ \A n \in c.admin : ~n.whole
    /\ c.ssh \notin Web \cup {Mqtt}

(* source_rules: one rule for each version that has networks.              *)
From(networks, p) ==
    \E n \in networks : n.version = Family[p.src] /\ p.src \in n.hosts

Natted(p) ==
    p.dest = "host" /\ p.iif # Loopback /\ <<Family[p.src], p.proto, p.port>> \in nat

(* The packet as a filter hook sees it, after PREROUTING.                  *)
Destination(p) == IF Natted(p) THEN Target[p.port] ELSE p.port

(* dhcp: answers of a server while the host configures its address.  The   *)
(* rule of DHCPv4 asks for no version of the protocol.                     *)
Dhcp(c, p) ==
    /\ p.iif \in c.external /\ p.proto = "udp"
    /\ \/ c.dhcp4 /\ p.sport = 67 /\ Destination(p) = 68
       \/ c.dhcp6 /\ Family[p.src] = 6 /\ p.local /\ p.sport = 547 /\ Destination(p) = 546

(* chain input for the first packet of a connection (those of a known one   *)
(* are accepted before): the accept rules; policy drop.                    *)
InputAccepts(c, p) ==
    \/ p.iif = Loopback
    \/ p.proto = "icmp"
    \/ Dhcp(c, p)
    \/ /\ p.iif \in c.external /\ p.proto = "tcp"
       /\ \/ Destination(p) = c.ssh /\ From(c.admin, p)
          \/ Destination(p) \in Web
          \/ Destination(p) = Mqtt /\ From(c.mqtt, p)

(* Regression: the translated port is compared, not the published one.     *)
ForwardAcceptsTranslated(c, p) ==
    \/ p.iif \in Bridges
    \/ /\ p.iif \in c.external /\ p.proto = "tcp" /\ Natted(p)
       /\ Destination(p) \in Web \/ (Destination(p) = Mqtt /\ From(c.mqtt, p))

(* chain forward: containers go on to Docker's own rules; from outside     *)
(* only published ports, by their original number; policy drop.            *)
ForwardAccepts(c, p) ==
    \/ p.iif \in Bridges
    \/ /\ p.iif \in c.external /\ p.proto = "tcp" /\ Natted(p)
       /\ p.port \in Web \/ (p.port = Mqtt /\ From(c.mqtt, p))

(* Which hook a packet meets, and whether it passes.  Without the table    *)
(* nothing is filtered.                                                    *)
Forwarded(p) == Natted(p) \/ p.dest = "container"
Accepts(c, p) ==
    \/ c = Nothing
    \/ c # Nothing /\ IF Forwarded(p) THEN ForwardAccepts(c, p)
                   ELSE InputAccepts(c, p)
-----------------------------------------------------------------------------
(* Docker publishes or withdraws a port; with no translation for a version *)
(* its proxy listens on the host instead.                                  *)
Publish(t) ==
    /\ nat' = IF t \in nat THEN nat \ {t} ELSE nat \cup {t}
    /\ UNCHANGED <<policy, fallback, trying, session, flows>>

(* The first packet of a connection.                                       *)
Open(p) ==
    /\ Accepts(policy, p)
    /\ p \notin flows /\ Cardinality(flows) < MaxFlows
    /\ flows' = flows \cup {p}
    /\ UNCHANGED <<policy, fallback, nat, trying, session>>

Close(f) ==
    /\ f \in flows
    /\ flows' = flows \ {f}
    /\ UNCHANGED <<policy, fallback, nat, trying, session>>

(* Regression: the administrator's address is not looked for.              *)
KeepsAnySession(c, s) == s.port = c.ssh

(* try_policy: SSH_CONNECTION names the client and the server's port.      *)
KeepsSession(c, s) == s.port = c.ssh /\ \E n \in c.admin : s.src \in n.hosts

(* try_policy: an administrator, at the console or over SSH, puts c in     *)
(* force.  Open connections stay.                                          *)
TryPolicy(c, s) ==
    /\ ~trying
    /\ Valid(c)
    /\ s = Nothing \/ (s # Nothing /\ KeepsSession(c, s))
    /\ policy' = c /\ fallback' = policy
    /\ trying' = TRUE /\ session' = s
    /\ UNCHANGED <<nat, flows>>

(* confirm or rollback ends the trial; without one they change nothing.    *)
ConfirmPolicy ==
    /\ trying
    /\ trying' = FALSE /\ session' = Nothing
    /\ UNCHANGED <<policy, fallback, nat, flows>>

RollbackPolicy ==
    /\ trying
    /\ policy' = fallback
    /\ trying' = FALSE /\ session' = Nothing
    /\ UNCHANGED <<fallback, nat, flows>>

(* The connections an SSH session may have.                                *)
Sessions == {f \in flows : f.proto = "tcp" /\ f.dest = "host"}

PolicyNext ==
    \/ \E t \in Translated : Publish(t)
    \/ \E f \in flows : Close(f)
    \/ \E c \in Settings, s \in Sessions \cup {Nothing} : TryPolicy(c, s)
    \/ ConfirmPolicy
    \/ RollbackPolicy
    \/ \E p \in Attempts : Open(p)

PolicySpec == PolicyInit /\ [][PolicyNext]_policyVars
-----------------------------------------------------------------------------
(* Type correctness; a trial over SSH has its policy in force.             *)
PolicyTypeOK ==
    /\ policy \in Settings \cup {Nothing} /\ fallback \in Settings \cup {Nothing}
    /\ nat \subseteq Translated
    /\ trying \in BOOLEAN
    /\ session \in Attempts \cup {Nothing}
    /\ flows \subseteq Attempts

(* Only checked settings are ever in force or kept for a rollback, and the *)
(* trial of a session passed the check of that session.                    *)
PolicyChecked ==
    /\ policy # Nothing => Valid(policy)
    /\ fallback # Nothing => Valid(fallback)
    /\ session # Nothing => /\ trying /\ session \in Attempts /\ policy # Nothing
                            /\ session.proto = "tcp" /\ session.dest = "host"
                            /\ KeepsSession(policy, session)

(* What the README of security/debian promises to a connection from        *)
(* outside (lines 80-81, 96-99): HTTP and HTTPS, MQTT and SSH from their    *)
(* networks, DHCP answers where configured, ICMP; nothing on a container's *)
(* own address, no other published port, and no published UDP port at all, *)
(* be it the DHCP client's.                                                *)
Member(networks, a) == \E n \in networks : a \in n.hosts
Permitted(c, p) ==
    /\ p.dest = "host"
    /\ \/ p.proto = "icmp"
       \/ /\ p.proto = "tcp"
          /\ \/ p.port \in Web
             \/ p.port = Mqtt /\ Member(c.mqtt, p.src)
             \/ p.port = c.ssh /\ Member(c.admin, p.src)
       \/ /\ p.proto = "udp" /\ ~Natted(p)
          /\ \/ c.dhcp4 /\ p.sport = 67 /\ p.port = 68
             \/ c.dhcp6 /\ Family[p.src] = 6 /\ p.local /\ p.sport = 547 /\ p.port = 546

(* The table lets in exactly that, whether Docker translates the port, its *)
(* proxy listens, or a container of another project is published under     *)
(* another number.  External interfaces do not have a bridge's name.       *)
PolicyExact ==
    policy # Nothing =>
        \A p \in Attempts :
            p.iif \in policy.external \ Bridges =>
                (Accepts(policy, p) <=> Permitted(policy, p))

(* An administrator who tries a policy over SSH through an external        *)
(* interface can open a new connection to sshd as long as the trial lasts, *)
(* whatever Docker publishes meanwhile (try_policy, lines 79-85).          *)
AdminKeepsAccess ==
    session # Nothing /\ session.iif \in policy.external =>
        ~Forwarded(session) /\ Accepts(policy, session)

PolicyInv == PolicyTypeOK /\ PolicyExact
=============================================================================
