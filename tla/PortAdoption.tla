---------------------------- MODULE PortAdoption ----------------------------
(***************************************************************************)
(* How the port of a process is found that serves a standalone proxy and   *)
(* was not started here (src/src/ui/AppController.cpp,                     *)
(* src/include/StandaloneAdoptionPolicy.h, src/src/ProcessInspector.cpp):  *)
(* the history of the proxy, the configuration file of the process and the *)
(* ports on which it listens offer candidates, and what is seen of the     *)
(* process rejects some.  The process may die meanwhile, its id may be     *)
(* used again, and its ports open late.                                    *)
(***************************************************************************)
EXTENDS Naturals, Sequences, FiniteSets, SequencesExt, FiniteSetsExt

CONSTANTS
    Port,        \* ports on which a process may listen: 0 is none
    ApiPort,     \* config_.proxy.api_base_port
    MaxReuses    \* bound: how often the process id is used again

ASSUME PortAssumption ==
    Port \subseteq Nat \ {0} /\ IsFiniteSet(Port) /\ ApiPort \in Port /\ MaxReuses \in Nat

Family == {"v4", "v6"}
Tier == {"RuntimeHistory", "CmdlineConfig", "DirProbe", "OsTcpTable"}

VARIABLES
    process,     \* what has the process id
    look         \* what the sweep, or the takeover, knows of it

portVars == <<process, look>>

\* A process: its instance; the family and the ports of its sockets, and the one that
\* speaks SOCKS5, 0 if none; whether they are open yet; how its command line names the
\* configuration file, "unread": it cannot be read, "other": not one of this proxy.
Process == [alive : BOOLEAN, born : 1 .. MaxReuses + 1, family : Family,
            socks : (Port \ {ApiPort}) \cup {0}, others : SUBSET Port, bound : BOOLEAN,
            config : {"path", "name", "unread", "other"}]

Own(p) == IF p.alive /\ p.bound THEN p.others \cup ({p.socks} \ {0}) ELSE {}

\* seen: the instance that was enumerated.  opened, families: whether its ports were open
\* and which tables were read when it was scanned.  recorded: what the history and the files
\* offered.
NoLook == [at |-> "off", route |-> "FullDetect", seen |-> 0, config |-> "path",
           creationTime |-> 0, opened |-> FALSE, families |-> {}, osFactsReadable |-> FALSE,
           osPorts |-> {}, socksPorts |-> {}, recorded |-> {}, port |-> 0,
           source |-> "None", verdict |-> "Unknown"]

PortTypeOK ==
    /\ process \in Process
    /\ look.at \in {"off", "gate", "scan", "greet", "read", "resolved"}
    /\ look.route \in {"FullDetect", "BypassDetect", "Takeover"}
    /\ look.osPorts \subseteq Port /\ look.socksPorts \subseteq look.osPorts \ {ApiPort}
    /\ look.recorded \subseteq Port \cup {0} /\ look.source \in Tier \cup {"None"}
    /\ look.port \in Port \cup {0}
    /\ look.verdict \in {"Unknown", "Unverified", "Verified"}

PortInit ==
    /\ process \in {p \in Process : p.alive /\ p.born = 1 /\ p.socks \notin p.others
                                    /\ p.config # "other"}
    /\ look = NoLook

-----------------------------------------------------------------------------
(* StandaloneAdoptionPolicy.h.                                              *)

\* classifyPortCandidate()
classifyPortCandidate(port, l) ==
    IF port = ApiPort THEN "Disproven"
    ELSE IF ~l.osFactsReadable THEN "Unknown"
    ELSE IF port \notin l.osPorts THEN "Disproven"
    ELSE IF port \in l.socksPorts THEN "Verified" ELSE "Unverified"

buildOsCandidates(osPorts) == osPorts \ {ApiPort}

Ascending(ports) ==
    CHOOSE s \in [1 .. Cardinality(ports) -> ports] :
        ToSet(s) = ports /\ \A i, j \in DOMAIN s : i < j => s[i] < s[j]

\* Mutant: whether a port speaks SOCKS5 does not matter.
OrderedByNumber(ports, socksPorts) == Ascending(ports)

\* orderOsCandidatesBySocks()
orderOsCandidatesBySocks(ports, socksPorts) ==
    Ascending(ports \cap socksPorts) \o Ascending(ports \ socksPorts)

\* resolveChainPort(): the first that is not disproven.
resolveChainPort(l, chain) ==
    LET left == {n \in DOMAIN chain : /\ chain[n].port > 0
                                      /\ classifyPortCandidate(chain[n].port, l) # "Disproven"}
        first == chain[Min(left)]
    IN  IF left = {} THEN l
        ELSE [l EXCEPT !.port = first.port, !.source = first.source,
                       !.verdict = classifyPortCandidate(first.port, l)]

\* resolveBypassPort(): the first that is known.
resolveBypassPort(l, ports) ==
    LET known == {n \in DOMAIN ports : ports[n] > 0}
    IN  IF known = {} THEN l
        ELSE [l EXCEPT !.port = ports[Min(known)], !.source = "RuntimeHistory",
                       !.verdict = "Verified"]

\* checkInstanceIdentity(); 0: a time that cannot be read.
Recycled(enumerated, opened) == enumerated # 0 /\ opened # 0 /\ enumerated # opened

-----------------------------------------------------------------------------
(* adoptDanglingStandaloneProxies(), and the takeover of a watcher.  The    *)
(* creation time is forgotten once it has been compared.                    *)

Unread(time) == {time, 0}

\* matchesConfig() with a command line that cannot be read: a takeover takes any process
\* of the program then, a sweep none.
Matches(route) ==
    process.config \in IF route = "Takeover" THEN {"path", "name", "unread"}
                       ELSE {"path", "name"}

Enumerated(route) ==
    /\ look.at = "off" /\ process.alive /\ Matches(route)
    /\ \E time \in Unread(process.born) :
          look' = [NoLook EXCEPT !.route = route, !.seen = process.born,
                                 !.config = process.config,
                                 !.creationTime = IF route = "Takeover" THEN 0 ELSE time,
                                 !.at = IF route = "Takeover" THEN "scan" ELSE "gate"]
    /\ UNCHANGED process

\* The process is opened, or cannot be: gone, or refused.  One whose time differs is
\* left alone.
CheckIdentity ==
    /\ look.at = "gate"
    /\ \E time \in Unread(process.born) :
          /\ ~process.alive => time = 0
          /\ look' = IF Recycled(look.creationTime, time) THEN NoLook
                     ELSE [look EXCEPT !.at = IF look.route = "FullDetect" THEN "scan"
                                              ELSE "read",
                                       !.creationTime = 0]
    /\ UNCHANGED process

\* scanListeningTcpPorts(): each family is read or not.  A takeover does not trust a
\* table without a port of the process.
Scan ==
    /\ look.at = "scan"
    /\ \E families \in SUBSET Family :
          LET ports == IF process.family \in families THEN Own(process) ELSE {}
          IN  look' = [look EXCEPT
                 !.at = "greet", !.families = families, !.osPorts = ports,
                 !.opened = process.bound,
                 !.osFactsReadable = families # {} /\ (look.route = "Takeover" => ports # {})]
    /\ UNCHANGED process

\* respondsToSocks5Greeting() for each: the answer may come too late.
Greet ==
    /\ look.at = "greet"
    /\ \E answers \in SUBSET (buildOsCandidates(look.osPorts) \cap Own(process) \cap {process.socks}) :
          look' = [look EXCEPT !.at = "read", !.socksPorts = answers]
    /\ UNCHANGED process

Offer(source, port) == [source |-> source, port |-> port]

\* The rows and the files may say anything: they are written when a process is launched,
\* adopted or edited, and read now.  A file is looked for in the directory of the program
\* when the command line names none that can be read.
Recorded == Port \cup {0}
FileCandidates ==
    LET none == Offer("CmdlineConfig", 0)
    IN  {<<Offer("CmdlineConfig", c)>> : c \in IF look.config = "path" THEN Port ELSE {}}
            \cup {<<none, Offer("DirProbe", d)>> : d \in Recorded}

OsCandidates ==
    LET ports == orderOsCandidatesBySocks(buildOsCandidates(look.osPorts), look.socksPorts)
    IN  [n \in DOMAIN ports |-> Offer("OsTcpTable", ports[n])]

Resolve(records) ==
    look' = resolveChainPort([look EXCEPT !.at = "resolved",
                                          !.recorded = {c.port : c \in ToSet(records)}],
                             records \o OsCandidates)

\* lookupSocksPort() and readStandaloneInboundPort(), in the order of the chain.
ResolveSweep ==
    /\ look.at = "read" /\ look.route = "FullDetect"
    /\ \E history \in Recorded, files \in FileCandidates :
          Resolve(<<Offer("RuntimeHistory", history)>> \o files)
    /\ UNCHANGED process

\* A process of ours: the history, the entry, or what was asked for when it was started.
ResolveBypass ==
    /\ look.at = "read" /\ look.route = "BypassDetect"
    /\ \E history, memory \in Recorded, session \in Port \ {ApiPort} :
          look' = resolveBypassPort([look EXCEPT !.at = "resolved"], <<history, memory, session>>)
    /\ UNCHANGED process

\* The entry remembers the port of the process that has ended.
ResolveTakeover ==
    /\ look.at = "read" /\ look.route = "Takeover"
    /\ \E file \in IF look.config = "path" THEN Recorded ELSE {0}, memory \in Recorded :
          Resolve(<<Offer("CmdlineConfig", file), Offer("RuntimeHistory", memory)>>)
    /\ UNCHANGED process

-----------------------------------------------------------------------------
(* The process.                                                             *)

Binds ==
    /\ process.alive /\ ~process.bound
    /\ process' = [process EXCEPT !.bound = TRUE]
    /\ UNCHANGED look

Dies ==
    /\ process.alive
    /\ process' = [process EXCEPT !.alive = FALSE]
    /\ UNCHANGED look

\* Another process gets the id: it may be any program.
IdReused ==
    /\ ~process.alive /\ process.born <= MaxReuses
    /\ \E family \in Family, socks \in {0, process.socks} :
          process' = [process EXCEPT !.alive = TRUE, !.born = @ + 1, !.family = family,
                                     !.socks = socks, !.config = "other"]
    /\ UNCHANGED look

PortNext ==
    \/ \E route \in {"FullDetect", "BypassDetect", "Takeover"} : Enumerated(route)
    \/ CheckIdentity \/ Scan \/ Greet
    \/ ResolveSweep \/ ResolveBypass \/ ResolveTakeover
    \/ Binds \/ Dies \/ IdReused

PortSpec == PortInit /\ [][PortNext]_portVars

-----------------------------------------------------------------------------
(* What the detection promises.                                             *)

Found == look.at = "resolved" /\ look.route # "BypassDetect"
SameProcess == process.alive /\ process.born = look.seen
Facts == look.families = Family

\* A healthy proxy is never dropped, and never gets a port on which it does not listen or
\* that of the API, whatever the history and the files say (StandaloneAdoptionPolicy.h,
\* resolveChainPort) - provided that both tables could be read.
HealthyIsAdopted ==
    Found /\ SameProcess /\ Facts /\ look.opened /\ Own(process) \ {ApiPort} # {} =>
        look.port \in Own(process) \ {ApiPort}

\* A port that is called verified is the one that serves; and that one is found when it
\* answers and no record names another port of the process.
ServingPortIsFound ==
    Found /\ SameProcess =>
        /\ look.verdict = "Verified" => look.port = process.socks
        /\ look.socksPorts # {} /\ look.recorded \cap Own(process) \subseteq {process.socks, ApiPort}
              => look.port = process.socks

\* A process without open ports is left alone by a sweep; a takeover, which comes at the
\* moment its predecessor ends, keeps the recorded port (handleProcessExit, R6).
SilentProcess ==
    Found /\ SameProcess /\ Facts /\ ~look.opened =>
        IF look.route = "FullDetect" THEN look.port = 0
        ELSE look.port = 0 => look.recorded \subseteq {0, ApiPort}

\* The three together.
PortsAreTrue == HealthyIsAdopted /\ ServingPortIsFound /\ SilentProcess

=============================================================================
