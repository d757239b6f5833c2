----------------------------- MODULE MCDesktop ------------------------------
(***************************************************************************)
(* Five components of the running window, checked side by side: in each    *)
(* behaviour one of them moves, on an instance of its own (focus).         *)
(***************************************************************************)
EXTENDS Standalone, Operations, TemplateChain, NetworkJobs, PortAdoption

CONSTANTS f1, MaxRows, r1, r2

VARIABLE focus

desktopVars == <<saVars, opVars, templateVars, jobVars, portVars, focus>>

\* A process and the one that takes its place, one sweep, and no behaviour that needs more
\* than MaxRows history rows; one process, two sweeps and a switch of the database; the
\* operations; the templates that the window and the command line edit, three
\* commands, changes and faults in all; a search or a lookup, while the monitor is enabled; the
\* detection of a port, until it is resolved; once the process has answered, it does not
\* matter what becomes of it, nor whether the table without its ports was read.
Focus == {"takeover", "sweeps", "operations", "templates", "jobs", "ports"}

\* Which file is in use first makes no difference.
DesktopInit ==
    /\ SaInit /\ OpInit /\ TemplateInit /\ JobsInit /\ PortInit
    /\ focus \in Focus
    /\ paths.controller = f1
    /\ focus = "takeover" => rows[1] = <<>>
    /\ focus = "sweeps" => proc[2] = "none"
    /\ focus \in {"operations", "templates", "jobs", "ports"} => \A pid \in Pid : proc[pid] = "none"
    /\ process.family = "v4" /\ process.socks # 1 /\ process.others \subseteq {1, 3}
    /\ focus # "ports" => process = [process EXCEPT !.socks = 2, !.others = {}, !.bound = TRUE,
                                                   !.config = "path"]

DesktopNext ==
    /\ UNCHANGED focus
    /\ \/ /\ focus = "takeover" /\ SaNext /\ db' = 1 /\ sweep'[2] = NoSweep
             /\ Len(rows'[1]) <= MaxRows
          /\ UNCHANGED <<opVars, templateVars, jobVars, portVars>>
       \/ /\ focus = "sweeps" /\ SaNext /\ proc'[2] = "none"
          /\ UNCHANGED <<opVars, templateVars, jobVars, portVars>>
       \/ /\ focus = "operations" /\ OpNext
          /\ UNCHANGED <<saVars, templateVars, jobVars, portVars>>
       \/ /\ focus = "templates" /\ TemplateNext
             /\ effort'.edits + effort'.faults + effort'.commands <= 3
          /\ UNCHANGED <<saVars, opVars, jobVars, portVars>>
       \/ /\ focus = "jobs" /\ JobsNext /\ monitor'.enabled
          /\ UNCHANGED <<saVars, opVars, templateVars, portVars>>
       \/ /\ focus = "ports" /\ PortNext /\ look.at # "resolved"
             /\ (look.at = "read" => UNCHANGED process)
             /\ look'.families # {"v4"}
          /\ UNCHANGED <<saVars, opVars, templateVars, jobVars>>

DesktopSpec ==
    /\ DesktopInit /\ [][DesktopNext]_desktopVars
    /\ SaFairness /\ OpFairness

DesktopTypeOK == SaTypeOK /\ OpTypeOK /\ TemplateTypeOK /\ JobsTypeOK /\ PortTypeOK

\* The standalone proxies are tracked: their sessions are true to the processes, and so
\* are the ports that are detected (Standalone, PortAdoption).
ProxiesAreTracked == SessionsAreTrue /\ PortsAreTrue

=============================================================================
