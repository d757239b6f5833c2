----------------------------- MODULE Desktop_proofs -----------------------------
(***************************************************************************)
(* Theorems about the components of the running window: Operations, for    *)
(* any set of database files and any number of connections; NetworkJobs,   *)
(* for any number of candidates, resolvers and instances; Standalone, for  *)
(* any number of processes, sweeps and databases; PortAdoption, for any    *)
(* finite set of ports; those about TemplateChain are in a module of their *)
(* own.                                                                    *)
(***************************************************************************)
EXTENDS MCDesktop, TemplateChain_proofs, FiniteSetTheorems, SequenceTheorems,
        WellFoundedInduction, TLAPS

-----------------------------------------------------------------------------
(* Operations: the inductive invariant.                                     *)

Connection == [path : Path, open : BOOLEAN]
OpThread == [at : {"none", "work", "ended"}, conn : Nat, late : BOOLEAN]
Window == [at : {"idle", "manual", "message", "quiesce", "switch", "closing", "closed"},
           to : Path \cup {"none"},
           decision : {"Allow", "QuiesceProbe", "RefuseUserOperation"}]

OpTyped ==
    /\ conns \in Seq(Connection)
    /\ worker \in OpThread /\ probe \in OpThread /\ window \in Window

\* The flags are true exactly while their threads are at work.
FlagsAreTrue ==
    /\ isRunning <=> worker.at = "work"
    /\ onlineProbeRunning <=> probe.at = "work"

\* The controller has a connection until it is gone.
HandleIsThere == handle = 0 <=> window.at = "closed"

Switching == window.at \in {"message", "quiesce", "switch"}

\* While the switch is under way no operation runs, its new path is known, and unless
\* the probe is to be stopped none is at work that was there when that was decided.
SwitchIsSafe ==
    Switching =>
        /\ worker.at # "work" /\ window.to \in Path
        /\ window.decision = "Allow" /\ probe.at = "work" => probe.late
        /\ window.decision # "RefuseUserOperation"

OpInv == OpTypeOK /\ OpTyped /\ FlagsAreTrue /\ HandleIsThere /\ SwitchIsSafe /\ HandlesInUse

-----------------------------------------------------------------------------
(* Connections.                                                             *)

LEMMA ConnsAreNumbered ==
    ASSUME conns \in Seq(Connection)
    PROVE  /\ Len(conns) \in Nat /\ Conn = 1 .. Len(conns) /\ 0 \notin Conn
           /\ \A c \in Conn : conns[c] \in Connection
BY LenProperties, ElementOfSeq DEF Conn

\* Closing keeps the list of connections and leaves the others as they are.
LEMMA Closing ==
    ASSUME conns \in Seq(Connection), NEW cs
    PROVE  /\ CloseConns(cs) \in Seq(Connection)
           /\ Len(CloseConns(cs)) = Len(conns)
           /\ DOMAIN CloseConns(cs) = Conn
           /\ \A c \in Conn \ cs : CloseConns(cs)[c] = conns[c]
<1> DEFINE n == Len(conns)
           e(c) == IF c \in cs THEN [conns[c] EXCEPT !.open = FALSE] ELSE conns[c]
           f == [c \in 1 .. n |-> e(c)]
<1>1. n \in Nat /\ Conn = 1 .. n /\ \A c \in 1 .. n : conns[c] \in Connection
  BY ConnsAreNumbered
<1>2. \A c \in 1 .. n : e(c) \in Connection
  BY <1>1 DEF Connection
<1> HIDE DEF e, n
<1>3. f \in Seq(Connection)
  BY <1>1, <1>2, IsASeq
<1>4. Len(f) = n
  <2>1. DOMAIN f = 1 .. Len(f) /\ Len(f) \in Nat
    BY <1>3, LenProperties
  <2>2. DOMAIN f = 1 .. n
    OBVIOUS
  <2> QED
    BY <1>1, <2>1, <2>2
<1>5. CloseConns(cs) = f
  BY <1>1 DEF CloseConns, e
<1>6. \A c \in Conn \ cs : f[c] = conns[c]
  BY <1>1 DEF e
<1> QED
  BY <1>1, <1>3, <1>4, <1>5, <1>6 DEF n

\* A new connection comes after all others.
LEMMA Opening ==
    ASSUME NEW s \in Seq(Connection), NEW c \in Connection
    PROVE  /\ Append(s, c) \in Seq(Connection)
           /\ DOMAIN Append(s, c) = 1 .. Len(s) + 1
           /\ \A i \in 1 .. Len(s) : Append(s, c)[i] = s[i]
           /\ Append(s, c)[Len(s) + 1] = c
<1>1. /\ Append(s, c) \in Seq(Connection)
      /\ Len(Append(s, c)) = Len(s) + 1
      /\ \A i \in 1 .. Len(s) : Append(s, c)[i] = s[i]
      /\ Append(s, c)[Len(s) + 1] = c
  BY AppendProperties
<1> QED
  BY <1>1, LenProperties

-----------------------------------------------------------------------------
(* The steps.                                                               *)

LEMMA OpInitially == OpInit => OpInv
<1> SUFFICES ASSUME OpInit PROVE OpInv
  OBVIOUS
<1>1. PICK f \in Path : /\ conns = <<[path |-> f, open |-> TRUE]>>
                        /\ paths = [controller |-> f, frame |-> f]
  BY DEF OpInit
<1>2. /\ conns \in Seq(Connection) /\ Conn = {1} /\ conns[1] = [path |-> f, open |-> TRUE]
  BY <1>1 DEF Conn, Connection
<1>3. OpTyped
  BY <1>2 DEF OpTyped, OpInit, OpThread, Window, NoThread, UiIdle
<1>4. OpTypeOK
  <2>1. conns[1].open = TRUE /\ conns[1].path = f /\ f \in Path
    BY <1>2
  <2>2. handle = 1 /\ retired = {} /\ dedups = {}
    BY DEF OpInit
  <2>3. /\ handle \in Conn \cup {0} /\ retired \subseteq Conn \ {handle}
        /\ \A c \in Conn : conns[c].path \in Path /\ conns[c].open \in BOOLEAN
        /\ \A c \in (retired \cup {handle}) \ {0} : conns[c].open
    BY <1>2, <2>1, <2>2
  <2>4. /\ \A t \in {worker, probe} : t.at = "none" /\ t.conn = 0 /\ t.late = FALSE
        /\ window.at = "idle" /\ window.decision = "Allow"
    BY DEF OpInit, NoThread, UiIdle
  <2>5. paths \in [controller : Path, frame : Path]
    BY <1>1
  <2> QED
    BY <2>2, <2>3, <2>4, <2>5 DEF OpInit, OpTypeOK
<1>5. FlagsAreTrue /\ HandleIsThere /\ SwitchIsSafe /\ HandlesInUse
  BY DEF OpInit, FlagsAreTrue, HandleIsThere, SwitchIsSafe, Switching, HandlesInUse, NoThread,
         UiIdle
<1> QED
  BY <1>3, <1>4, <1>5 DEF OpInv

\* A thread that is started works with the open connection of the controller.
LEMMA Beginning ==
    ASSUME OpInv, window.at # "closed"
    PROVE  /\ handle \in Conn /\ conns[handle].open
           /\ AtWork \in OpThread /\ [AtWork EXCEPT !.late = window.at = "message"] \in OpThread
           /\ AtWork.at = "work" /\ AtWork.conn = handle /\ AtWork.late = FALSE
<1>1. handle \in Conn /\ conns[handle].open
  BY DEF OpInv, OpTypeOK, HandleIsThere
<1>2. handle \in Nat
  BY <1>1, ConnsAreNumbered DEF OpInv, OpTyped
<1> QED
  BY <1>1, <1>2 DEF AtWork, OpThread

ThreadEnded(t) == [t EXCEPT !.at = "ended"]

LEMMA Ending ==
    ASSUME NEW t \in OpThread
    PROVE  /\ ThreadEnded(t) \in OpThread
           /\ ThreadEnded(t).at = "ended" /\ ThreadEnded(t).conn = t.conn /\ ThreadEnded(t).late = t.late
BY DEF OpThread, ThreadEnded

\* The steps that leave the database alone.
LEMMA ThreadSteps ==
    ASSUME OpInv,
           \/ StartOperation \/ OperationEnds \/ CancelTest
           \/ SilentProbe \/ ProbeEnds \/ ManualProbe \/ ManualProbeGoesOn
           \/ StartDedup \/ DedupEnds
           \/ MessageClosed \/ Quiesce \/ Close
    PROVE  OpInv'
<1> USE DEF OpInv
<1> DEFINE Late == [AtWork EXCEPT !.late = window.at = "message"]
<1>1. UNCHANGED <<conns, handle, retired, paths>> /\ Conn' = Conn
  BY DEF StartOperation, OperationEnds, CancelTest, SilentProbe, ProbeEnds, ManualProbe,
         ManualProbeGoesOn, StartDedup, DedupEnds, MessageClosed, Quiesce, Close, database, Conn
<1>2. worker' = worker \/ worker' = ThreadEnded(worker) \/ (worker' = AtWork /\ window.at # "closed")
  BY DEF StartOperation, OperationEnds, CancelTest, SilentProbe, ProbeEnds, ManualProbe,
         ManualProbeGoesOn, StartDedup, DedupEnds, MessageClosed, Quiesce, Close,
         BeginOperation, threads, ThreadEnded
<1>3. \/ probe' = probe \/ probe' = ThreadEnded(probe) \/ probe' = NoThread
      \/ (probe' = Late /\ window.at # "closed")
  BY DEF StartOperation, OperationEnds, CancelTest, SilentProbe, ProbeEnds, ManualProbe,
         ManualProbeGoesOn, StartDedup, DedupEnds, MessageClosed, Quiesce, Close, threads, ThreadEnded
<1>4. /\ Late.conn = AtWork.conn /\ Late.at = "work"
      /\ Late.late = (window.at = "message")
  BY DEF AtWork
<1>5. NoThread \in OpThread /\ NoThread.at = "none" /\ NoThread.conn = 0
  BY DEF NoThread, OpThread
<1> HIDE DEF Late
<1>6. ASSUME window.at # "closed"
      PROVE  /\ AtWork \in OpThread /\ Late \in OpThread /\ AtWork.at = "work"
             /\ AtWork.conn \in Conn /\ conns[AtWork.conn].open /\ AtWork.late = FALSE
  BY <1>6, Beginning DEF Late
<1>7. /\ worker' \in OpThread /\ worker'.conn \in Conn \cup {0}
      /\ worker'.at = "work" => conns[worker'.conn].open \/ worker'.late
  BY <1>2, <1>6, Ending DEF OpTyped, OpTypeOK, HandlesInUse
<1>8. /\ probe' \in OpThread /\ probe'.conn \in Conn \cup {0}
      /\ probe'.at = "work" => conns[probe'.conn].open \/ probe'.late
  <2>1. CASE probe' = probe
    BY <2>1 DEF OpTyped, OpTypeOK, HandlesInUse
  <2>2. CASE probe' = ThreadEnded(probe)
    BY <2>2, Ending DEF OpTyped, OpTypeOK
  <2>3. CASE probe' = NoThread
    BY <2>3, <1>5
  <2>4. CASE probe' = Late /\ window.at # "closed"
    BY <2>4, <1>4, <1>6
  <2> QED
    BY <1>3, <2>1, <2>2, <2>3, <2>4
<1>9. HandlesInUse'
  BY <1>1, <1>7, <1>8 DEF HandlesInUse
<1>10. /\ window' \in Window
       /\ window'.at # "closed" <=> window.at # "closed"
  <2>1. CASE UNCHANGED window
    BY <2>1 DEF OpTyped
  <2>2. CASE window' = UiIdle
    BY <2>2 DEF UiIdle, Window, StartOperation, OperationEnds, CancelTest, SilentProbe,
                ProbeEnds, ManualProbe, ManualProbeGoesOn, StartDedup, DedupEnds, MessageClosed,
                Quiesce, Close, OpTyped
  <2>3. CASE ManualProbe \/ Close
    <3>1. window.at = "idle"
      BY <2>3 DEF ManualProbe, Close
    <3>2. window' \in {window, [UiIdle EXCEPT !.at = "manual"], [UiIdle EXCEPT !.at = "closing"]}
      BY <2>3 DEF ManualProbe, Close
    <3> QED
      BY <3>1, <3>2 DEF UiIdle, Window, OpTyped
  <2>4. CASE MessageClosed \/ Quiesce
    <3>1. window.at \in {"message", "quiesce"} /\ window \in Window
      BY <2>4 DEF MessageClosed, Quiesce, OpTyped
    <3>2. window' \in {[window EXCEPT !.at = "quiesce"], [window EXCEPT !.at = "switch"]}
      BY <2>4 DEF MessageClosed, Quiesce
    <3> QED
      BY <3>1, <3>2 DEF Window
  <2> QED
    BY <2>1, <2>2, <2>3, <2>4
       DEF StartOperation, OperationEnds, CancelTest, SilentProbe, ProbeEnds,
           ManualProbeGoesOn, StartDedup, DedupEnds
<1>11. FlagsAreTrue'
  <2>1. CASE StartOperation \/ ManualProbe \/ ManualProbeGoesOn
    <3>1. CASE BeginOperation
      <4>1. isRunning' = TRUE /\ worker' = AtWork
        BY <3>1 DEF BeginOperation
      <4>2. AtWork.at = "work"
        BY DEF AtWork
      <4>3. UNCHANGED onlineProbeRunning
            /\ (UNCHANGED probe \/ (probe.at = "ended" /\ probe' = NoThread))
        BY <2>1 DEF StartOperation, ManualProbe, ManualProbeGoesOn
      <4> QED
        BY <4>1, <4>2, <4>3, <1>5 DEF FlagsAreTrue
    <3>2. CASE ~BeginOperation
      BY <2>1, <3>2 DEF StartOperation, ManualProbe, ManualProbeGoesOn, FlagsAreTrue
    <3> QED
      BY <3>1, <3>2
  <2>2. CASE OperationEnds
    BY <2>2, Ending DEF OperationEnds, ThreadEnded, OpTyped, FlagsAreTrue
  <2>3. CASE SilentProbe
    BY <2>3, <1>4 DEF SilentProbe, Late, FlagsAreTrue
  <2>4. CASE ProbeEnds
    BY <2>4, Ending DEF ProbeEnds, ThreadEnded, OpTyped, FlagsAreTrue
  <2>5. CASE CancelTest \/ StartDedup \/ DedupEnds \/ MessageClosed \/ Quiesce \/ Close
    BY <2>5 DEF CancelTest, StartDedup, DedupEnds, MessageClosed, Quiesce, Close, flags,
                threads, FlagsAreTrue
  <2> QED
    BY <2>1, <2>2, <2>3, <2>4, <2>5
<1>12. SwitchIsSafe'
  <2>1. CASE ~(window'.at \in {"message", "quiesce", "switch"})
    BY <2>1 DEF SwitchIsSafe, Switching
  <2>2. CASE /\ UNCHANGED worker /\ window.at \in {"message", "quiesce", "switch"}
             /\ window'.to = window.to /\ window'.decision = window.decision
             /\ \/ probe' = probe \/ probe' = ThreadEnded(probe)
                \/ (probe' = Late /\ window.at = "message")
    BY <2>2, <1>4, Ending DEF SwitchIsSafe, Switching, OpTyped
  <2>3. CASE OperationEnds
    BY <2>3 DEF OperationEnds, SwitchIsSafe, Switching
  <2>4. CASE SilentProbe \/ ProbeEnds
    <3>1. UNCHANGED window /\ UNCHANGED worker
      BY <2>4 DEF SilentProbe, ProbeEnds
    <3>2. probe' = ThreadEnded(probe) \/ (probe' = Late /\ window.at \in {"idle", "message"})
      BY <2>4 DEF SilentProbe, ProbeEnds, ThreadEnded, Late
    <3> QED
      BY <2>1, <2>2, <3>1, <3>2
  <2>5. CASE MessageClosed \/ Quiesce
    <3>1. UNCHANGED <<worker, probe>>
      BY <2>5 DEF MessageClosed, Quiesce, threads
    <3>2. /\ window.at \in {"message", "quiesce", "switch"}
          /\ window'.to = window.to /\ window'.decision = window.decision
      BY <2>5 DEF MessageClosed, Quiesce, OpTyped, Window
    <3> QED
      BY <2>2, <3>1, <3>2
  <2>6. CASE CancelTest \/ StartDedup \/ DedupEnds
    BY <2>6 DEF CancelTest, StartDedup, DedupEnds, threads, SwitchIsSafe, Switching
  <2>7. CASE StartOperation \/ ManualProbe \/ ManualProbeGoesOn \/ Close
    BY <2>1, <2>7 DEF StartOperation, ManualProbe, ManualProbeGoesOn, Close, UiIdle
  <2> QED
    BY <2>3, <2>4, <2>5, <2>6, <2>7
<1>13. OpTypeOK'
  <2>1. /\ isRunning' \in BOOLEAN /\ onlineProbeRunning' \in BOOLEAN
        /\ cancelRequested' \in BOOLEAN /\ dedups' \subseteq Conn
    BY Beginning
       DEF StartOperation, OperationEnds, CancelTest, SilentProbe, ProbeEnds, ManualProbe,
           ManualProbeGoesOn, StartDedup, DedupEnds, MessageClosed, Quiesce, Close,
           BeginOperation, flags, threads, OpTypeOK
  <2>2. \A t \in {worker', probe'} : /\ t.at \in {"none", "work", "ended"}
                                     /\ t.conn \in Conn \cup {0} /\ t.late \in BOOLEAN
    BY <1>7, <1>8 DEF OpThread
  <2>3. /\ window'.at \in {"idle", "manual", "message", "quiesce", "switch", "closing", "closed"}
        /\ window'.decision \in {"Allow", "QuiesceProbe", "RefuseUserOperation"}
    BY <1>10 DEF Window
  <2> QED
    BY <1>1, <2>1, <2>2, <2>3 DEF OpTypeOK
<1>14. OpTyped' /\ HandleIsThere'
  BY <1>1, <1>7, <1>8, <1>10 DEF OpTyped, HandleIsThere
<1> QED
  BY <1>9, <1>11, <1>12, <1>13, <1>14

\* OK in the dialog: the switch is only decided while no operation runs.
LEMMA SavingConfig ==
    ASSUME OpInv, SaveConfig
    PROVE  OpInv'
<1> USE DEF OpInv
<1>1. PICK f \in Path, at \in {"message", "quiesce"} :
         LET changed == f # paths.frame
             decision == IF changed THEN decide(isRunning, onlineProbeRunning) ELSE "Allow"
         IN  /\ decision # "RefuseUserOperation"
             /\ paths' = [controller |-> f, frame |-> f]
             /\ window' = IF changed
                          THEN [at |-> at, to |-> paths.frame, decision |-> decision]
                          ELSE UiIdle
  BY DEF SaveConfig
<1>2. /\ window.at = "idle" /\ ~isRunning
      /\ UNCHANGED <<flags, threads, conns, handle, retired>> /\ Conn' = Conn
  BY DEF SaveConfig, Conn
<1>3. paths.frame \in Path /\ paths' \in [controller : Path, frame : Path]
  BY <1>1 DEF OpTypeOK
<1>4. \/ window' = UiIdle
      \/ \E decision \in {"Allow", "QuiesceProbe"} :
            /\ window' = [at |-> at, to |-> paths.frame, decision |-> decision]
            /\ decision = "Allow" => ~onlineProbeRunning
  BY <1>1, <1>2 DEF decide
<1>5. /\ window' \in Window /\ window'.at # "closed"
      /\ window'.at \in {"message", "quiesce", "switch"} =>
            /\ window'.to \in Path
            /\ window'.decision = "Allow" => ~onlineProbeRunning
            /\ window'.decision # "RefuseUserOperation"
  BY <1>3, <1>4 DEF Window, UiIdle
<1>6. SwitchIsSafe'
  BY <1>2, <1>5 DEF SwitchIsSafe, Switching, FlagsAreTrue, threads
<1>7. OpTypeOK'
  <2>1. /\ window'.at \in {"idle", "manual", "message", "quiesce", "switch", "closing", "closed"}
        /\ window'.decision \in {"Allow", "QuiesceProbe", "RefuseUserOperation"}
    BY <1>5 DEF Window
  <2> QED
    BY <1>2, <1>3, <2>1 DEF OpTypeOK, flags, threads
<1>8. OpTyped' /\ FlagsAreTrue' /\ HandleIsThere' /\ HandlesInUse'
  BY <1>2, <1>5 DEF OpTyped, FlagsAreTrue, HandleIsThere, HandlesInUse, flags, threads
<1> QED
  BY <1>6, <1>7, <1>8

\* The database is switched: what is closed is used by no operation, nor by a probe that
\* was there when the switch was decided.
LEMMA Switched ==
    ASSUME OpInv, SwitchDatabaseNow
    PROVE  OpInv'
<1> USE DEF OpInv
<1>1. window.at = "switch" /\ window' = UiIdle /\ UNCHANGED <<isRunning, worker, dedups>>
  BY DEF SwitchDatabaseNow
<1>2. /\ worker.at # "work" /\ window.to \in Path
      /\ window.decision \in {"Allow", "QuiesceProbe"}
      /\ window.decision = "Allow" /\ probe.at = "work" => probe.late
  BY <1>1 DEF SwitchIsSafe, Switching, OpTyped, Window
<1>3. /\ probe' = probe \/ probe' = NoThread
      /\ probe'.at = "work" => probe'.late
      /\ onlineProbeRunning' <=> probe'.at = "work"
      /\ cancelRequested' \in BOOLEAN /\ onlineProbeRunning' \in BOOLEAN
  <2>1. CASE window.decision = "QuiesceProbe"
    <3>1. probe' = NoThread /\ onlineProbeRunning' = FALSE
          /\ cancelRequested' = (probe.at = "none" /\ cancelRequested)
      BY <2>1 DEF SwitchDatabaseNow
    <3> QED
      BY <3>1 DEF NoThread, OpTypeOK
  <2>2. CASE window.decision = "Allow"
    BY <1>2, <2>2 DEF SwitchDatabaseNow, FlagsAreTrue, OpTypeOK
  <2> QED
    BY <1>2, <2>1, <2>2
<1>4. Len(conns) \in Nat /\ Conn = 1 .. Len(conns) /\ 0 \notin Conn
      /\ \A c \in Conn : conns[c] \in Connection
  BY ConnsAreNumbered DEF OpTyped
<1>5. handle \in Conn /\ retired \subseteq Conn \ {handle}
      /\ \A c \in retired \cup {handle} : conns[c].open
  BY <1>1, <1>4 DEF HandleIsThere, OpTypeOK
<1>6. /\ conns' \in Seq(Connection) /\ Conn \subseteq Conn'
      /\ handle' \in Conn' /\ retired' \subseteq Conn' \ {handle'}
      /\ \A c \in retired' \cup {handle'} : conns'[c].open
      /\ paths' \in [controller : Path, frame : Path]
  <2>1. CASE /\ retired' \in Busy(retired)
             /\ conns' = CloseConns(retired \ retired')
             /\ paths' = [paths EXCEPT !.controller = window.to]
             /\ UNCHANGED handle
    <3>1. retired' \subseteq retired
      BY <2>1 DEF Busy
    <3>2. conns' \in Seq(Connection) /\ Conn' = Conn
          /\ \A c \in Conn \ (retired \ retired') : conns'[c] = conns[c]
      BY <2>1, Closing DEF OpTyped, Conn
    <3>3. paths' \in [controller : Path, frame : Path]
      BY <1>2, <2>1 DEF OpTypeOK
    <3> QED
      BY <1>5, <2>1, <3>1, <3>2, <3>3
  <2>2. CASE /\ retired' \in Busy(retired \cup {handle})
             /\ conns' = Append(CloseConns((retired \cup {handle}) \ retired'),
                                [path |-> paths.frame, open |-> TRUE])
             /\ handle' = Len(conns) + 1
             /\ UNCHANGED paths
    <3> DEFINE cs == CloseConns((retired \cup {handle}) \ retired')
               c0 == [path |-> paths.frame, open |-> TRUE]
    <3>1. retired' \subseteq retired \cup {handle}
      BY <2>2 DEF Busy
    <3>2. /\ cs \in Seq(Connection) /\ Len(cs) = Len(conns)
          /\ \A c \in Conn \ ((retired \cup {handle}) \ retired') : cs[c] = conns[c]
      BY Closing DEF OpTyped
    <3>3. c0 \in Connection /\ c0.open
      BY DEF Connection, OpTypeOK
    <3>4. conns' = Append(cs, c0)
      BY <2>2
    <3> HIDE DEF cs, c0
    <3>5. /\ conns' \in Seq(Connection) /\ DOMAIN conns' = 1 .. Len(conns) + 1
          /\ \A c \in Conn : conns'[c] = cs[c]
          /\ conns'[Len(conns) + 1] = c0
      BY <1>4, <3>2, <3>3, <3>4, Opening
    <3>6. Conn' = 1 .. Len(conns) + 1
      BY <3>5 DEF Conn
    <3>7. \A c \in retired' : conns'[c].open /\ c \in Conn
      BY <1>5, <3>1, <3>2, <3>5
    <3>8. handle' \in Conn' /\ handle' \notin Conn /\ conns'[handle'].open
      <4>1. handle' = Len(conns) + 1 /\ conns'[handle'] = c0
        BY <2>2, <3>5
      <4>2. handle' \in 1 .. Len(conns) + 1 /\ handle' \notin 1 .. Len(conns)
        BY <1>4, <4>1
      <4> QED
        BY <1>4, <3>3, <3>6, <4>1, <4>2
    <3>9. Conn \subseteq Conn' /\ paths' \in [controller : Path, frame : Path]
      BY <1>4, <2>2, <3>6 DEF OpTypeOK
    <3> QED
      BY <3>5, <3>7, <3>8, <3>9
  <2> QED
    BY <2>1, <2>2 DEF SwitchDatabaseNow
<1>7. conns' \in Seq(Connection) /\ Conn' = 1 .. Len(conns') /\ 0 \notin Conn'
      /\ \A c \in Conn' : conns'[c] \in Connection
  BY <1>6, LenProperties, ElementOfSeq DEF Conn
<1>8. OpTypeOK'
  <2>1. \A t \in {worker', probe'} : /\ t.at \in {"none", "work", "ended"}
                                     /\ t.conn \in Conn' \cup {0} /\ t.late \in BOOLEAN
    <3>1. \A t \in {worker, probe} : /\ t.at \in {"none", "work", "ended"}
                                     /\ t.conn \in Conn' \cup {0} /\ t.late \in BOOLEAN
      BY <1>6 DEF OpTypeOK
    <3>2. NoThread.at = "none" /\ NoThread.conn = 0 /\ NoThread.late = FALSE
      BY DEF NoThread
    <3> QED
      BY <1>1, <1>3, <3>1, <3>2
  <2>2. \A c \in Conn' : conns'[c].path \in Path /\ conns'[c].open \in BOOLEAN
    BY <1>7 DEF Connection
  <2>3. /\ window'.at = "idle" /\ window'.decision = "Allow"
    BY <1>1 DEF UiIdle
  <2>4. isRunning' \in BOOLEAN /\ dedups' \subseteq Conn'
    BY <1>1, <1>6 DEF OpTypeOK
  <2> QED
    BY <1>3, <1>6, <2>1, <2>2, <2>3, <2>4 DEF OpTypeOK
<1>9. OpTyped'
  <2>1. NoThread \in OpThread /\ UiIdle \in Window
    BY DEF NoThread, OpThread, UiIdle, Window
  <2> QED
    BY <1>1, <1>3, <1>6, <2>1 DEF OpTyped
<1>10. FlagsAreTrue' /\ HandlesInUse' /\ SwitchIsSafe'
  BY <1>1, <1>2, <1>3 DEF FlagsAreTrue, HandlesInUse, SwitchIsSafe, Switching, UiIdle
<1>11. HandleIsThere'
  BY <1>1, <1>6, <1>7 DEF HandleIsThere, UiIdle
<1> QED
  BY <1>8, <1>9, <1>10, <1>11

\* The controller closes the handles when no counted thread is left.
LEMMA Destroying ==
    ASSUME OpInv, Destroyed
    PROVE  OpInv'
<1> USE DEF OpInv
<1>1. /\ window.at = "closing" /\ worker.at # "work" /\ probe.at # "work"
      /\ worker' = NoThread /\ probe' = NoThread
      /\ retired' \in Busy(retired \cup {handle})
      /\ conns' = CloseConns((retired \cup {handle}) \ retired')
      /\ handle' = 0 /\ window' = [window EXCEPT !.at = "closed"]
      /\ UNCHANGED <<flags, dedups, paths>>
  BY DEF Destroyed
<1>2. NoThread \in OpThread /\ NoThread.at = "none" /\ NoThread.conn = 0 /\ NoThread.late = FALSE
  BY DEF NoThread, OpThread
<1>3. window' \in Window /\ window'.at = "closed" /\ window'.decision = window.decision
  BY <1>1 DEF Window, OpTyped
<1>4. Conn = 1 .. Len(conns) /\ 0 \notin Conn /\ \A c \in Conn : conns[c] \in Connection
  BY ConnsAreNumbered DEF OpTyped
<1>5. handle \in Conn /\ retired \subseteq Conn
      /\ \A c \in retired \cup {handle} : conns[c].open
  BY <1>1, <1>4 DEF HandleIsThere, OpTypeOK
<1>6. /\ conns' \in Seq(Connection) /\ Conn' = Conn
      /\ \A c \in Conn \ ((retired \cup {handle}) \ retired') : conns'[c] = conns[c]
  BY <1>1, Closing DEF OpTyped, Conn
<1>7. retired' \subseteq retired \cup {handle}
  BY <1>1 DEF Busy
<1>8. \A c \in Conn' : conns'[c].path \in Path /\ conns'[c].open \in BOOLEAN
  <2>1. \A c \in Conn' : conns'[c] \in Connection
    BY <1>6, ElementOfSeq, LenProperties DEF Conn
  <2> QED
    BY <2>1 DEF Connection
<1>9. retired' \subseteq Conn' \ {handle'} /\ \A c \in retired' : conns'[c].open
  BY <1>1, <1>4, <1>5, <1>6, <1>7
<1>10. OpTypeOK'
  <2>1. \A t \in {worker', probe'} : /\ t.at \in {"none", "work", "ended"}
                                     /\ t.conn \in Conn' \cup {0} /\ t.late \in BOOLEAN
    BY <1>1, <1>2
  <2> QED
    BY <1>1, <1>3, <1>6, <1>8, <1>9, <2>1 DEF OpTypeOK, flags
<1>11. OpTyped'
  BY <1>1, <1>2, <1>3, <1>6 DEF OpTyped
<1>12. FlagsAreTrue' /\ HandleIsThere' /\ SwitchIsSafe' /\ HandlesInUse'
  BY <1>1, <1>2, <1>3
     DEF FlagsAreTrue, HandleIsThere, SwitchIsSafe, Switching, HandlesInUse, flags
<1> QED
  BY <1>10, <1>11, <1>12

LEMMA OpInvStep == OpInv /\ [OpNext]_opVars => OpInv'
<1> SUFFICES ASSUME OpInv, [OpNext]_opVars PROVE OpInv'
  OBVIOUS
<1>1. CASE UNCHANGED opVars
  BY <1>1 DEF opVars, OpInv, OpTypeOK, OpTyped, FlagsAreTrue, HandleIsThere, SwitchIsSafe,
              Switching, HandlesInUse, Conn
<1> QED
  BY <1>1, ThreadSteps, SavingConfig, Switched, Destroying DEF OpNext

-----------------------------------------------------------------------------
(* Operations: the theorems.                                                *)

LEMMA OpInvAlways == OpSpec => []OpInv
BY OpInitially, OpInvStep, PTL DEF OpSpec

\* The window's handle is open for as long as the controller lives, and so are the
\* handles it keeps in retiredDbHandles_.
THEOREM OpTypeCorrect == OpSpec => []OpTypeOK
<1>1. OpInv => OpTypeOK
  BY DEF OpInv
<1> QED
  BY <1>1, OpInvAlways, PTL

\* switchDatabase() and ~AppController() close no connection that the running operation
\* works with, or the silent probe, unless it began behind the save error's box.
THEOREM HandlesInUseAlways == OpSpec => []HandlesInUse
<1>1. OpInv => HandlesInUse
  BY DEF OpInv
<1> QED
  BY <1>1, OpInvAlways, PTL

\* isRunning_ and onlineProbeRunning_, on which decide() and the guard rely, are true
\* exactly while their threads are at work.
THEOREM FlagsAreTrueAlways == OpSpec => []FlagsAreTrue
<1>1. OpInv => FlagsAreTrue
  BY DEF OpInv
<1> QED
  BY <1>1, OpInvAlways, PTL

-----------------------------------------------------------------------------
(* NetworkJobs: the inductive invariant.                                    *)

FinderRecord ==
    [at : {"off", "inject", "test", "done", "aborted"}, n : 1 .. Candidates + 1,
     working : SUBSET Candidate, result : 0 .. Candidates, ports : 0 .. Instances]

ResolverState ==
    [at : {"off", "loop", "flush", "write", "join", "report"}]
    \cup [at : {"fetch"}, target : Target]

Fate == {"queued", "taken", "unresolved", "resolved", "written", "lost"}

JobsTyped ==
    /\ job \in [kind : {"none", "first", "best", "regions"}, cancelled : BOOLEAN,
                watched : BOOLEAN, report : {"none", "cancelled", "found", "notfound", "resolved"}]
    /\ finder \in FinderRecord
    /\ resolver \in [Thread -> ResolverState]
    /\ fate \in [Target -> Fate]

\* Only the job that was started moves.
OneJob ==
    /\ job.kind \notin {"first", "best"} => finder.at = "off"
    /\ job.kind # "regions" => \A r \in Thread : resolver[r] = Nothing
    /\ job.report = "resolved" => job.kind = "regions"

\* The search has tested the candidates before n and no other; those that worked are
\* noted, and the first search has none until its last; an instance that is to be tested
\* carries the candidate, unless it has died.
SearchIsOpen ==
    finder.at # "done" =>
        /\ finder.result = 0 /\ finder.ports = 0
        /\ \A c \in Candidate : c >= finder.n => verdict[c] = -1
        /\ finder.working = {c \in Candidate : verdict[c] > 0}
        /\ job.kind = "first" \/ finder.at = "off" => finder.working = {}
        /\ finder.at = "test" =>
              /\ finder.n \in Candidate
              /\ carries[InstanceOf(finder.n)] \in {finder.n, -1}

\* A region is in one place.
HeldOnce ==
    /\ \A t \in buffer : fate[t] = "resolved" /\ \A r \in Thread : t \notin batches[r]
    /\ \A r \in Thread : \A t \in batches[r] :
          fate[t] = "resolved" /\ \A q \in Thread : q # r => t \notin batches[q]
    /\ \A t \in Target : fate[t] = "resolved" => t \in buffer \/ \E r \in Thread : t \in batches[r]

\* A profile that was taken is with one thread, and who writes nothing holds nothing.
TakenByOne ==
    /\ \A r \in Thread : resolver[r].at # "write" => batches[r] = {}
    /\ \A r \in Thread : resolver[r].at = "fetch" =>
          /\ fate[resolver[r].target] = "taken"
          /\ \A q \in Thread : q # r /\ resolver[q].at = "fetch" =>
                resolver[q].target # resolver[r].target
    /\ \A t \in Target : fate[t] = "taken" =>
          \E r \in Thread : resolver[r].at = "fetch" /\ resolver[r].target = t

LookupEnded == resolver["main"].at \in {"flush", "write", "report"} \/ job.report = "resolved"

\* The calling thread waits for the others; the last write empties what they have left.
MainWaits ==
    /\ resolver["main"].at \in {"off", "join", "flush", "write", "report"}
    /\ \A r \in Resolver : resolver[r].at \in {"off", "loop", "fetch", "flush", "write"}
    /\ LookupEnded => /\ \A r \in Resolver : resolver[r] = Nothing
                      /\ job.cancelled \/ Queue = {}
    /\ resolver["main"].at \in {"write", "report"} \/ job.report = "resolved" => buffer = {}
    /\ job.report = "resolved" => resolver["main"] = Nothing
    /\ resolver["main"].at = "join" /\ ~job.cancelled /\ Queue # {} =>
          \E r \in Resolver : resolver[r] # Nothing

JobsInv == JobsTypeOK /\ JobsTyped /\ OneJob /\ SearchIsOpen /\ FoundWorks
           /\ HeldOnce /\ TakenByOne /\ MainWaits

-----------------------------------------------------------------------------
(* Lemmas about the operators of the model.                                 *)

LEMMA MinOfNats ==
    ASSUME NEW S, S \subseteq Nat, S # {}
    PROVE  Min(S) \in S /\ \A y \in S : Min(S) <= y
<1> DEFINE R == OpToRel(<, Nat)
<1>1. \A x \in Nat, y \in Nat : <<y, x>> \in R <=> y < x
  BY DEF OpToRel
<1>2. IsWellFoundedOn(R, Nat)
  BY NatLessThanWellFounded
<1> HIDE DEF R
<1>3. PICK x \in S : \A y \in S : ~ (<<y, x>> \in R)
  BY <1>2, WFMin
<1>4. \A y \in S : x <= y
  <2> TAKE y \in S
  <2>1. ~ (y < x)
    BY <1>1, <1>3
  <2> QED
    BY <2>1
<1> QED
  BY <1>4 DEF Min

LEMMA InstancesInTurn == \A c \in Candidate : InstanceOf(c) \in Instance
<1> SUFFICES ASSUME NEW c \in Candidate PROVE InstanceOf(c) \in Instance
  OBVIOUS
<1>1. c - 1 \in Nat /\ Instances \in Nat \ {0}
  BY JobsAssumption DEF Candidate
<1>2. (c - 1) % Instances \in 0 .. Instances - 1
  BY <1>1
<1> QED
  BY <1>1, <1>2 DEF InstanceOf, Instance

LEMMA Verdicts ==
    /\ Latency \cup {0} \subseteq -1 .. 2
    /\ \A i : Measured(i) \subseteq 0 .. 2 /\ \A latency \in Measured(i) : latency > 0 => carries[i] > 0
BY DEF Latency, Measured

\* A region is in one place: counted as the property counts it.
LEMMA RegionsFollow ==
    ASSUME JobsInv
    PROVE  RegionsAccounted
<1> USE DEF JobsInv
<1>1. ASSUME NEW t \in Target
      PROVE  Cardinality({r \in Thread : t \in batches[r]}
                         \cup (IF t \in buffer THEN {"buffer"} ELSE {}))
             = IF fate[t] = "resolved" THEN 1 ELSE 0
  <2> DEFINE H == {r \in Thread : t \in batches[r]} \cup (IF t \in buffer THEN {"buffer"} ELSE {})
  <2>1. CASE fate[t] # "resolved"
    <3>1. H = {}
      BY <2>1 DEF HeldOnce
    <3> QED
      BY <2>1, <3>1, FS_EmptySet
  <2>2. CASE fate[t] = "resolved"
    <3>1. CASE t \in buffer
      <4>1. H = {"buffer"}
        BY <3>1 DEF HeldOnce
      <4> QED
        BY <2>2, <4>1, FS_Singleton
    <3>2. CASE t \notin buffer
      <4>1. PICK r \in Thread : t \in batches[r]
        BY <2>2, <3>2 DEF HeldOnce
      <4>2. H = {r}
        BY <3>2, <4>1 DEF HeldOnce
      <4> QED
        BY <2>2, <4>2, FS_Singleton
    <3> QED
      BY <3>1, <3>2
  <2> QED
    BY <2>1, <2>2
<1>2. ASSUME job.report = "resolved", NEW t \in Target
      PROVE  fate[t] \in {"written", "lost", "unresolved"}
                         \cup (IF job.cancelled THEN {"queued"} ELSE {})
  <2>1. /\ buffer = {} /\ \A r \in Thread : resolver[r] = Nothing
        /\ job.cancelled \/ Queue = {}
    BY <1>2 DEF MainWaits, LookupEnded, Thread
  <2>2. \A r \in Thread : batches[r] = {} /\ resolver[r].at # "fetch"
    BY <2>1 DEF TakenByOne, Nothing
  <2>3. fate[t] # "resolved" /\ fate[t] # "taken"
    BY <2>1, <2>2 DEF HeldOnce, TakenByOne
  <2>4. fate[t] \in Fate
    BY DEF JobsTyped
  <2> QED
    BY <2>1, <2>3, <2>4 DEF Fate, Queue
<1> QED
  BY <1>1, <1>2 DEF RegionsAccounted

-----------------------------------------------------------------------------
(* The invariant holds at the start.                                        *)

LEMMA JobsInitially == JobsInit => JobsInv
<1> SUFFICES ASSUME JobsInit PROVE JobsInv
  OBVIOUS
<1> USE JobsAssumption DEF JobsInit
<1>1. JobsTypeOK
  BY DEF JobsTypeOK, Candidate, Nothing
<1>2. JobsTyped
  BY DEF JobsTyped, FinderRecord, ResolverState, Fate, Nothing
<1>3. OneJob /\ SearchIsOpen /\ FoundWorks
  BY DEF OneJob, SearchIsOpen, FoundWorks, Candidate
<1>4. HeldOnce /\ TakenByOne /\ MainWaits
  BY DEF HeldOnce, TakenByOne, MainWaits, LookupEnded, Thread, Nothing, Queue
<1> QED
  BY <1>1, <1>2, <1>3, <1>4 DEF JobsInv

\* What the search leaves alone.
LEMMA LookupKept ==
    ASSUME JobsInv, UNCHANGED <<resolver, buffer, batches, fate>>,
           job'.report = "resolved" <=> job.report = "resolved",
           job.cancelled => job'.cancelled
    PROVE  HeldOnce' /\ TakenByOne' /\ MainWaits'
<1>1. HeldOnce' /\ TakenByOne'
  BY DEF JobsInv, HeldOnce, TakenByOne
<1> QED
  BY <1>1 DEF JobsInv, MainWaits, LookupEnded, Queue

\* What everything but the search leaves alone.
LEMMA SearchKept ==
    ASSUME JobsInv, UNCHANGED <<finder, carries, verdict>>, job'.kind = job.kind,
           job.report = "cancelled" => job'.report = "cancelled"
    PROVE  SearchIsOpen' /\ FoundWorks'
BY DEF JobsInv, SearchIsOpen, FoundWorks

-----------------------------------------------------------------------------
(* The monitor, the user, and the steps of the search.                      *)

LEMMA OutsideStep ==
    ASSUME JobsInv, MonitorRound \/ RestartMonitor \/ CancelJob
    PROVE  JobsInv'
<1> USE JobsAssumption DEF JobsInv
<1>1. UNCHANGED <<finder, carries, verdict, resolver, buffer, batches, fate, mishaps>>
  BY DEF MonitorRound, RestartMonitor, CancelJob
<1>2. job' = job \/ job' = [job EXCEPT !.cancelled = TRUE]
  BY DEF MonitorRound, RestartMonitor, CancelJob
<1>3. /\ job'.kind = job.kind /\ job'.report = job.report
      /\ job.cancelled => job'.cancelled
  BY <1>2 DEF JobsTyped
<1>4. monitor' \in [enabled : BOOLEAN, connected : BOOLEAN]
  <2>1. \A ok, failed, probed : majorityVerdict(ok, failed, probed) \in BOOLEAN
    BY DEF majorityVerdict
  <2> HIDE DEF JobsInv
  <2>2. monitor \in [enabled : BOOLEAN, connected : BOOLEAN]
    BY DEF JobsInv, JobsTypeOK
  <2>3. CASE MonitorRound
    BY <2>1, <2>2, <2>3 DEF MonitorRound, Round
  <2>4. CASE RestartMonitor
    BY <2>1, <2>4 DEF RestartMonitor
  <2>5. CASE CancelJob
    BY <2>2, <2>5 DEF CancelJob
  <2> QED
    BY <2>3, <2>4, <2>5
<1>5. JobsTypeOK'
  BY <1>1, <1>3, <1>4 DEF JobsTypeOK
<1>6. JobsTyped' /\ OneJob'
  BY <1>1, <1>2, <1>3 DEF JobsTyped, OneJob
<1> QED
  BY <1>1, <1>3, <1>5, <1>6, LookupKept, SearchKept

LEMMA Injecting ==
    ASSUME JobsInv, NEW c \in Candidate, NEW then, NEW else, Inject(c, then, else)
    PROVE  /\ carries' \in [Instance -> -1 .. Candidates]
           /\ \/ finder' = then /\ carries'[InstanceOf(c)] = c
              \/ finder' = else
<1>1. InstanceOf(c) \in Instance /\ c \in -1 .. Candidates /\ {0, -1} \subseteq -1 .. Candidates
  BY InstancesInTurn, JobsAssumption DEF Candidate
<1>2. carries \in [Instance -> -1 .. Candidates]
  BY DEF JobsInv, JobsTypeOK
<1> QED
  BY <1>1, <1>2 DEF Inject

LEMMA InjectStep ==
    ASSUME JobsInv, InjectCandidate
    PROVE  JobsInv'
<1> USE JobsAssumption DEF JobsInv
<1> DEFINE n == finder.n
<1>1. n \in Candidate /\ n \in Nat /\ n + 1 \in 1 .. Candidates + 1
  BY DEF InjectCandidate, Searching, JobsTyped, FinderRecord, Candidate
<1>2. /\ carries' \in [Instance -> -1 .. Candidates]
      /\ \/ finder' = [finder EXCEPT !.at = "test"] /\ carries'[InstanceOf(n)] = n
         \/ finder' = [finder EXCEPT !.n = @ + 1]
  BY <1>1, Injecting DEF InjectCandidate
<1>3. UNCHANGED <<job, verdict, mishaps, monitor, resolver, buffer, batches, fate>>
  BY DEF InjectCandidate, FinderUnchanged
<1>4. finder.at = "inject"
  BY DEF InjectCandidate, Searching
<1>5. finder' \in FinderRecord
  BY <1>1, <1>2 DEF JobsTyped, FinderRecord
<1>6. JobsTypeOK' /\ JobsTyped' /\ OneJob'
  BY <1>2, <1>3, <1>4, <1>5 DEF JobsTypeOK, JobsTyped, OneJob, FinderRecord
<1>7. finder'.at # "done"
  BY <1>2, <1>4 DEF JobsTyped, FinderRecord
<1>8. SearchIsOpen'
  BY <1>1, <1>2, <1>3, <1>4 DEF SearchIsOpen, JobsTyped, FinderRecord, Candidate
<1>9. FoundWorks'
  BY <1>7 DEF FoundWorks
<1> QED
  BY <1>3, <1>6, <1>8, <1>9, LookupKept

LEMMA TestStep ==
    ASSUME JobsInv, TestCandidate
    PROVE  JobsInv'
<1> USE JobsAssumption DEF JobsInv
<1> DEFINE n == finder.n
           i == InstanceOf(n)
<1>1. n \in Candidate /\ n \in Nat /\ n + 1 \in 1 .. Candidates + 1 /\ i \in Instance
      /\ n \in 0 .. Candidates /\ i \in 0 .. Instances
  BY InstancesInTurn DEF TestCandidate, SearchIsOpen, Candidate, Instance
<1>2. UNCHANGED <<job, carries, mishaps, monitor, resolver, buffer, batches, fate>>
      /\ finder.at = "test"
  BY DEF TestCandidate, FinderUnchanged
<1>3. PICK latency \in Measured(i) :
         /\ verdict' = [verdict EXCEPT ![n] = latency]
         /\ finder' = IF latency > 0 /\ job.kind = "first"
                      THEN [finder EXCEPT !.at = "done", !.result = n, !.ports = i]
                      ELSE [finder EXCEPT !.at = "inject", !.n = @ + 1,
                                          !.working = IF latency > 0 THEN @ \cup {n} ELSE @]
  BY DEF TestCandidate
<1>4. latency \in 0 .. 2 /\ (latency > 0 => carries[i] = n)
  <2>1. latency > 0 => carries[i] > 0
    BY <1>3, Verdicts
  <2>2. carries[i] \in {n, -1}
    BY <1>2 DEF SearchIsOpen
  <2> QED
    BY <1>3, <2>1, <2>2, Verdicts
<1>5. verdict' \in [Candidate -> -1 .. 2] /\ verdict'[n] = latency
      /\ \A c \in Candidate \ {n} : verdict'[c] = verdict[c]
  BY <1>1, <1>3, <1>4 DEF JobsTypeOK
<1>6. finder' \in FinderRecord
  BY <1>1, <1>3 DEF JobsTyped, FinderRecord
<1>7. JobsTypeOK' /\ JobsTyped' /\ OneJob'
  BY <1>2, <1>5, <1>6 DEF JobsTypeOK, JobsTyped, OneJob, FinderRecord
<1>8. /\ finder.result = 0 /\ finder.ports = 0
      /\ \A c \in Candidate : c >= finder.n => verdict[c] = -1
      /\ finder.working = {c \in Candidate : verdict[c] > 0}
      /\ job.kind = "first" => finder.working = {}
  BY <1>2 DEF SearchIsOpen
<1>9. CASE latency > 0 /\ job.kind = "first"
  <2>1. finder' = [finder EXCEPT !.at = "done", !.result = n, !.ports = i]
    BY <1>3, <1>9
  <2>2. finder'.at = "done" /\ finder'.result = n /\ finder'.ports = i
    BY <2>1 DEF JobsTyped, FinderRecord
  <2>3. SearchIsOpen'
    BY <2>2 DEF SearchIsOpen
  <2>4. \A c \in Candidate : verdict'[c] > 0 => c = n
    BY <1>5, <1>8, <1>9
  <2>5. FoundWorks'
    BY <1>1, <1>2, <1>4, <1>5, <1>9, <2>2, <2>4 DEF FoundWorks, Candidate
  <2> QED
    BY <1>2, <1>7, <2>3, <2>5, LookupKept
<1>10. CASE ~(latency > 0 /\ job.kind = "first")
  <2>1. finder' = [finder EXCEPT !.at = "inject", !.n = @ + 1,
                                 !.working = IF latency > 0 THEN @ \cup {n} ELSE @]
    BY <1>3, <1>10
  <2>2. /\ finder'.at = "inject" /\ finder'.n = n + 1
        /\ finder'.result = 0 /\ finder'.ports = 0
        /\ finder'.working = IF latency > 0 THEN finder.working \cup {n} ELSE finder.working
    BY <1>8, <2>1 DEF JobsTyped, FinderRecord
  <2>3. \A c \in Candidate : c >= n + 1 => verdict'[c] = -1
    BY <1>1, <1>5, <1>8 DEF Candidate
  <2>4. finder'.working = {c \in Candidate : verdict'[c] > 0}
    BY <1>1, <1>4, <1>5, <1>8, <2>2
  <2>5. SearchIsOpen' /\ FoundWorks'
    BY <1>2, <1>8, <1>10, <2>2, <2>3, <2>4 DEF SearchIsOpen, FoundWorks
  <2> QED
    BY <1>2, <1>7, <2>5, LookupKept
<1> QED
  BY <1>9, <1>10

LEMMA SearchBegins ==
    ASSUME JobsInv, NEW kind \in {"first", "best"}, StartSearch(kind)
    PROVE  JobsInv'
<1> USE JobsAssumption DEF JobsInv
<1>1. UNCHANGED <<carries, verdict, mishaps, monitor, resolver, buffer, batches, fate>>
      /\ job.kind = "none" /\ finder' = [finder EXCEPT !.at = "inject"]
  BY DEF StartSearch, FinderUnchanged
<1>2. PICK watched \in BOOLEAN : job' = [job EXCEPT !.kind = kind, !.watched = watched]
  BY DEF StartSearch
<1>3. /\ job'.kind = kind /\ job'.report = job.report /\ job'.cancelled = job.cancelled
  BY <1>2 DEF JobsTyped
<1>4. JobsTypeOK' /\ JobsTyped' /\ OneJob'
  BY <1>1, <1>2, <1>3 DEF JobsTypeOK, JobsTyped, OneJob, FinderRecord
<1>5. finder.at = "off" /\ finder'.at = "inject"
  BY <1>1 DEF OneJob, JobsTyped, FinderRecord
<1>6. SearchIsOpen' /\ FoundWorks'
  BY <1>1, <1>5 DEF SearchIsOpen, FoundWorks, JobsTyped, FinderRecord
<1> QED
  BY <1>1, <1>3, <1>4, <1>6, LookupKept

\* The search is broken off, or finds nothing.
LEMMA SearchFails ==
    ASSUME JobsInv, StopSearch \/ NothingFound
    PROVE  JobsInv'
<1> USE JobsAssumption DEF JobsInv
<1>1. UNCHANGED <<job, carries, verdict, mishaps, monitor, resolver, buffer, batches, fate>>
      /\ finder.at = "inject"
  BY DEF StopSearch, NothingFound, FinderUnchanged, Searching
<1>2. \/ finder' = [finder EXCEPT !.at = "aborted"]
      \/ finder' = [finder EXCEPT !.at = "done"] /\ finder.working = {}
  BY DEF StopSearch, NothingFound
<1>3. JobsTypeOK' /\ JobsTyped' /\ OneJob'
  BY <1>1, <1>2 DEF JobsTypeOK, JobsTyped, OneJob, FinderRecord
<1>4. finder.result = 0 /\ finder.ports = 0 /\ finder.working = {c \in Candidate : verdict[c] > 0}
  BY <1>1 DEF SearchIsOpen
<1>5. SearchIsOpen'
  BY <1>1, <1>2 DEF SearchIsOpen, JobsTyped, FinderRecord
<1>6. FoundWorks'
  <2>1. CASE finder' = [finder EXCEPT !.at = "aborted"]
    BY <2>1 DEF FoundWorks, JobsTyped, FinderRecord
  <2>2. CASE finder' = [finder EXCEPT !.at = "done"] /\ finder.working = {}
    <3>1. \A c \in Candidate : verdict[c] \in -1 .. 2 /\ ~(verdict[c] > 0)
      BY <1>4, <2>2 DEF JobsTypeOK
    <3>2. finder'.result = 0 /\ finder'.ports = 0
      BY <1>4, <2>2 DEF JobsTyped, FinderRecord
    <3> QED
      BY <1>1, <3>1, <3>2 DEF FoundWorks
  <2> QED
    BY <1>2, <2>1, <2>2
<1> QED
  BY <1>1, <1>3, <1>5, <1>6, LookupKept

LEMMA ReinjectStep ==
    ASSUME JobsInv, ReinjectFastest
    PROVE  JobsInv'
<1> USE JobsAssumption DEF JobsInv
<1>1. UNCHANGED <<job, verdict, mishaps, monitor, resolver, buffer, batches, fate>>
      /\ finder.at = "inject" /\ finder.working # {}
  BY DEF ReinjectFastest, FinderUnchanged
<1>2. finder.result = 0 /\ finder.ports = 0 /\ finder.working = {c \in Candidate : verdict[c] > 0}
  BY <1>1 DEF SearchIsOpen
<1> DEFINE Chosen(c) == [finder EXCEPT !.at = "done", !.result = c]
<1>3. PICK c \in Fastest :
         Inject(c, [Chosen(c) EXCEPT !.ports = InstanceOf(c)], Chosen(c))
  BY DEF ReinjectFastest
<1>4. /\ c \in Candidate /\ c \in 0 .. Candidates /\ c # 0 /\ verdict[c] > 0
      /\ \A d \in Candidate : verdict[d] > 0 => verdict[c] <= verdict[d]
  BY <1>2, <1>3 DEF Fastest, Candidate
<1>5. InstanceOf(c) \in Instance /\ InstanceOf(c) \in 0 .. Instances
  BY <1>4, InstancesInTurn DEF Instance
<1>6. /\ carries' \in [Instance -> -1 .. Candidates]
      /\ \/ finder' = [Chosen(c) EXCEPT !.ports = InstanceOf(c)] /\ carries'[InstanceOf(c)] = c
         \/ finder' = Chosen(c)
  <2> HIDE DEF JobsInv, Chosen
  <2> QED
    BY <1>3, <1>4, Injecting
<1>7. finder' \in FinderRecord
  BY <1>4, <1>5, <1>6 DEF JobsTyped, FinderRecord
<1>8. /\ finder'.at = "done" /\ finder'.result = c
      /\ finder'.ports # 0 => carries'[finder'.ports] = c
  BY <1>2, <1>6 DEF JobsTyped, FinderRecord
<1>9. JobsTypeOK' /\ JobsTyped' /\ OneJob'
  BY <1>1, <1>6, <1>7 DEF JobsTypeOK, JobsTyped, OneJob, FinderRecord
<1>10. SearchIsOpen' /\ FoundWorks'
  BY <1>1, <1>4, <1>8 DEF SearchIsOpen, FoundWorks
<1> QED
  BY <1>1, <1>9, <1>10, LookupKept

LEMMA SearchReported ==
    ASSUME JobsInv, ReportSearch
    PROVE  JobsInv'
<1> USE JobsAssumption DEF JobsInv
<1>1. UNCHANGED <<finder, verdict, mishaps, monitor, resolver, buffer, batches, fate>>
      /\ finder.at \in {"done", "aborted"} /\ job.report = "none"
  BY DEF ReportSearch, FinderUnchanged
<1>2. PICK said \in {"cancelled", "found", "notfound"} :
         job' = [job EXCEPT !.report = said] /\ (job.cancelled => said = "cancelled")
  BY DEF ReportSearch
<1>3. job'.report = said /\ job'.kind = job.kind /\ job'.cancelled = job.cancelled
  BY <1>2 DEF JobsTyped
<1>4. \/ carries' = carries
      \/ carries' = [i \in Instance |-> -1] /\ job.cancelled
  BY DEF ReportSearch
<1>5. JobsTypeOK' /\ JobsTyped' /\ OneJob'
  BY <1>1, <1>2, <1>3, <1>4 DEF JobsTypeOK, JobsTyped, OneJob
<1>6. SearchIsOpen' /\ FoundWorks'
  BY <1>1, <1>2, <1>3, <1>4 DEF SearchIsOpen, FoundWorks
<1> QED
  BY <1>1, <1>3, <1>5, <1>6, LookupKept

LEMMA InstanceLost ==
    ASSUME JobsInv, NEW i \in Instance, InstanceDies(i)
    PROVE  JobsInv'
<1> USE JobsAssumption DEF JobsInv
<1>1. UNCHANGED <<job, finder, verdict, monitor, resolver, buffer, batches, fate>>
      /\ finder.at # "done" /\ mishaps' = mishaps + 1 /\ mishaps < MaxMishaps
      /\ carries' = [carries EXCEPT ![i] = -1]
  BY DEF InstanceDies, FinderUnchanged
<1>2. JobsTypeOK' /\ JobsTyped' /\ OneJob'
  BY <1>1 DEF JobsTypeOK, JobsTyped, OneJob
<1>3. \A j \in Instance : carries'[j] \in {carries[j], -1}
  BY <1>1 DEF JobsTypeOK
<1>4. SearchIsOpen' /\ FoundWorks'
  BY <1>1, <1>3, InstancesInTurn DEF SearchIsOpen, FoundWorks
<1> QED
  BY <1>1, <1>2, <1>4, LookupKept

-----------------------------------------------------------------------------
(* The steps of the lookup.                                                 *)

\* At least one thread is started, for at least one profile.
LEMMA SomebodyStarts ==
    ASSUME Queue # {}, NEW rs \in SUBSET Resolver,
           Cardinality(rs) = Min({Targets, Cardinality(Resolver)})
    PROVE  rs # {}
<1>1. Targets \in Nat /\ Targets > 0
  BY JobsAssumption DEF Queue, Target
<1>2. Cardinality(Resolver) \in Nat /\ Cardinality(Resolver) # 0
  BY JobsAssumption, FS_CardinalityType, FS_EmptySet
<1>3. Min({Targets, Cardinality(Resolver)}) \in {Targets, Cardinality(Resolver)}
  BY <1>1, <1>2, MinOfNats
<1> QED
  BY <1>1, <1>2, <1>3, FS_EmptySet

LEMMA LookupBegins ==
    ASSUME JobsInv, StartLookup
    PROVE  JobsInv'
<1> USE JobsAssumption DEF JobsInv
<1>1. UNCHANGED <<buffer, batches, fate, mishaps, monitor, finder, carries, verdict>>
      /\ job.kind = "none" /\ Queue # {}
  BY DEF StartLookup, ResolverUnchanged
<1>2. PICK watched \in BOOLEAN : job' = [job EXCEPT !.kind = "regions", !.watched = watched]
  BY DEF StartLookup
<1>3. PICK rs \in SUBSET Resolver :
         /\ Cardinality(rs) = Min({Targets, Cardinality(Resolver)})
         /\ resolver' = [r \in Thread |-> IF r \in rs THEN [at |-> "loop"]
                                          ELSE IF r = "main" THEN [at |-> "join"]
                                          ELSE Nothing]
  BY DEF StartLookup
<1>4. rs # {}
  BY <1>1, <1>3, SomebodyStarts
<1>5. /\ job'.kind = "regions" /\ job'.report = job.report /\ job'.report # "resolved"
      /\ job'.cancelled = job.cancelled
  BY <1>1, <1>2 DEF JobsTyped, OneJob
<1>6. \A r \in Thread : resolver[r] = Nothing
  BY <1>1 DEF OneJob
<1>7. /\ \A r \in Thread : resolver'[r] \in {[at |-> "loop"], [at |-> "join"], [at |-> "off"]}
      /\ resolver'["main"] = [at |-> "join"]
      /\ \A r \in Resolver : resolver'[r] \in {[at |-> "loop"], [at |-> "off"]}
      /\ \E r \in Resolver : resolver'[r] = [at |-> "loop"]
  BY <1>3, <1>4 DEF Thread, Nothing
<1>8. resolver' \in [Thread -> ResolverState]
  BY <1>3, <1>7 DEF ResolverState
<1>9. \A r \in Thread : batches[r] = {} /\ resolver'[r].at \notin {"fetch", "write"}
  BY <1>6, <1>7 DEF TakenByOne, Nothing
<1>10. \A t \in Target : fate[t] # "taken"
  BY <1>6 DEF TakenByOne, Nothing
<1>11. JobsTypeOK'
  BY <1>1, <1>5, <1>7 DEF JobsTypeOK
<1>12. JobsTyped' /\ OneJob'
  BY <1>1, <1>2, <1>5, <1>8 DEF JobsTyped, OneJob
<1>13. HeldOnce' /\ TakenByOne'
  BY <1>1, <1>9, <1>10 DEF HeldOnce, TakenByOne
<1>14. MainWaits'
  BY <1>5, <1>7 DEF MainWaits, LookupEnded, Nothing
<1>15. SearchIsOpen' /\ FoundWorks'
  BY <1>1, <1>5 DEF SearchIsOpen, FoundWorks, OneJob
<1> QED
  BY <1>11, <1>12, <1>13, <1>14, <1>15

\* What every step of the lookup leaves alone.
LEMMA Lookup ==
    ASSUME JobsInv, ResolverUnchanged, job'.kind = job.kind,
           JobsTypeOK', JobsTyped', HeldOnce', TakenByOne', MainWaits',
           job.kind = "regions", job'.report = "resolved" => job'.kind = "regions"
    PROVE  JobsInv'
<1>1. SearchIsOpen' /\ FoundWorks'
  BY DEF JobsInv, OneJob, SearchIsOpen, FoundWorks, ResolverUnchanged
<1>2. OneJob'
  BY DEF JobsInv, OneJob, ResolverUnchanged
<1> QED
  BY <1>1, <1>2 DEF JobsInv

\* A thread that goes on, and the others.
LEMMA Moving ==
    ASSUME JobsInv, NEW r \in Thread, NEW at, Moves(r, at), resolver[r] # Nothing
    PROVE  /\ resolver'[r] = at /\ \A q \in Thread \ {r} : resolver'[q] = resolver[q]
           /\ at \in ResolverState => resolver' \in [Thread -> ResolverState]
           /\ job.kind = "regions"
BY DEF Moves, JobsInv, JobsTyped, OneJob

LEMMA StatesTyped ==
    /\ \A at \in {"off", "loop", "flush", "write", "join", "report"} : [at |-> at] \in ResolverState
    /\ \A t \in Target : [at |-> "fetch", target |-> t] \in ResolverState
    /\ \A s \in ResolverState : s.at = "fetch" => s.target \in Target
    /\ \A s \in ResolverState :
          s.at \in {"off", "loop", "fetch", "flush", "write", "join", "report"}
BY DEF ResolverState

LEMMA ThreadGone ==
    ASSUME JobsInv, NEW r \in Resolver, ThreadEnds(r)
    PROVE  JobsInv'
<1> USE JobsAssumption DEF JobsInv
<1>1. UNCHANGED <<buffer, batches, fate, mishaps>> /\ ResolverUnchanged
      /\ resolver[r].at = "loop" /\ r \in Thread /\ r # "main"
  BY DEF ThreadEnds, Thread
<1>2. /\ resolver'[r] = Nothing /\ \A q \in Thread \ {r} : resolver'[q] = resolver[q]
      /\ resolver' \in [Thread -> ResolverState] /\ job.kind = "regions"
  <2>1. Moves(r, Nothing) /\ resolver[r] # Nothing /\ Nothing \in ResolverState
    BY <1>1, StatesTyped DEF ThreadEnds, Nothing
  <2> QED
    BY <1>1, <2>1, Moving
<1>3. /\ job' = job \/ job' = [job EXCEPT !.cancelled = TRUE]
      /\ job'.cancelled \/ Queue = {}
  BY DEF ThreadEnds, JobsTyped
<1>4. /\ job'.kind = job.kind /\ job'.report = job.report
      /\ job.cancelled => job'.cancelled
  BY <1>3 DEF JobsTyped
<1>5. JobsTypeOK'
  BY <1>1, <1>2, <1>4, StatesTyped DEF JobsTypeOK, ResolverUnchanged
<1>6. JobsTyped'
  BY <1>1, <1>2, <1>3 DEF JobsTyped, ResolverUnchanged
<1>7. HeldOnce' /\ TakenByOne'
  <2>1. \A q \in Thread : resolver'[q].at = "fetch" =>
             q # r /\ resolver[q].at = "fetch" /\ resolver'[q] = resolver[q]
    BY <1>2 DEF Nothing
  <2>2. batches[r] = {} /\ \A q \in Thread : resolver[q].at = "fetch" =>
             q # r /\ resolver'[q] = resolver[q]
    BY <1>1, <1>2 DEF TakenByOne
  <2> QED
    BY <1>1, <1>2, <2>1, <2>2 DEF HeldOnce, TakenByOne
<1>8. MainWaits'
  <2>1. resolver'["main"] = resolver["main"] /\ Queue' = Queue /\ (LookupEnded' <=> LookupEnded)
    BY <1>1, <1>2, <1>4 DEF LookupEnded, Thread, Queue
  <2> QED
    BY <1>1, <1>2, <1>3, <1>4, <2>1 DEF MainWaits, Thread, Nothing, LookupEnded
<1> QED
  BY <1>1, <1>2, <1>4, <1>5, <1>6, <1>7, <1>8, Lookup

LEMMA TargetTaken ==
    ASSUME JobsInv, NEW r \in Resolver, TakeTarget(r)
    PROVE  JobsInv'
<1> USE JobsAssumption DEF JobsInv
<1> DEFINE t == Min(Queue)
<1>1. UNCHANGED <<job, buffer, batches, mishaps>> /\ ResolverUnchanged
      /\ resolver[r].at = "loop" /\ r \in Thread /\ r # "main" /\ Queue # {}
      /\ fate' = [fate EXCEPT ![t] = "taken"]
  BY DEF TakeTarget, Thread
<1>2. t \in Queue
  BY <1>1, MinOfNats DEF Queue, Target
<1>3. t \in Target /\ fate[t] = "queued"
  BY <1>2 DEF Queue
<1>4. /\ resolver'[r] = [at |-> "fetch", target |-> t]
      /\ \A q \in Thread \ {r} : resolver'[q] = resolver[q]
      /\ resolver' \in [Thread -> ResolverState] /\ job.kind = "regions"
  <2>1. Moves(r, [at |-> "fetch", target |-> t]) /\ resolver[r] # Nothing
    BY <1>1 DEF TakeTarget, Nothing
  <2>2. [at |-> "fetch", target |-> t] \in ResolverState
    BY <1>3, StatesTyped
  <2> QED
    BY <1>1, <2>1, <2>2, Moving
<1> HIDE DEF t
<1>5. fate' \in [Target -> Fate] /\ fate'[t] = "taken" /\ \A u \in Target \ {t} : fate'[u] = fate[u]
  BY <1>1, <1>3 DEF JobsTyped, Fate
<1>6. JobsTypeOK'
  BY <1>1, <1>4, StatesTyped DEF JobsTypeOK, ResolverUnchanged
<1>7. JobsTyped'
  BY <1>1, <1>4, <1>5 DEF JobsTyped, ResolverUnchanged
<1>8. HeldOnce'
  BY <1>1, <1>3, <1>5 DEF HeldOnce, JobsTypeOK
<1>9. TakenByOne'
  <2>1. \A q \in Thread : resolver'[q].at # "write" => batches'[q] = {}
    BY <1>1, <1>4 DEF TakenByOne
  <2>2. \A q \in Thread \ {r} : resolver[q].at = "fetch" =>
           resolver[q].target \in Target /\ fate[resolver[q].target] = "taken"
    BY StatesTyped DEF TakenByOne, JobsTyped
  <2>3. \A q \in Thread \ {r} : resolver[q].at = "fetch" => resolver[q].target # t
    BY <1>3, <2>2
  <2>4. ASSUME NEW q \in Thread, resolver'[q].at = "fetch"
        PROVE  /\ fate'[resolver'[q].target] = "taken"
               /\ \A p \in Thread : p # q /\ resolver'[p].at = "fetch" =>
                     resolver'[p].target # resolver'[q].target
    BY <1>4, <1>5, <2>2, <2>3, <2>4 DEF TakenByOne
  <2>5. ASSUME NEW u \in Target, fate'[u] = "taken"
        PROVE  \E q \in Thread : resolver'[q].at = "fetch" /\ resolver'[q].target = u
    <3>1. CASE u = t
      BY <1>1, <1>4, <3>1
    <3>2. CASE u # t
      <4>1. PICK q \in Thread : resolver[q].at = "fetch" /\ resolver[q].target = u
        BY <1>5, <2>5, <3>2 DEF TakenByOne
      <4> QED
        BY <1>1, <1>4, <4>1
    <3> QED
      BY <3>1, <3>2
  <2> QED
    BY <2>1, <2>4, <2>5 DEF TakenByOne
<1>10. MainWaits'
  <2>1. resolver'["main"] = resolver["main"] /\ Queue' \subseteq Queue /\ (LookupEnded' <=> LookupEnded)
    BY <1>1, <1>4, <1>5 DEF LookupEnded, Thread, Queue
  <2>2. ~LookupEnded
    BY <1>1 DEF MainWaits, Nothing
  <2> QED
    BY <1>1, <1>4, <2>1, <2>2 DEF MainWaits, Thread, Nothing, LookupEnded
<1> QED
  BY <1>1, <1>4, <1>6, <1>7, <1>8, <1>9, <1>10, Lookup DEF OneJob

LEMMA TargetFetched ==
    ASSUME JobsInv, NEW r \in Resolver, Fetch(r)
    PROVE  JobsInv'
<1> USE JobsAssumption DEF JobsInv
<1> DEFINE t == resolver[r].target
<1>1. UNCHANGED <<job, batches, mishaps>> /\ ResolverUnchanged
      /\ resolver[r].at = "fetch" /\ r \in Thread /\ r # "main"
  BY DEF Fetch, Thread
<1>2. t \in Target /\ fate[t] = "taken"
  BY <1>1, StatesTyped DEF TakenByOne, JobsTyped
<1>3. PICK outcome \in Outcome, at \in {"loop", "flush"} :
         /\ fate' = [fate EXCEPT ![t] = outcome]
         /\ buffer' = buffer \cup {u \in {t} : outcome = "resolved"}
         /\ Moves(r, [at |-> at])
  BY DEF Fetch
<1>4. /\ resolver'[r] = [at |-> at] /\ \A q \in Thread \ {r} : resolver'[q] = resolver[q]
      /\ resolver' \in [Thread -> ResolverState] /\ job.kind = "regions"
  <2>1. resolver[r] # Nothing /\ [at |-> at] \in ResolverState
    BY <1>1, StatesTyped DEF Nothing
  <2> QED
    BY <1>1, <1>3, <2>1, Moving
<1> HIDE DEF t
<1>5. outcome \in {"unresolved", "resolved"}
  BY DEF Outcome
<1>6. fate' \in [Target -> Fate] /\ fate'[t] = outcome /\ \A u \in Target \ {t} : fate'[u] = fate[u]
  BY <1>2, <1>3, <1>5 DEF JobsTyped, Fate
<1>7. /\ t \notin buffer /\ \A q \in Thread : t \notin batches[q]
      /\ \A q \in Thread \ {r} : resolver[q].at = "fetch" => resolver[q].target # t
  <2>1. \A q \in Thread \ {r} : resolver[q].at = "fetch" => resolver[q].target # t
    BY <1>1 DEF TakenByOne, t
  <2> QED
    BY <1>2, <2>1 DEF HeldOnce
<1>8. JobsTypeOK'
  BY <1>1, <1>2, <1>3, <1>4, StatesTyped DEF JobsTypeOK, ResolverUnchanged
<1>9. JobsTyped'
  BY <1>1, <1>4, <1>6 DEF JobsTyped, ResolverUnchanged
<1>10. HeldOnce'
  <2>1. CASE outcome = "resolved"
    <3>1. buffer' = buffer \cup {t}
      BY <1>3, <2>1
    <3> QED
      BY <1>1, <1>6, <1>7, <2>1, <3>1 DEF HeldOnce, JobsTypeOK
  <2>2. CASE outcome = "unresolved"
    <3>1. buffer' = buffer
      BY <1>3, <2>2
    <3> QED
      BY <1>1, <1>2, <1>6, <1>7, <2>2, <3>1 DEF HeldOnce, JobsTypeOK
  <2> QED
    BY <1>5, <2>1, <2>2
<1>11. TakenByOne'
  <2>1. \A q \in Thread : resolver'[q].at # "write" => batches'[q] = {}
    BY <1>1, <1>4 DEF TakenByOne
  <2>2. \A q \in Thread : resolver'[q].at = "fetch" =>
           /\ q # r /\ resolver'[q] = resolver[q] /\ resolver[q].target \in Target
           /\ resolver[q].target # t /\ fate'[resolver[q].target] = "taken"
    BY <1>3, <1>4, <1>6, <1>7, StatesTyped DEF TakenByOne, JobsTyped
  <2>3. ASSUME NEW u \in Target, fate'[u] = "taken"
        PROVE  \E q \in Thread : resolver'[q].at = "fetch" /\ resolver'[q].target = u
    <3>1. u # t /\ fate[u] = "taken"
      BY <1>5, <1>6, <2>3
    <3>2. PICK q \in Thread : resolver[q].at = "fetch" /\ resolver[q].target = u
      BY <3>1 DEF TakenByOne
    <3> QED
      BY <1>4, <3>1, <3>2 DEF t
  <2> QED
    BY <2>1, <2>2, <2>3 DEF TakenByOne
<1>12. MainWaits'
  <2>1. resolver'["main"] = resolver["main"] /\ Queue' = Queue /\ (LookupEnded' <=> LookupEnded)
    BY <1>1, <1>2, <1>4, <1>5, <1>6 DEF LookupEnded, Thread, Queue
  <2>2. ~LookupEnded
    BY <1>1 DEF MainWaits, Nothing
  <2> QED
    BY <1>1, <1>3, <1>4, <2>1, <2>2 DEF MainWaits, Thread, Nothing, LookupEnded
<1> QED
  BY <1>1, <1>4, <1>8, <1>9, <1>10, <1>11, <1>12, Lookup DEF OneJob

LEMMA BufferTaken ==
    ASSUME JobsInv, NEW r \in Thread, TakeBuffer(r)
    PROVE  JobsInv'
<1> USE JobsAssumption DEF JobsInv
<1>1. UNCHANGED <<job, fate, mishaps>> /\ ResolverUnchanged /\ resolver[r].at = "flush"
      /\ batches' = [batches EXCEPT ![r] = buffer] /\ buffer' = {}
  BY DEF TakeBuffer
<1>2. /\ resolver'[r] = [at |-> "write"] /\ \A q \in Thread \ {r} : resolver'[q] = resolver[q]
      /\ resolver' \in [Thread -> ResolverState] /\ job.kind = "regions"
  <2>1. Moves(r, [at |-> "write"]) /\ resolver[r] # Nothing /\ [at |-> "write"] \in ResolverState
    BY <1>1, StatesTyped DEF TakeBuffer, Nothing
  <2> QED
    BY <2>1, Moving
<1>3. /\ batches' \in [Thread -> SUBSET Target] /\ batches'[r] = buffer /\ batches[r] = {}
      /\ \A q \in Thread \ {r} : batches'[q] = batches[q]
  BY <1>1 DEF JobsTypeOK, TakenByOne
<1>4. JobsTypeOK'
  BY <1>1, <1>2, <1>3, StatesTyped DEF JobsTypeOK, ResolverUnchanged
<1>5. JobsTyped'
  BY <1>1, <1>2 DEF JobsTyped, ResolverUnchanged
<1>6. HeldOnce'
  <2>1. ASSUME NEW q \in Thread, NEW t \in batches'[q]
        PROVE  /\ fate[t] = "resolved"
               /\ \A p \in Thread : p # q => t \notin batches'[p]
    BY <1>3, <2>1 DEF HeldOnce
  <2>2. ASSUME NEW t \in Target, fate[t] = "resolved"
        PROVE  \E q \in Thread : t \in batches'[q]
    BY <1>3, <2>2 DEF HeldOnce
  <2> QED
    BY <1>1, <2>1, <2>2 DEF HeldOnce
<1>7. TakenByOne'
  <2>1. \A q \in Thread : (resolver'[q].at = "fetch" \/ resolver[q].at = "fetch") =>
           q # r /\ resolver'[q] = resolver[q]
    BY <1>1, <1>2
  <2> QED
    BY <1>1, <1>2, <1>3, <2>1 DEF TakenByOne
<1>8. MainWaits'
  <2>1. Queue' = Queue
    BY <1>1 DEF Queue
  <2>2. CASE r = "main"
    BY <1>1, <1>2, <2>1, <2>2 DEF MainWaits, Thread, Nothing, LookupEnded
  <2>3. CASE r \in Resolver
    <3>1. ~LookupEnded /\ r # "main"
      BY <1>1, <2>3 DEF MainWaits, Nothing
    <3>2. resolver'["main"] = resolver["main"] /\ (LookupEnded' <=> LookupEnded)
      BY <1>1, <1>2, <3>1 DEF LookupEnded, Thread
    <3> QED
      BY <1>1, <1>2, <2>1, <2>3, <3>1, <3>2 DEF MainWaits, Thread, Nothing, LookupEnded
  <2> QED
    BY <2>2, <2>3 DEF Thread
<1> QED
  BY <1>1, <1>2, <1>4, <1>5, <1>6, <1>7, <1>8, Lookup DEF OneJob

LEMMA BatchWritten ==
    ASSUME JobsInv, NEW r \in Thread, WriteBatch(r)
    PROVE  JobsInv'
<1> USE JobsAssumption DEF JobsInv
<1>1. UNCHANGED <<job, buffer>> /\ ResolverUnchanged /\ resolver[r].at = "write"
      /\ batches' = [batches EXCEPT ![r] = {}]
  BY DEF WriteBatch
<1>2. PICK outcome \in {"written", "lost"} :
         /\ outcome = "lost" => mishaps < MaxMishaps
         /\ mishaps' = IF outcome = "lost" THEN mishaps + 1 ELSE mishaps
         /\ fate' = [t \in Target |-> IF t \in batches[r] THEN outcome ELSE fate[t]]
  BY DEF WriteBatch
<1> DEFINE at == IF r = "main" THEN "report" ELSE "loop"
<1>3. /\ resolver'[r] = [at |-> at] /\ \A q \in Thread \ {r} : resolver'[q] = resolver[q]
      /\ resolver' \in [Thread -> ResolverState] /\ job.kind = "regions"
  <2>1. Moves(r, [at |-> at]) /\ resolver[r] # Nothing /\ [at |-> at] \in ResolverState
    BY <1>1, StatesTyped DEF WriteBatch, Nothing
  <2> QED
    BY <2>1, Moving
<1>4. /\ batches' \in [Thread -> SUBSET Target] /\ batches'[r] = {}
      /\ \A q \in Thread \ {r} : batches'[q] = batches[q]
  BY <1>1 DEF JobsTypeOK
<1>5. \A t \in Target : /\ t \in batches[r] => fate'[t] = outcome /\ fate[t] = "resolved"
                        /\ t \notin batches[r] => fate'[t] = fate[t]
  BY <1>2 DEF HeldOnce
<1>6. fate' \in [Target -> Fate]
  BY <1>2 DEF JobsTyped, Fate
<1>7. mishaps' \in 0 .. MaxMishaps
  BY <1>2 DEF JobsTypeOK
<1>8. JobsTypeOK'
  BY <1>1, <1>3, <1>4, <1>7, StatesTyped DEF JobsTypeOK, ResolverUnchanged
<1>9. JobsTyped'
  BY <1>1, <1>3, <1>6 DEF JobsTyped, ResolverUnchanged
<1>10. HeldOnce'
  <2>1. ASSUME NEW t \in buffer'
        PROVE  fate'[t] = "resolved" /\ \A q \in Thread : t \notin batches'[q]
    BY <1>1, <1>4, <1>5 DEF HeldOnce, JobsTypeOK
  <2>2. ASSUME NEW q \in Thread, NEW t \in batches'[q]
        PROVE  /\ fate'[t] = "resolved"
               /\ \A p \in Thread : p # q => t \notin batches'[p]
    BY <1>4, <1>5, <2>2 DEF HeldOnce, JobsTypeOK
  <2>3. ASSUME NEW t \in Target, fate'[t] = "resolved"
        PROVE  t \in buffer' \/ \E q \in Thread : t \in batches'[q]
    BY <1>1, <1>4, <1>5, <2>3 DEF HeldOnce
  <2> QED
    BY <2>1, <2>2, <2>3 DEF HeldOnce
<1>11. TakenByOne'
  <2>1. \A q \in Thread : (resolver'[q].at = "fetch" \/ resolver[q].at = "fetch") =>
           q # r /\ resolver'[q] = resolver[q]
    BY <1>1, <1>3
  <2>2. \A t \in Target : fate'[t] = "taken" <=> fate[t] = "taken"
    BY <1>5
  <2>3. \A q \in Thread : resolver[q].at = "fetch" => resolver[q].target \in Target
    BY StatesTyped DEF JobsTyped
  <2>4. \A q \in Thread : resolver'[q].at # "write" => batches'[q] = {}
    BY <1>3, <1>4 DEF TakenByOne
  <2> QED
    BY <1>1, <2>1, <2>2, <2>3, <2>4 DEF TakenByOne
<1>12. MainWaits'
  <2>1. Queue' = Queue
    BY <1>5 DEF Queue
  <2>2. CASE r = "main"
    BY <1>1, <1>3, <2>1, <2>2 DEF MainWaits, Thread, Nothing, LookupEnded
  <2>3. CASE r \in Resolver
    <3>1. ~LookupEnded /\ r # "main"
      BY <1>1, <2>3 DEF MainWaits, Nothing
    <3>2. resolver'["main"] = resolver["main"] /\ (LookupEnded' <=> LookupEnded)
      BY <1>1, <1>3, <3>1 DEF LookupEnded, Thread
    <3> QED
      BY <1>1, <1>3, <2>1, <2>3, <3>1, <3>2 DEF MainWaits, Thread, Nothing, LookupEnded
  <2> QED
    BY <2>2, <2>3 DEF Thread
<1> QED
  BY <1>1, <1>3, <1>8, <1>9, <1>10, <1>11, <1>12, Lookup DEF OneJob

\* The calling thread goes on when the others have ended, and reports.
LEMMA MainGoesOn ==
    ASSUME JobsInv, AllEnded \/ ReportLookup
    PROVE  JobsInv'
<1> USE JobsAssumption DEF JobsInv
<1>1. UNCHANGED <<buffer, batches, fate, mishaps>> /\ ResolverUnchanged
      /\ "main" \in Thread /\ resolver["main"].at \in {"join", "report"}
  BY DEF AllEnded, ReportLookup, Thread
<1>2. PICK at \in {"flush", "off"} : Moves("main", [at |-> at])
  BY DEF AllEnded, ReportLookup, Nothing
<1>3. /\ resolver'["main"] = [at |-> at] /\ \A q \in Resolver : resolver'[q] = resolver[q]
      /\ resolver' \in [Thread -> ResolverState] /\ job.kind = "regions"
  <2>1. resolver["main"] # Nothing /\ [at |-> at] \in ResolverState
    BY <1>1, StatesTyped DEF Nothing
  <2> QED
    BY <1>1, <1>2, <2>1, Moving DEF Thread
<1>4. /\ job' = job \/ job' = [job EXCEPT !.report = "resolved"]
      /\ job'.kind = job.kind /\ job'.cancelled = job.cancelled
  BY DEF AllEnded, ReportLookup, JobsTyped
<1>5. JobsTypeOK'
  BY <1>1, <1>3, <1>4, StatesTyped DEF JobsTypeOK, ResolverUnchanged
<1>6. JobsTyped'
  BY <1>1, <1>3, <1>4 DEF JobsTyped, ResolverUnchanged
<1>7. HeldOnce' /\ TakenByOne'
  <2>1. \A q \in Thread : (resolver'[q].at = "fetch" \/ resolver[q].at = "fetch") =>
           q # "main" /\ resolver'[q] = resolver[q]
    BY <1>1, <1>3 DEF Thread
  <2>2. \A q \in Thread : batches[q] # {} => resolver'[q].at = "write"
    BY <1>1, <1>3 DEF TakenByOne, Thread
  <2> QED
    BY <1>1, <2>1, <2>2 DEF HeldOnce, TakenByOne
<1>8. MainWaits'
  <2>1. Queue' = Queue
    BY <1>1 DEF Queue
  <2>2. CASE AllEnded
    <3>1. /\ resolver["main"].at = "join" /\ \A q \in Resolver : resolver[q] = Nothing
          /\ job' = job /\ resolver'["main"].at = "flush"
      BY <1>3, <2>2 DEF AllEnded, Moves, JobsTyped, Thread
    <3>2. job.report # "resolved" /\ (job.cancelled \/ Queue = {})
      BY <3>1 DEF MainWaits, Nothing
    <3> QED
      BY <1>1, <1>3, <2>1, <3>1, <3>2 DEF MainWaits, Nothing, LookupEnded
  <2>3. CASE ReportLookup
    <3>1. resolver["main"].at = "report" /\ resolver'["main"] = Nothing
      BY <1>3, <2>3 DEF ReportLookup, Moves, JobsTyped, Thread
    <3>2. /\ \A q \in Resolver : resolver'[q] = Nothing
          /\ job.cancelled \/ Queue = {}
          /\ buffer = {}
      BY <1>3, <3>1 DEF MainWaits, LookupEnded
    <3> QED
      BY <1>1, <1>4, <2>1, <3>1, <3>2 DEF MainWaits, Nothing, LookupEnded
  <2> QED
    BY <2>2, <2>3
<1> QED
  BY <1>1, <1>3, <1>4, <1>5, <1>6, <1>7, <1>8, Lookup DEF OneJob

-----------------------------------------------------------------------------
(* NetworkJobs: the theorems.                                               *)

LEMMA JobsInvStep == JobsInv /\ [JobsNext]_jobVars => JobsInv'
<1> SUFFICES ASSUME JobsInv, [JobsNext]_jobVars PROVE JobsInv'
  OBVIOUS
<1>1. CASE MonitorRound \/ RestartMonitor \/ CancelJob
  BY <1>1, OutsideStep
<1>2. CASE SearchStep
  BY <1>2, SearchBegins, InjectStep, TestStep, SearchFails, ReinjectStep, SearchReported,
     InstanceLost DEF SearchStep
<1>3. CASE LookupStep
  BY <1>3, LookupBegins, MainGoesOn, ThreadGone, TargetTaken, TargetFetched, BufferTaken,
     BatchWritten DEF LookupStep
<1>4. CASE UNCHANGED jobVars
  <2>1. JobsTypeOK' /\ JobsTyped' /\ OneJob'
    BY <1>4 DEF jobVars, JobsInv, JobsTypeOK, JobsTyped, OneJob
  <2> QED
    BY <1>4, <2>1, LookupKept, SearchKept DEF jobVars, JobsInv
<1> QED
  BY <1>1, <1>2, <1>3, <1>4 DEF JobsNext

LEMMA JobsInvAlways == JobsSpec => []JobsInv
BY JobsInitially, JobsInvStep, PTL DEF JobsSpec

\* Type correctness of the monitor, the search and the lookup.
THEOREM JobsTypeCorrect == JobsSpec => []JobsTypeOK
<1>1. JobsInv => JobsTypeOK
  BY DEF JobsInv
<1> QED
  BY <1>1, JobsInvAlways, PTL

\* Whatever a search or a lookup reports is true, for every number of candidates,
\* instances, profiles and threads: the ports that a search returns lead to the proxy
\* that it names, which no other that worked beats, and a lookup that has ended has
\* brought every region it found to the table, or lost it with a write that failed, and
\* has left no profile out unless it was cancelled
\* (ProxyFinder::findWorkingProxy(), findBestProxy(), RegionBatchResolver::run()).
THEOREM JobsReportTruthAlways == JobsSpec => []JobsReportTruth
<1>1. JobsInv => JobsReportTruth
  BY RegionsFollow DEF JobsInv, JobsReportTruth
<1> QED
  BY <1>1, JobsInvAlways, PTL

-----------------------------------------------------------------------------
(* Standalone: the inductive invariant.                                     *)

Session == [pid : Pid, open : BOOLEAN]

WatchRecord ==
    [pid : Pid, row : Nat, db : Nat, by : {"start", "sweep", "takeover"}, to : Pid \cup {0},
     next : [row : Nat, db : Nat], open : BOOLEAN,
     at : {"busy", "watching", "exited", "taking", "moved", "entered", "took", "notify",
           "finalize", "done", "lost"}]

SweepRecord ==
    [at : {"off", "scan", "bypass", "detect", "adopt", "register"}, todo : SUBSET Pid,
     pid : Pid \cup {0}, row : Nat, key : Nat]

Database == 1 .. MaxSwitches + 1

SaTyped ==
    /\ proc \in [Pid -> {"none", "alive", "dead"}]
    /\ entry \in [in : BOOLEAN, pid : Pid \cup {0}, running : BOOLEAN, row : Nat, key : Nat]
    /\ watchKey \in Nat /\ ours \subseteq Pid /\ db \in Database
    /\ rows \in [Database -> Seq(Session)]
    /\ watch \in Seq(WatchRecord)
    /\ ui \in [at : {"idle", "consent", "launch", "verify", "unready", "unverified",
                     "track", "kill", "erase", "join"}, pid : Pid \cup {0}, key : Nat]
    /\ sweep \in [Sweeper -> SweepRecord]
    /\ adoptInFlight \in BOOLEAN

\* The window's thread and the sweeps know the process they work on, and every key that
\* somebody holds is that of a watcher.
PidsAndKeys ==
    /\ ui.at \in {"verify", "unready", "unverified", "track"} => ui.pid \in Pid
    /\ \A s \in Sweeper :
          /\ sweep[s].at \in {"bypass", "detect", "adopt", "register"} => sweep[s].pid \in Pid
          /\ sweep[s].at = "register" <=> sweep[s].key # 0
          /\ sweep[s].key \in Key \cup {0}
    /\ entry.key \in Key \cup {0} /\ watchKey \in Key \cup {0}

\* The row that a watcher will close is one of its own process, and so is the row that a
\* takeover has noted for the next watcher.
Tracked(w, rs, d) ==
    /\ w.db \in 1 .. d /\ w.next.db \in 1 .. d
    /\ w.row \in DOMAIN rs[w.db] /\ rs[w.db][w.row].pid = w.pid
    /\ w.at \in {"moved", "entered"} => w.to \in Pid
    /\ w.at = "entered" =>
          /\ w.next.row \in DOMAIN rs[w.next.db] /\ rs[w.next.db][w.next.row].pid = w.to

\* Once a watcher has seen an exit, its process is dead.
Exited(w, ps) == w.at \notin {"busy", "watching", "lost"} => ps[w.pid] = "dead"

WatchersAreRight == \A k \in Key : Tracked(watch[k], rows, db) /\ Exited(watch[k], proc)

OneSweep ==
    /\ \A s, t \in Sweeper : sweep[s].at # "off" /\ sweep[t].at # "off" => s = t
    /\ \A s \in Sweeper : sweep[s].at # "off" => adoptInFlight

\* The sweeps adopt one process for each database: then somebody is registered, and stays
\* so until the database is switched.
Adopted(k) == watch[k].by = "sweep"

OneAdoption ==
    /\ \A j, k \in Key : Adopted(j) /\ Adopted(k) /\ watch[j].db = watch[k].db => j = k
    /\ \A s \in Sweeper : sweep[s].at = "adopt" => \A k \in Key : Adopted(k) => watch[k].db # db
    /\ \A k \in Key : Adopted(k) /\ watch[k].db = db =>
          watchKey # 0 \/ \E s \in Sweeper : sweep[s].at = "register"

SaInv == SaTyped /\ PidsAndKeys /\ WatchersAreRight /\ OneSweep /\ OneAdoption
         /\ LiveSessionStaysOpen

-----------------------------------------------------------------------------
(* Standalone: lemmas about the rows, the watchers and the sweeps.          *)

\* Rows are added, and keep their process.
RowsGrow(rs, rs2) ==
    \A d \in Database : \A r \in DOMAIN rs[d] :
        r \in DOMAIN rs2[d] /\ rs2[d][r].pid = rs[d][r].pid

DeadStay(ps, ps2) == \A p \in Pid : ps[p] = "dead" => ps2[p] = "dead"

\* No watcher of a sweep is new, and each keeps its database.
NoNewAdoption ==
    \A k \in Key' : watch'[k].by = "sweep" =>
        k \in Key /\ watch[k].by = "sweep" /\ watch'[k].db = watch[k].db

LEMMA WatchFacts ==
    ASSUME SaTyped
    PROVE  /\ Len(watch) \in Nat /\ Key = 1 .. Len(watch) /\ 0 \notin Key
           /\ \A k \in Key : watch[k] \in WatchRecord
<1>1. watch \in Seq(WatchRecord)
  BY DEF SaTyped
<1> QED
  BY <1>1, LenProperties, ElementOfSeq DEF Key

LEMMA DatabaseFacts ==
    ASSUME SaTyped
    PROVE  /\ db \in Nat /\ 1 .. db \subseteq Database /\ 1 \in Database
           /\ \A d \in Database : rows[d] \in Seq(Session)
BY StandaloneAssumption DEF SaTyped, Database

LEMMA StillTracked ==
    ASSUME NEW w \in WatchRecord, NEW rs, NEW rs2, NEW d \in Nat, NEW d2 \in Database,
           Tracked(w, rs, d), RowsGrow(rs, rs2), d <= d2
    PROVE  Tracked(w, rs2, d2)
<1>1. w.db \in Database /\ w.next.db \in Database /\ w.db \in 1 .. d2 /\ w.next.db \in 1 .. d2
  BY StandaloneAssumption DEF Tracked, Database
<1> QED
  BY <1>1 DEF Tracked, RowsGrow

LEMMA StillExited ==
    ASSUME NEW w \in WatchRecord, NEW ps, NEW ps2, Exited(w, ps), DeadStay(ps, ps2)
    PROVE  Exited(w, ps2)
BY DEF Exited, DeadStay, WatchRecord

\* A watcher stays right that does not change, or is right anew.
LEMMA WatchersKept ==
    ASSUME SaInv, db' \in Database, db <= db', RowsGrow(rows, rows'), DeadStay(proc, proc'),
           \A k \in Key' : \/ k \in Key /\ watch'[k] = watch[k]
                           \/ Tracked(watch'[k], rows', db') /\ Exited(watch'[k], proc')
    PROVE  WatchersAreRight'
<1>1. SaTyped /\ WatchersAreRight
  BY DEF SaInv
<1>2. ASSUME NEW k \in Key', k \in Key, watch'[k] = watch[k]
      PROVE  Tracked(watch'[k], rows', db') /\ Exited(watch'[k], proc')
  <2>1. /\ watch[k] \in WatchRecord /\ Tracked(watch[k], rows, db) /\ Exited(watch[k], proc)
        /\ db \in Nat
    BY <1>1, <1>2, WatchFacts, DatabaseFacts DEF WatchersAreRight
  <2>2. Tracked(watch[k], rows', db')
    BY <2>1, StillTracked
  <2>3. Exited(watch[k], proc')
    BY <2>1, StillExited
  <2> QED
    BY <1>2, <2>2, <2>3
<1> QED
  BY <1>2 DEF WatchersAreRight

\* Where no session is closed, none is closed too early.
LEMMA SessionsStayOpen ==
    ASSUME SaInv, SaTyped', db' = db, DeadStay(proc, proc'),
           \A r \in DOMAIN rows'[1] : \/ rows'[1][r].open
                                      \/ r \in DOMAIN rows[1] /\ rows'[1][r] = rows[1][r]
    PROVE  LiveSessionStaysOpen'
<1>1. SaTyped /\ LiveSessionStaysOpen
  BY DEF SaInv
<1>2. \A r \in DOMAIN rows[1] : rows[1][r].pid \in Pid
  <2>1. rows[1] \in Seq(Session)
    BY <1>1, DatabaseFacts
  <2>2. \A r \in DOMAIN rows[1] : rows[1][r] \in Session
    BY <2>1, ElementOfSeq, LenProperties
  <2> QED
    BY <2>2 DEF Session
<1> QED
  BY <1>1, <1>2 DEF LiveSessionStaysOpen, DeadStay

LEMMA AdoptionKept ==
    ASSUME SaInv, db' = db, NoNewAdoption, watchKey # 0 => watchKey' # 0,
           \A s \in Sweeper :
              /\ sweep'[s].at = "adopt" => sweep[s].at = "adopt"
              /\ sweep[s].at = "register" => sweep'[s].at = "register" \/ watchKey' # 0
    PROVE  OneAdoption'
<1>1. OneAdoption
  BY DEF SaInv
<1>2. \A k \in Key' : Adopted(k)' => k \in Key /\ Adopted(k) /\ watch'[k].db = watch[k].db
  BY DEF NoNewAdoption, Adopted
<1>3. \A j, k \in Key' : Adopted(j)' /\ Adopted(k)' /\ watch'[j].db = watch'[k].db => j = k
  BY <1>1, <1>2 DEF OneAdoption
<1>4. \A s \in Sweeper : sweep'[s].at = "adopt" =>
          \A k \in Key' : Adopted(k)' => watch'[k].db # db'
  BY <1>1, <1>2 DEF OneAdoption
<1>5. \A k \in Key' : Adopted(k)' /\ watch'[k].db = db' =>
          watchKey' # 0 \/ \E s \in Sweeper : sweep'[s].at = "register"
  <2> SUFFICES ASSUME NEW k \in Key', Adopted(k)', watch'[k].db = db', watchKey' = 0
               PROVE  \E s \in Sweeper : sweep'[s].at = "register"
    OBVIOUS
  <2>1. PICK s \in Sweeper : sweep[s].at = "register"
    BY <1>1, <1>2 DEF OneAdoption
  <2> QED
    BY <2>1
<1> QED
  BY <1>3, <1>4, <1>5 DEF OneAdoption, Adopted

\* A sweep that goes on, or ends with its flag, is the only one.
LEMMA SweepGoesOn ==
    ASSUME SaInv, NEW s \in Sweeper, NEW new \in SweepRecord,
           sweep' = [sweep EXCEPT ![s] = new], adoptInFlight' \in BOOLEAN,
           sweep[s].at # "off" \/ ~adoptInFlight,
           new.at # "off" => adoptInFlight'
    PROVE  /\ OneSweep' /\ sweep' \in [Sweeper -> SweepRecord] /\ sweep'[s] = new
           /\ \A t \in Sweeper \ {s} : sweep'[t] = sweep[t] /\ sweep[t].at = "off"
<1>1. sweep \in [Sweeper -> SweepRecord] /\ OneSweep
  BY DEF SaInv, SaTyped
<1>2. /\ sweep' \in [Sweeper -> SweepRecord] /\ sweep'[s] = new
      /\ \A t \in Sweeper \ {s} : sweep'[t] = sweep[t]
  BY <1>1
<1>3. \A t \in Sweeper \ {s} : sweep[t].at = "off"
  BY <1>1 DEF OneSweep
<1> QED
  BY <1>2, <1>3 DEF OneSweep

-----------------------------------------------------------------------------
(* Standalone: the steps.                                                   *)

LEMMA RowAdded ==
    ASSUME SaTyped, NEW p \in Pid, InsertStart(p)
    PROVE  /\ rows' \in [Database -> Seq(Session)] /\ RowsGrow(rows, rows')
           /\ NextRow \in Nat /\ NextRow \in DOMAIN rows'[db] /\ rows'[db][NextRow].pid = p
           /\ \A r \in DOMAIN rows'[1] : \/ rows'[1][r].open
                                         \/ r \in DOMAIN rows[1] /\ rows'[1][r] = rows[1][r]
<1> DEFINE e == [pid |-> p, open |-> TRUE]
           old == rows[db]
           new == Append(old, e)
<1>1. e \in Session /\ e.pid = p /\ e.open
  BY DEF Session
<1>2. rows \in [Database -> Seq(Session)] /\ db \in Database /\ old \in Seq(Session)
  BY DEF SaTyped
<1> HIDE DEF e
<1>3. /\ new \in Seq(Session) /\ Len(new) = Len(old) + 1 /\ new[Len(old) + 1] = e
      /\ \A r \in 1 .. Len(old) : new[r] = old[r]
  BY <1>1, <1>2, AppendProperties
<1>4. Len(old) \in Nat /\ DOMAIN old = 1 .. Len(old) /\ DOMAIN new = 1 .. Len(old) + 1
  BY <1>2, <1>3, LenProperties
<1>5. rows' = [rows EXCEPT ![db] = new]
  BY DEF InsertStart, e
<1>6. NextRow = Len(old) + 1
  BY DEF NextRow
<1> HIDE DEF new, old
<1>7. /\ rows' \in [Database -> Seq(Session)] /\ rows'[db] = new
      /\ \A d \in Database \ {db} : rows'[d] = rows[d]
  BY <1>2, <1>3, <1>5
<1>8. rows[db] = old
  BY DEF old
<1>9. \A r \in DOMAIN new : new[r].open \/ (r \in DOMAIN old /\ new[r] = old[r])
  BY <1>1, <1>3, <1>4
<1>10. 1 \in Database
  BY DatabaseFacts
<1>11. RowsGrow(rows, rows')
  <2>1. ASSUME NEW d \in Database, NEW r \in DOMAIN rows[d]
        PROVE  r \in DOMAIN rows'[d] /\ rows'[d][r].pid = rows[d][r].pid
    BY <1>3, <1>4, <1>7, <1>8
  <2> QED
    BY <2>1 DEF RowsGrow
<1>12. \A r \in DOMAIN rows'[1] : \/ rows'[1][r].open
                                  \/ r \in DOMAIN rows[1] /\ rows'[1][r] = rows[1][r]
  BY <1>7, <1>8, <1>9, <1>10
<1> QED
  BY <1>1, <1>3, <1>4, <1>6, <1>7, <1>11, <1>12

LEMMA WatcherAdded ==
    ASSUME SaTyped, NEW w \in WatchRecord, watch' = Append(watch, w)
    PROVE  /\ watch' \in Seq(WatchRecord) /\ Key' = Key \cup {Len(watch) + 1}
           /\ Len(watch) + 1 \notin Key /\ watch'[Len(watch) + 1] = w
           /\ Len(watch) + 1 \in Nat /\ Len(watch) + 1 # 0
           /\ \A k \in Key : watch'[k] = watch[k]
<1>1. watch \in Seq(WatchRecord) /\ Len(watch) \in Nat /\ Key = 1 .. Len(watch)
  BY WatchFacts DEF SaTyped
<1>2. /\ watch' \in Seq(WatchRecord) /\ Len(watch') = Len(watch) + 1
      /\ watch'[Len(watch) + 1] = w /\ \A k \in 1 .. Len(watch) : watch'[k] = watch[k]
  BY <1>1, AppendProperties
<1>3. Key' = 1 .. Len(watch) + 1
  BY <1>1, <1>2, LenProperties DEF Key
<1> QED
  BY <1>1, <1>2, <1>3

LEMMA NewIsTracked ==
    ASSUME NEW p, NEW r, NEW d \in Nat \ {0}, NEW by, NEW rs, NEW d2 \in Nat, NEW ps, d <= d2,
           r \in DOMAIN rs[d], rs[d][r].pid = p
    PROVE  Tracked(Watcher(p, r, d, by), rs, d2) /\ Exited(Watcher(p, r, d, by), ps)
BY DEF Tracked, Exited, Watcher

\* The watchers may change, but nobody adopts, and no sweep moves.
LEMMA SaMoves ==
    ASSUME SaInv, SaTyped', WatchersAreRight', LiveSessionStaysOpen', Key' = Key,
           UNCHANGED <<db, watchKey, sweep, adoptInFlight>>,
           entry'.key \in {entry.key, 0},
           ui'.at \in {"verify", "unready", "unverified", "track"} => ui'.pid \in Pid,
           \A k \in Key : watch'[k].by = watch[k].by /\ watch'[k].db = watch[k].db
    PROVE  SaInv'
<1>1. PidsAndKeys /\ OneSweep
  BY DEF SaInv
<1>2. PidsAndKeys'
  BY <1>1 DEF PidsAndKeys
<1>3. OneSweep'
  BY <1>1 DEF OneSweep
<1>4. NoNewAdoption
  BY DEF NoNewAdoption
<1>5. OneAdoption'
  BY <1>4, AdoptionKept
<1> QED
  BY <1>2, <1>3, <1>5 DEF SaInv

\* The window's thread and the processes, while neither the watchers nor the rows change.
LEMMA QuietStep ==
    ASSUME SaInv, SaTyped', DeadStay(proc, proc'),
           UNCHANGED <<rows, watch, db, watchKey, sweep, adoptInFlight>>,
           entry'.key \in {entry.key, 0},
           ui'.at \in {"verify", "unready", "unverified", "track"} => ui'.pid \in Pid
    PROVE  SaInv'
<1>1. SaTyped
  BY DEF SaInv
<1>2. Key' = Key
  BY DEF Key
<1>3. WatchersAreRight'
  <2>1. db' \in Database /\ db <= db'
    BY <1>1, DatabaseFacts DEF SaTyped
  <2>2. RowsGrow(rows, rows')
    BY DEF RowsGrow
  <2> QED
    BY <1>2, <2>1, <2>2, WatchersKept
<1>4. LiveSessionStaysOpen'
  BY SessionsStayOpen
<1> QED
  BY <1>2, <1>3, <1>4, SaMoves

\* startStandaloneProxy() up to the watcher, and the clicks.
LEMMA UiSteps ==
    ASSUME SaInv,
           \/ StartProxy \/ Consent \/ LaunchFails \/ Launch \/ Verify \/ GiveUp
           \/ LeaveUnmanaged \/ KeepUnverified \/ StopProxy \/ KillFails \/ Kill \/ JoinWatcher
    PROVE  SaInv'
<1>1. SaTyped /\ PidsAndKeys
  BY DEF SaInv
<1>2. /\ NoEntry \in [in : BOOLEAN, pid : Pid \cup {0}, running : BOOLEAN, row : Nat, key : Nat]
      /\ NoEntry.key = 0
  BY DEF NoEntry
<1>3. CASE StartProxy \/ LaunchFails \/ Verify \/ KeepUnverified \/ StopProxy \/ KillFails
           \/ JoinWatcher
  <2>1. UNCHANGED <<proc, entry, watchKey, ours, rows, db, watch, sweep, adoptInFlight>>
    BY <1>3 DEF StartProxy, LaunchFails, Verify, KeepUnverified, StopProxy, KillFails, JoinWatcher
  <2>2. /\ ui' \in [at : {"idle", "consent", "launch", "verify", "unready", "unverified",
                         "track", "kill", "erase", "join"}, pid : Pid \cup {0}, key : Nat]
        /\ ui'.at \in {"verify", "unready", "unverified", "track"} => ui'.pid \in Pid
    BY <1>1, <1>3 DEF StartProxy, LaunchFails, Verify, KeepUnverified, StopProxy, KillFails,
                      JoinWatcher, GoUi, Idle, SaTyped, PidsAndKeys
  <2>3. SaTyped' /\ DeadStay(proc, proc')
    BY <1>1, <2>1, <2>2 DEF SaTyped, DeadStay
  <2> QED
    BY <2>1, <2>2, <2>3, QuietStep
<1>4. CASE Consent \/ Kill
  <2>1. UNCHANGED <<entry, watchKey, ours, rows, db, watch, sweep, adoptInFlight>>
    BY <1>4 DEF Consent, Kill
  <2>2. /\ ui' \in [at : {"idle", "consent", "launch", "verify", "unready", "unverified",
                         "track", "kill", "erase", "join"}, pid : Pid \cup {0}, key : Nat]
        /\ ui'.at \in {"idle", "launch", "erase"}
    BY <1>1, <1>4 DEF Consent, Kill, GoUi, Idle, SaTyped
  <2>3. proc' \in [Pid -> {"none", "alive", "dead"}] /\ DeadStay(proc, proc')
    BY <1>1, <1>4 DEF Consent, Kill, DeadStay, SaTyped, Alive
  <2>4. SaTyped'
    BY <1>1, <2>1, <2>2, <2>3 DEF SaTyped
  <2> QED
    BY <2>1, <2>2, <2>3, <2>4, QuietStep
<1>5. CASE Launch
  <2>1. UNCHANGED <<watchKey, rows, db, watch, sweep, adoptInFlight>>
    BY <1>5 DEF Launch
  <2>2. PICK p \in Pid :
          /\ proc[p] = "none" /\ proc' = [proc EXCEPT ![p] = "alive"] /\ ours' = ours \cup {p}
          /\ entry' = [NoEntry EXCEPT !.in = TRUE, !.pid = p, !.running = TRUE]
          /\ ui' = [Idle EXCEPT !.at = "verify", !.pid = p]
    BY <1>5 DEF Launch
  <2>3. proc' \in [Pid -> {"none", "alive", "dead"}] /\ DeadStay(proc, proc')
    BY <1>1, <2>2 DEF DeadStay, SaTyped
  <2>4. /\ entry' \in [in : BOOLEAN, pid : Pid \cup {0}, running : BOOLEAN, row : Nat, key : Nat]
        /\ entry'.key = 0
    BY <2>2 DEF NoEntry
  <2>5. /\ ui' \in [at : {"idle", "consent", "launch", "verify", "unready", "unverified",
                         "track", "kill", "erase", "join"}, pid : Pid \cup {0}, key : Nat]
        /\ ui'.pid \in Pid
    BY <2>2 DEF Idle
  <2>6. SaTyped'
    BY <1>1, <2>1, <2>2, <2>3, <2>4, <2>5 DEF SaTyped
  <2> QED
    BY <2>1, <2>3, <2>4, <2>5, <2>6, QuietStep
<1>6. CASE GiveUp \/ LeaveUnmanaged
  <2>1. UNCHANGED <<watchKey, rows, db, watch, sweep, adoptInFlight>> /\ ui' = Idle
    BY <1>6 DEF GiveUp, LeaveUnmanaged
  <2>2. proc' \in [Pid -> {"none", "alive", "dead"}] /\ DeadStay(proc, proc') /\ ours' \subseteq Pid
    BY <1>1, <1>6 DEF GiveUp, LeaveUnmanaged, DeadStay, SaTyped
  <2>3. /\ entry' \in [in : BOOLEAN, pid : Pid \cup {0}, running : BOOLEAN, row : Nat, key : Nat]
        /\ entry'.key \in {entry.key, 0}
    BY <1>1, <1>2, <1>6 DEF GiveUp, LeaveUnmanaged, SaTyped
  <2>4. SaTyped'
    BY <1>1, <2>1, <2>2, <2>3 DEF SaTyped, Idle
  <2> QED
    BY <2>1, <2>2, <2>3, <2>4, QuietStep DEF Idle
<1> QED
  BY <1>3, <1>4, <1>5, <1>6

LEMMA ProcessSteps ==
    ASSUME SaInv, NEW p \in Pid, LaunchedElsewhere(p) \/ ProcessDies(p)
    PROVE  SaInv'
<1>1. SaTyped /\ PidsAndKeys
  BY DEF SaInv
<1>2. UNCHANGED <<entry, watchKey, ours, rows, db, watch, ui, sweep, adoptInFlight>>
  BY DEF LaunchedElsewhere, ProcessDies
<1>3. proc' \in [Pid -> {"none", "alive", "dead"}] /\ DeadStay(proc, proc')
  BY <1>1 DEF LaunchedElsewhere, ProcessDies, DeadStay, SaTyped
<1>4. SaTyped'
  BY <1>1, <1>2, <1>3 DEF SaTyped
<1> QED
  BY <1>1, <1>2, <1>3, <1>4, QuietStep DEF PidsAndKeys

\* Registers the new process with its watcher and its row.
LEMMA TrackStep == ASSUME SaInv, Track PROVE SaInv'
<1>1. SaTyped /\ PidsAndKeys /\ OneSweep
  BY DEF SaInv
<1> DEFINE p == ui.pid
           n == Len(watch) + 1
<1>2. /\ p \in Pid /\ InsertStart(p) /\ Watch(p, NextRow, "start") /\ watchKey' = n
      /\ entry' = [entry EXCEPT !.in = TRUE, !.row = NextRow, !.key = n]
      /\ ui' = Idle /\ UNCHANGED <<proc, ours, db, sweep, adoptInFlight>>
  BY <1>1 DEF Track, PidsAndKeys
<1>3. /\ rows' \in [Database -> Seq(Session)] /\ RowsGrow(rows, rows')
      /\ NextRow \in Nat /\ NextRow \in DOMAIN rows'[db] /\ rows'[db][NextRow].pid = p
      /\ \A r \in DOMAIN rows'[1] : \/ rows'[1][r].open
                                    \/ r \in DOMAIN rows[1] /\ rows'[1][r] = rows[1][r]
  BY <1>1, <1>2, RowAdded
<1>4. db \in Nat /\ db \in Nat \ {0} /\ db <= db /\ db' \in Database /\ db <= db'
  BY <1>1, <1>2, DatabaseFacts DEF SaTyped, Database
<1> DEFINE w == Watcher(p, NextRow, db, "start")
<1>5. /\ watch' \in Seq(WatchRecord) /\ Key' = Key \cup {n} /\ n \notin Key /\ watch'[n] = w
      /\ n \in Nat /\ n # 0 /\ \A k \in Key : watch'[k] = watch[k]
      /\ w.by = "start"
  <2>1. watch' = Append(watch, w)
    BY <1>2 DEF Watch
  <2>2. w \in WatchRecord /\ w.by = "start"
    BY <1>2, <1>3, <1>4 DEF Watcher, WatchRecord
  <2> HIDE DEF w
  <2> QED
    BY <1>1, <2>1, <2>2, WatcherAdded
<1>6. Tracked(w, rows', db) /\ Exited(w, proc)
  BY <1>3, <1>4, NewIsTracked
<1> HIDE DEF w, n
<1>7. /\ entry' \in [in : BOOLEAN, pid : Pid \cup {0}, running : BOOLEAN, row : Nat, key : Nat]
      /\ entry'.key = n
  BY <1>1, <1>2, <1>3, <1>5 DEF SaTyped
<1>8. SaTyped'
  BY <1>1, <1>2, <1>3, <1>5, <1>7 DEF SaTyped, Idle
<1>9. WatchersAreRight'
  <2>1. DeadStay(proc, proc')
    BY <1>2 DEF DeadStay
  <2> QED
    BY <1>2, <1>3, <1>4, <1>5, <1>6, <2>1, WatchersKept
<1>10. LiveSessionStaysOpen'
  BY <1>2, <1>3, <1>8, SessionsStayOpen DEF DeadStay
<1>11. OneAdoption'
  <2>1. NoNewAdoption
    BY <1>5 DEF NoNewAdoption
  <2> QED
    BY <1>2, <1>5, <2>1, AdoptionKept
<1>12. PidsAndKeys' /\ OneSweep'
  BY <1>1, <1>2, <1>5, <1>7 DEF PidsAndKeys, OneSweep, Idle
<1> QED
  BY <1>8, <1>9, <1>10, <1>11, <1>12 DEF SaInv

LEMMA SwitchStep == ASSUME SaInv, SwitchDatabase PROVE SaInv'
<1>1. SaTyped /\ PidsAndKeys /\ OneSweep /\ WatchersAreRight /\ OneAdoption
  BY DEF SaInv
<1>2. /\ db' = db + 1 /\ db <= MaxSwitches /\ entry' = NoEntry /\ watchKey' = 0
      /\ UNCHANGED <<proc, ours, rows, watch, ui, sweep, adoptInFlight>>
  BY DEF SwitchDatabase
<1>3. db \in Nat \ {0} /\ db' \in Database /\ db <= db' /\ db' # 1
  BY <1>1, <1>2, StandaloneAssumption DEF SaTyped, Database
<1>4. SaTyped'
  BY <1>1, <1>2, <1>3 DEF SaTyped, NoEntry
<1>5. Key' = Key
  BY <1>2 DEF Key
<1>6. PidsAndKeys' /\ OneSweep'
  BY <1>1, <1>2, <1>5 DEF PidsAndKeys, OneSweep, NoEntry
<1>7. WatchersAreRight'
  <2>1. RowsGrow(rows, rows') /\ DeadStay(proc, proc')
    BY <1>2 DEF RowsGrow, DeadStay
  <2> QED
    BY <1>2, <1>3, <1>5, <2>1, WatchersKept
<1>8. LiveSessionStaysOpen'
  BY <1>3 DEF LiveSessionStaysOpen
<1>9. \A k \in Key : watch'[k].db # db'
  <2>1. \A k \in Key : watch[k].db \in 1 .. db
    BY <1>1 DEF WatchersAreRight, Tracked
  <2> QED
    BY <1>2, <1>3, <2>1
<1>10. OneAdoption'
  BY <1>1, <1>2, <1>5, <1>9 DEF OneAdoption, Adopted
<1> QED
  BY <1>4, <1>6, <1>7, <1>8, <1>10 DEF SaInv

\* The watchers change, and none is added.
LEMMA StillASequence ==
    ASSUME SaTyped, watch' \in [Key -> WatchRecord]
    PROVE  watch' \in Seq(WatchRecord) /\ Key' = Key
<1>1. Len(watch) \in Nat /\ Key = 1 .. Len(watch)
  BY WatchFacts
<1>2. watch' \in Seq(WatchRecord)
  BY <1>1, IsASeq
<1>3. DOMAIN watch' = Key
  OBVIOUS
<1> QED
  BY <1>2, <1>3 DEF Key

\* stopStandaloneProxy() closes the handle that watchers may use.
LEMMA SessionClosing ==
    ASSUME SaTyped, NEW p
    PROVE  /\ Closed(p) \in [Key -> WatchRecord]
           /\ \A k \in Key : \/ Closed(p)[k] = watch[k]
                             \/ Closed(p)[k] = [watch[k] EXCEPT !.open = FALSE]
<1>1. \A k \in Key : watch[k] \in WatchRecord
  BY WatchFacts
<1>2. \A w \in WatchRecord : [w EXCEPT !.open = FALSE] \in WatchRecord
  BY DEF WatchRecord
<1> QED
  BY <1>1, <1>2 DEF Closed

\* What a watcher does to itself and to its handle leaves its process, its row and the
\* next row alone.
SameWatch(v, w) ==
    /\ v.pid = w.pid /\ v.row = w.row /\ v.db = w.db /\ v.by = w.by /\ v.next = w.next
    /\ v.to = w.to
    /\ v.at \in {"moved", "entered"} => v.at = w.at

LEMMA SameIsTracked ==
    ASSUME NEW v, NEW w, NEW rs, NEW d, SameWatch(v, w), Tracked(w, rs, d)
    PROVE  Tracked(v, rs, d)
BY DEF SameWatch, Tracked

\* Every step of one or more watchers that adds neither rows nor watchers.
LEMMA WatchersMove ==
    ASSUME SaInv, watch' \in [Key -> WatchRecord],
           UNCHANGED <<proc, watchKey, rows, db, sweep, adoptInFlight>>,
           entry' \in [in : BOOLEAN, pid : Pid \cup {0}, running : BOOLEAN, row : Nat, key : Nat],
           entry'.key \in {entry.key, 0}, ours' \subseteq Pid,
           ui' = ui \/ (ui' \in [at : {"join"}, pid : Pid \cup {0}, key : Nat]),
           \A k \in Key : SameWatch(watch'[k], watch[k]) /\ Exited(watch'[k], proc)
    PROVE  SaInv'
<1>1. SaTyped /\ PidsAndKeys /\ WatchersAreRight
  BY DEF SaInv
<1>2. watch' \in Seq(WatchRecord) /\ Key' = Key
  BY <1>1, StillASequence
<1>3. SaTyped'
  BY <1>1, <1>2 DEF SaTyped
<1>4. \A k \in Key : Tracked(watch'[k], rows, db)
  BY <1>1, SameIsTracked DEF WatchersAreRight
<1>5. WatchersAreRight'
  BY <1>2, <1>4 DEF WatchersAreRight
<1>6. LiveSessionStaysOpen'
  BY <1>3, SessionsStayOpen DEF DeadStay
<1>7. ui'.at \in {"verify", "unready", "unverified", "track"} => ui'.pid \in Pid
  BY <1>1 DEF PidsAndKeys
<1>8. \A k \in Key : watch'[k].by = watch[k].by /\ watch'[k].db = watch[k].db
  BY DEF SameWatch
<1> QED
  BY <1>2, <1>3, <1>5, <1>6, <1>7, <1>8, SaMoves

LEMMA EraseStep == ASSUME SaInv, EraseEntry PROVE SaInv'
<1>1. SaTyped /\ WatchersAreRight
  BY DEF SaInv
<1>2. /\ entry' = NoEntry /\ ours' \subseteq Pid /\ watch' = Closed(ui.pid)
      /\ ui' = [ui EXCEPT !.at = "join"]
      /\ UNCHANGED <<proc, watchKey, rows, db, sweep, adoptInFlight>>
  BY <1>1 DEF EraseEntry, GoUi, SaTyped
<1>3. /\ entry' \in [in : BOOLEAN, pid : Pid \cup {0}, running : BOOLEAN, row : Nat, key : Nat]
      /\ entry'.key = 0
  BY <1>2 DEF NoEntry
<1>4. ui' \in [at : {"join"}, pid : Pid \cup {0}, key : Nat]
  BY <1>1, <1>2 DEF SaTyped
<1>5. /\ watch' \in [Key -> WatchRecord]
      /\ \A k \in Key : watch'[k] = watch[k] \/ watch'[k] = [watch[k] EXCEPT !.open = FALSE]
  BY <1>1, <1>2, SessionClosing
<1>6. ASSUME NEW k \in Key PROVE SameWatch(watch'[k], watch[k]) /\ Exited(watch'[k], proc)
  <2>1. watch[k] \in WatchRecord /\ Exited(watch[k], proc)
    BY <1>1, WatchFacts DEF WatchersAreRight
  <2> QED
    BY <1>5, <2>1 DEF SameWatch, Exited, WatchRecord
<1> QED
  BY <1>2, <1>3, <1>4, <1>5, <1>6, WatchersMove

LEMMA WatcherSteps ==
    ASSUME SaInv, NEW k \in Key,
           \/ WatcherBeats(k) \/ WatcherWaits(k) \/ WatcherExits(k) \/ TakeoverChecks(k)
           \/ TakeoverFindsNone(k) \/ NotifyExit(k)
    PROVE  SaInv'
<1>1. SaTyped /\ WatchersAreRight
  BY DEF SaInv
<1>2. watch[k] \in WatchRecord /\ Exited(watch[k], proc) /\ watch \in [Key -> WatchRecord]
  <2>1. Len(watch) \in Nat /\ Key = 1 .. Len(watch) /\ watch \in Seq(WatchRecord)
    BY <1>1, WatchFacts DEF SaTyped
  <2>2. watch \in [Key -> WatchRecord]
    BY <2>1, LenProperties DEF Key
  <2> QED
    BY <1>1, <2>2 DEF WatchersAreRight
<1>3. UNCHANGED <<proc, watchKey, rows, db, ui, sweep, adoptInFlight>>
  BY DEF WatcherBeats, WatcherWaits, WatcherExits, TakeoverChecks, TakeoverFindsNone, NotifyExit
<1>4. /\ entry' \in [in : BOOLEAN, pid : Pid \cup {0}, running : BOOLEAN, row : Nat, key : Nat]
      /\ entry'.key = entry.key /\ ours' \subseteq Pid
  BY <1>1 DEF WatcherBeats, WatcherWaits, WatcherExits, TakeoverChecks, TakeoverFindsNone,
              NotifyExit, SaTyped
<1>5. \E w \in WatchRecord : /\ watch' = [watch EXCEPT ![k] = w]
                             /\ SameWatch(w, watch[k]) /\ Exited(w, proc)
  <2>1. ASSUME NEW at \in {"busy", "watching", "exited", "taking", "notify", "finalize", "done",
                           "lost"},
               NEW open \in {watch[k].open, FALSE},
               watch' = [watch EXCEPT ![k] = [watch[k] EXCEPT !.at = at, !.open = open]],
               at \notin {"busy", "watching", "lost"} => proc[watch[k].pid] = "dead"
        PROVE  \E w \in WatchRecord : /\ watch' = [watch EXCEPT ![k] = w]
                                      /\ SameWatch(w, watch[k]) /\ Exited(w, proc)
    <3> DEFINE w == [watch[k] EXCEPT !.at = at, !.open = open]
    <3>1. w \in WatchRecord
      BY <1>2 DEF WatchRecord
    <3>2. SameWatch(w, watch[k]) /\ Exited(w, proc)
      BY <1>2, <2>1 DEF WatchRecord, SameWatch, Exited
    <3> QED
      BY <2>1, <3>1, <3>2
  <2>2. CASE WatcherExits(k)
    <3>1. /\ watch' = [watch EXCEPT ![k] = [watch[k] EXCEPT !.at = "exited", !.open = FALSE]]
          /\ proc[watch[k].pid] = "dead"
      BY <1>2, <2>2 DEF WatcherExits
    <3> QED
      BY <2>1, <3>1
  <2>3. ASSUME NEW at \in {"busy", "watching", "exited", "taking", "notify", "finalize", "done",
                           "lost"},
               GoWatch(k, at), at \notin {"busy", "watching", "lost"} => proc[watch[k].pid] = "dead"
        PROVE  \E w \in WatchRecord : /\ watch' = [watch EXCEPT ![k] = w]
                                      /\ SameWatch(w, watch[k]) /\ Exited(w, proc)
    <3>1. watch' = [watch EXCEPT ![k] = [watch[k] EXCEPT !.at = at, !.open = watch[k].open]]
      BY <1>2, <2>3 DEF GoWatch, WatchRecord
    <3> QED
      BY <2>1, <2>3, <3>1
  <2>4. CASE WatcherBeats(k)
    BY <2>3, <2>4 DEF WatcherBeats
  <2>5. CASE WatcherWaits(k)
    BY <2>3, <2>5 DEF WatcherWaits
  <2>6. CASE TakeoverChecks(k) \/ TakeoverFindsNone(k) \/ NotifyExit(k)
    <3>1. proc[watch[k].pid] = "dead"
      BY <1>2, <2>6 DEF TakeoverChecks, TakeoverFindsNone, NotifyExit, Exited
    <3>2. \E at \in {"taking", "notify", "done", "finalize"} : GoWatch(k, at)
      BY <2>6 DEF TakeoverChecks, TakeoverFindsNone, NotifyExit
    <3> QED
      BY <2>3, <3>1, <3>2
  <2> QED
    BY <2>2, <2>4, <2>5, <2>6
<1>6. /\ watch' \in [Key -> WatchRecord]
      /\ \A j \in Key : SameWatch(watch'[j], watch[j]) /\ Exited(watch'[j], proc)
  <2>1. PICK w \in WatchRecord : /\ watch' = [watch EXCEPT ![k] = w]
                                /\ SameWatch(w, watch[k]) /\ Exited(w, proc)
    BY <1>5
  <2>2. watch' \in [Key -> WatchRecord] /\ watch'[k] = w /\ \A j \in Key \ {k} : watch'[j] = watch[j]
    BY <1>2, <2>1
  <2>3. \A j \in Key : SameWatch(watch[j], watch[j]) /\ Exited(watch[j], proc)
    BY <1>1 DEF SameWatch, WatchersAreRight
  <2> QED
    BY <2>1, <2>2, <2>3
<1> QED
  BY <1>3, <1>4, <1>6, WatchersMove

LEMMA OneWatcher ==
    ASSUME SaInv, NEW k \in Key
    PROVE  /\ watch[k] \in WatchRecord /\ watch \in [Key -> WatchRecord]
           /\ Tracked(watch[k], rows, db) /\ Exited(watch[k], proc)
<1>1. SaTyped /\ WatchersAreRight
  BY DEF SaInv
<1>2. Len(watch) \in Nat /\ Key = 1 .. Len(watch) /\ watch \in Seq(WatchRecord)
  BY <1>1, WatchFacts DEF SaTyped
<1>3. watch \in [Key -> WatchRecord]
  BY <1>2, LenProperties DEF Key
<1> QED
  BY <1>1, <1>3 DEF WatchersAreRight

\* The successor is found, and the entry's handle closed.
LEMMA OpensStep == ASSUME SaInv, NEW k \in Key, TakeoverOpens(k) PROVE SaInv'
<1>1. SaTyped /\ PidsAndKeys /\ WatchersAreRight
  BY DEF SaInv
<1>2. /\ watch[k].at = "taking" /\ entry' = [entry EXCEPT !.pid = 0]
      /\ UNCHANGED <<proc, watchKey, ours, rows, db, ui, sweep, adoptInFlight>>
  BY DEF TakeoverOpens
<1>3. PICK p \in Pid : watch' = [Closed(entry.pid) EXCEPT ![k].to = p, ![k].at = "moved"]
  BY DEF TakeoverOpens, Alive
<1> DEFINE old == Closed(entry.pid)
           w == [old[k] EXCEPT !.to = p, !.at = "moved"]
<1>4. /\ old \in [Key -> WatchRecord]
      /\ \A j \in Key : old[j] = watch[j] \/ old[j] = [watch[j] EXCEPT !.open = FALSE]
  BY <1>1, SessionClosing
<1>5. \A j \in Key : SameWatch(old[j], watch[j]) /\ Exited(old[j], proc)
  <2>1. ASSUME NEW j \in Key PROVE SameWatch(old[j], watch[j]) /\ Exited(old[j], proc)
    <3>1. watch[j] \in WatchRecord /\ Exited(watch[j], proc)
      BY OneWatcher
    <3> QED
      BY <1>4, <3>1 DEF SameWatch, Exited, WatchRecord
  <2> QED
    BY <2>1
<1>6. \A j \in Key : Tracked(old[j], rows, db)
  BY <1>1, <1>5, SameIsTracked DEF WatchersAreRight
<1> HIDE DEF old
<1>7. old[k] \in WatchRecord /\ proc[old[k].pid] = "dead"
  <2>1. proc[watch[k].pid] = "dead"
    BY <1>2, OneWatcher DEF Exited
  <2> QED
    BY <1>4, <1>5, <2>1 DEF SameWatch
<1>8. /\ w \in WatchRecord /\ w.to = p /\ w.at = "moved" /\ w.pid = old[k].pid /\ w.row = old[k].row
      /\ w.db = old[k].db /\ w.by = old[k].by /\ w.next = old[k].next
  BY <1>7 DEF WatchRecord
<1>9. watch' = [old EXCEPT ![k] = w]
  BY <1>3, <1>4 DEF old, WatchRecord
<1> HIDE DEF w
<1>10. Tracked(w, rows, db) /\ Exited(w, proc)
  BY <1>6, <1>7, <1>8 DEF Tracked, Exited
<1>11. /\ watch' \in [Key -> WatchRecord] /\ watch'[k] = w
       /\ \A j \in Key \ {k} : watch'[j] = old[j]
  BY <1>4, <1>8, <1>9
<1>12. watch' \in Seq(WatchRecord) /\ Key' = Key
  BY <1>1, <1>11, StillASequence
<1>13. /\ entry' \in [in : BOOLEAN, pid : Pid \cup {0}, running : BOOLEAN, row : Nat, key : Nat]
       /\ entry'.key = entry.key
  BY <1>1, <1>2 DEF SaTyped
<1>14. SaTyped'
  BY <1>1, <1>2, <1>12, <1>13 DEF SaTyped
<1>15. WatchersAreRight'
  BY <1>2, <1>5, <1>6, <1>10, <1>11, <1>12 DEF WatchersAreRight
<1>16. LiveSessionStaysOpen'
  BY <1>2, <1>14, SessionsStayOpen DEF DeadStay
<1>17. \A j \in Key : watch'[j].by = watch[j].by /\ watch'[j].db = watch[j].db
  BY <1>5, <1>8, <1>11 DEF SameWatch
<1>18. ui'.at \in {"verify", "unready", "unverified", "track"} => ui'.pid \in Pid
  BY <1>1, <1>2 DEF PidsAndKeys
<1> QED
  BY <1>2, <1>12, <1>13, <1>14, <1>15, <1>16, <1>17, <1>18, SaMoves

\* The successor gets a row and the entry.
LEMMA EntersStep == ASSUME SaInv, NEW k \in Key, TakeoverEnters(k) PROVE SaInv'
<1>1. SaTyped /\ PidsAndKeys
  BY DEF SaInv
<1> DEFINE p == watch[k].to
           next == [row |-> NextRow, db |-> db]
           w == [watch[k] EXCEPT !.next = next, !.at = "entered"]
<1>2. /\ watch[k] \in WatchRecord /\ watch \in [Key -> WatchRecord]
      /\ Tracked(watch[k], rows, db) /\ Exited(watch[k], proc)
  BY OneWatcher
<1>3. /\ watch[k].at = "moved" /\ InsertStart(p)
      /\ entry' = [entry EXCEPT !.in = TRUE, !.pid = p, !.running = TRUE, !.row = NextRow]
      /\ UNCHANGED <<proc, watchKey, ours, db, ui, sweep, adoptInFlight>>
  BY DEF TakeoverEnters
<1>4. p \in Pid /\ proc[watch[k].pid] = "dead"
  BY <1>2, <1>3 DEF Tracked, Exited
<1>5. /\ rows' \in [Database -> Seq(Session)] /\ RowsGrow(rows, rows')
      /\ NextRow \in Nat /\ NextRow \in DOMAIN rows'[db] /\ rows'[db][NextRow].pid = p
      /\ \A r \in DOMAIN rows'[1] : \/ rows'[1][r].open
                                    \/ r \in DOMAIN rows[1] /\ rows'[1][r] = rows[1][r]
  BY <1>1, <1>3, <1>4, RowAdded
<1>6. db \in Nat /\ db \in 1 .. db /\ db \in Database /\ db <= db
  BY <1>1, DatabaseFacts DEF SaTyped, Database
<1>7. next \in [row : Nat, db : Nat] /\ next.row = NextRow /\ next.db = db
  BY <1>5, <1>6
<1>8. watch' = [watch EXCEPT ![k] = w]
  BY <1>2 DEF TakeoverEnters, WatchRecord
<1> HIDE DEF next
<1>9. w \in WatchRecord
  BY <1>2, <1>7 DEF WatchRecord
<1>10. /\ w.next = next /\ w.at = "entered" /\ w.pid = watch[k].pid /\ w.row = watch[k].row
       /\ w.db = watch[k].db /\ w.by = watch[k].by /\ w.to = p
  BY <1>2 DEF WatchRecord
<1> HIDE DEF w
<1>11. Tracked(w, rows', db) /\ Exited(w, proc)
  <2>1. Tracked(watch[k], rows', db)
    BY <1>2, <1>5, <1>6, StillTracked
  <2> QED
    BY <1>4, <1>5, <1>6, <1>7, <1>10, <2>1 DEF Tracked, Exited
<1>12. /\ watch' \in [Key -> WatchRecord] /\ watch'[k] = w
       /\ \A j \in Key \ {k} : watch'[j] = watch[j]
  BY <1>2, <1>8, <1>9
<1>13. watch' \in Seq(WatchRecord) /\ Key' = Key
  BY <1>1, <1>12, StillASequence
<1>14. /\ entry' \in [in : BOOLEAN, pid : Pid \cup {0}, running : BOOLEAN, row : Nat, key : Nat]
       /\ entry'.key = entry.key
  <2> HIDE DEF p
  <2> QED
    BY <1>1, <1>3, <1>4, <1>5 DEF SaTyped
<1>15. SaTyped'
  BY <1>1, <1>3, <1>5, <1>13, <1>14 DEF SaTyped
<1>16. DeadStay(proc, proc')
  BY <1>3 DEF DeadStay
<1>17. WatchersAreRight'
  BY <1>3, <1>5, <1>6, <1>11, <1>12, <1>13, <1>16, WatchersKept
<1>18. LiveSessionStaysOpen'
  BY <1>3, <1>5, <1>15, <1>16, SessionsStayOpen
<1>19. \A j \in Key : watch'[j].by = watch[j].by /\ watch'[j].db = watch[j].db
  BY <1>10, <1>12
<1>20. ui'.at \in {"verify", "unready", "unverified", "track"} => ui'.pid \in Pid
  BY <1>1, <1>3 DEF PidsAndKeys
<1> QED
  BY <1>3, <1>13, <1>14, <1>15, <1>17, <1>18, <1>19, <1>20, SaMoves

\* The successor gets its watcher.
LEMMA TakeoverWatchStep == ASSUME SaInv, NEW k \in Key, TakeoverWatches(k) PROVE SaInv'
<1>1. SaTyped /\ PidsAndKeys /\ OneSweep
  BY DEF SaInv
<1> DEFINE n == Len(watch) + 1
           next == watch[k].next
           w == Watcher(watch[k].to, next.row, next.db, "takeover")
           more == Append(watch, w)
           v == [watch[k] EXCEPT !.at = "took"]
<1>2. /\ watch[k] \in WatchRecord /\ watch \in [Key -> WatchRecord]
      /\ Tracked(watch[k], rows, db) /\ Exited(watch[k], proc)
  BY OneWatcher
<1>3. /\ watch[k].at = "entered" /\ watch' = [more EXCEPT ![k].at = "took"] /\ watchKey' = n
      /\ UNCHANGED <<proc, entry, ours, rows, db, ui, sweep, adoptInFlight>>
  BY DEF TakeoverWatches
<1>4. db \in Nat /\ db \in Database /\ db <= db
  BY <1>1, DatabaseFacts DEF SaTyped
<1>5. /\ watch[k].to \in Pid /\ next.row \in Nat /\ next.db \in Nat \ {0} /\ next.db <= db
      /\ next.row \in DOMAIN rows[next.db] /\ rows[next.db][next.row].pid = watch[k].to
      /\ proc[watch[k].pid] = "dead"
  BY <1>2, <1>3, <1>4 DEF Tracked, Exited, WatchRecord
<1>6. w \in WatchRecord /\ w.by = "takeover"
  BY <1>5 DEF Watcher, WatchRecord
<1>7. Tracked(w, rows, db) /\ Exited(w, proc)
  BY <1>4, <1>5, NewIsTracked
<1>8. v \in WatchRecord /\ SameWatch(v, watch[k]) /\ Exited(v, proc)
  BY <1>2, <1>5 DEF SameWatch, WatchRecord, Exited
<1>9. Tracked(v, rows, db)
  BY <1>2, <1>8, SameIsTracked
<1> HIDE DEF w
<1>10. watch \in Seq(WatchRecord) /\ Len(watch) \in Nat /\ Key = 1 .. Len(watch)
  BY <1>1, WatchFacts DEF SaTyped
<1>11. /\ more \in Seq(WatchRecord) /\ Len(more) = n
       /\ more[n] = w /\ \A j \in Key : more[j] = watch[j]
  BY <1>6, <1>10, AppendProperties
<1>12. n \in Nat /\ n # 0 /\ n \notin Key /\ 1 .. n = Key \cup {n} /\ k \in 1 .. n /\ k # n
  BY <1>10
<1> HIDE DEF more, n
<1>13. more \in [1 .. n -> WatchRecord]
  BY <1>11, LenProperties
<1>14. watch' = [more EXCEPT ![k] = v]
  BY <1>3, <1>11
<1> HIDE DEF v
<1>15. /\ watch' \in [1 .. n -> WatchRecord] /\ watch'[k] = v /\ watch'[n] = w
       /\ \A j \in Key \ {k} : watch'[j] = watch[j]
  BY <1>8, <1>11, <1>12, <1>13, <1>14
<1>16. watch' \in Seq(WatchRecord) /\ Key' = Key \cup {n}
  <2>1. watch' \in Seq(WatchRecord)
    BY <1>12, <1>15, IsASeq
  <2>2. DOMAIN watch' = 1 .. n
    BY <1>15
  <2> QED
    BY <1>12, <2>1, <2>2 DEF Key
<1>17. SaTyped'
  BY <1>1, <1>3, <1>12, <1>16 DEF SaTyped
<1>18. RowsGrow(rows, rows') /\ DeadStay(proc, proc') /\ db' \in Database /\ db <= db'
  BY <1>3, <1>4 DEF RowsGrow, DeadStay
<1>19. WatchersAreRight'
  <2>1. \A j \in Key' : \/ j \in Key /\ watch'[j] = watch[j]
                        \/ Tracked(watch'[j], rows', db') /\ Exited(watch'[j], proc')
    BY <1>3, <1>7, <1>8, <1>9, <1>15, <1>16
  <2> QED
    BY <1>18, <2>1, WatchersKept
<1>20. LiveSessionStaysOpen'
  BY <1>3, <1>17, <1>18, SessionsStayOpen
<1>21. OneAdoption'
  <2>1. NoNewAdoption
    BY <1>6, <1>8, <1>15, <1>16 DEF NoNewAdoption, SameWatch
  <2> QED
    BY <1>3, <1>12, <2>1, AdoptionKept
<1>22. PidsAndKeys' /\ OneSweep'
  BY <1>1, <1>3, <1>16 DEF PidsAndKeys, OneSweep
<1> QED
  BY <1>17, <1>19, <1>20, <1>21, <1>22 DEF SaInv

\* A session is closed by number, after its process has died.
LEMMA FinalizeStep == ASSUME SaInv, NEW k \in Key, FinalizeSession(k) PROVE SaInv'
<1>1. SaTyped /\ PidsAndKeys /\ LiveSessionStaysOpen
  BY DEF SaInv
<1> DEFINE r == watch[k].row
           w == [watch[k] EXCEPT !.at = "done"]
           old == rows[db]
           e == [old[r] EXCEPT !.open = FALSE]
<1>2. /\ watch[k] \in WatchRecord /\ watch \in [Key -> WatchRecord]
      /\ Tracked(watch[k], rows, db) /\ Exited(watch[k], proc)
  BY OneWatcher
<1>3. /\ watch[k].at = "finalize" /\ FinalizeStop(r) /\ watch' = [watch EXCEPT ![k].at = "done"]
      /\ UNCHANGED <<proc, entry, watchKey, ours, db, ui, sweep, adoptInFlight>>
  BY DEF FinalizeSession, GoWatch
<1>4. db \in Nat /\ db \in Database /\ db <= db /\ proc[watch[k].pid] = "dead"
  BY <1>1, <1>2, <1>3, DatabaseFacts DEF SaTyped, Exited
<1>5. /\ rows \in [Database -> Seq(Session)] /\ old \in Seq(Session) /\ Len(old) \in Nat
      /\ DOMAIN old = 1 .. Len(old)
  BY <1>1, <1>4, LenProperties DEF SaTyped
<1>6. /\ rows' \in [Database -> Seq(Session)] /\ RowsGrow(rows, rows')
      /\ \A x \in DOMAIN rows'[1] : \/ x \in DOMAIN rows[1] /\ rows'[1][x] = rows[1][x]
                                    \/ /\ db = 1 /\ x = r /\ x \in DOMAIN rows[1]
                                       /\ rows'[1][x].pid = rows[1][x].pid
  <2>1. CASE r \notin DOMAIN old
    <3>1. rows' = rows
      BY <1>3, <2>1 DEF FinalizeStop
    <3> QED
      BY <1>5, <3>1 DEF RowsGrow
  <2>2. CASE r \in DOMAIN old
    <3> DEFINE new == [old EXCEPT ![r] = e]
    <3>1. old[r] \in Session
      BY <1>5, <2>2, ElementOfSeq
    <3>2. e \in Session /\ e.pid = old[r].pid
      BY <3>1 DEF Session
    <3>3. rows' = [rows EXCEPT ![db] = new]
      BY <1>3, <2>2 DEF FinalizeStop
    <3> HIDE DEF e
    <3>4. new \in Seq(Session)
      BY <1>5, <2>2, <3>2, ExceptSeq
    <3>5. /\ DOMAIN new = DOMAIN old /\ new[r] = e
          /\ \A x \in DOMAIN old \ {r} : new[x] = old[x]
      BY <2>2
    <3> HIDE DEF new, old
    <3>6. /\ rows' \in [Database -> Seq(Session)] /\ rows'[db] = new
          /\ \A d \in Database \ {db} : rows'[d] = rows[d]
      BY <1>4, <1>5, <3>3, <3>4
    <3>7. rows[db] = old /\ 1 \in Database
      BY <1>1, DatabaseFacts DEF old
    <3>8. RowsGrow(rows, rows')
      <4>1. ASSUME NEW d \in Database, NEW x \in DOMAIN rows[d]
            PROVE  x \in DOMAIN rows'[d] /\ rows'[d][x].pid = rows[d][x].pid
        BY <3>2, <3>5, <3>6, <3>7
      <4> QED
        BY <4>1 DEF RowsGrow
    <3> QED
      BY <3>2, <3>5, <3>6, <3>7, <3>8
  <2> QED
    BY <2>1, <2>2
<1> HIDE DEF old, e
<1>7. watch' = [watch EXCEPT ![k] = w]
  BY <1>2, <1>3 DEF WatchRecord
<1>8. w \in WatchRecord /\ SameWatch(w, watch[k]) /\ Exited(w, proc)
  BY <1>2, <1>4 DEF SameWatch, WatchRecord, Exited
<1>9. Tracked(w, rows', db)
  <2>1. Tracked(w, rows, db)
    BY <1>2, <1>8, SameIsTracked
  <2> QED
    BY <1>4, <1>6, <1>8, <2>1, StillTracked
<1> HIDE DEF w
<1>10. /\ watch' \in [Key -> WatchRecord] /\ watch'[k] = w
       /\ \A j \in Key \ {k} : watch'[j] = watch[j]
  BY <1>2, <1>7, <1>8
<1>11. watch' \in Seq(WatchRecord) /\ Key' = Key
  BY <1>1, <1>10, StillASequence
<1>12. SaTyped'
  BY <1>1, <1>3, <1>6, <1>11 DEF SaTyped
<1>13. DeadStay(proc, proc')
  BY <1>3 DEF DeadStay
<1>14. WatchersAreRight'
  BY <1>3, <1>4, <1>6, <1>8, <1>9, <1>10, <1>11, <1>13, WatchersKept
<1>15. LiveSessionStaysOpen'
  <2> SUFFICES ASSUME db = 1, NEW x \in DOMAIN rows'[1]
               PROVE  rows'[1][x].open \/ proc[rows'[1][x].pid] = "dead"
    BY <1>3 DEF LiveSessionStaysOpen
  <2>1. CASE x \in DOMAIN rows[1] /\ rows'[1][x] = rows[1][x]
    BY <1>1, <2>1 DEF LiveSessionStaysOpen
  <2>2. CASE x = r /\ rows'[1][x].pid = rows[1][x].pid
    <3>1. watch[k].db = 1
      BY <1>2, <1>4 DEF Tracked
    <3>2. rows[1][r].pid = watch[k].pid
      BY <1>2, <3>1 DEF Tracked
    <3> QED
      BY <1>4, <2>2, <3>2
  <2> QED
    BY <1>6, <2>1, <2>2
<1>16. \A j \in Key : watch'[j].by = watch[j].by /\ watch'[j].db = watch[j].db
  BY <1>8, <1>10 DEF SameWatch
<1>17. ui'.at \in {"verify", "unready", "unverified", "track"} => ui'.pid \in Pid
  BY <1>1, <1>3 DEF PidsAndKeys
<1> QED
  BY <1>3, <1>11, <1>12, <1>14, <1>15, <1>16, <1>17, SaMoves

\* A sweep moves, and the watchers do not change.
LEMMA SweepMoves ==
    ASSUME SaInv, NEW s \in Sweeper, NEW new \in SweepRecord,
           sweep' = [sweep EXCEPT ![s] = new], adoptInFlight' \in BOOLEAN,
           sweep[s].at # "off" \/ ~adoptInFlight, new.at # "off" => adoptInFlight',
           sweep[s].at # "register", new.at # "register", new.key = 0,
           new.at \in {"bypass", "detect", "adopt"} => new.pid \in Pid,
           new.at = "adopt" => watchKey = 0,
           UNCHANGED <<proc, entry, watchKey, ours, db, watch, ui>>,
           rows' \in [Database -> Seq(Session)], RowsGrow(rows, rows'),
           \A r \in DOMAIN rows'[1] : \/ rows'[1][r].open
                                      \/ r \in DOMAIN rows[1] /\ rows'[1][r] = rows[1][r]
    PROVE  SaInv'
<1>1. SaTyped /\ PidsAndKeys /\ OneAdoption
  BY DEF SaInv
<1>2. /\ OneSweep' /\ sweep' \in [Sweeper -> SweepRecord] /\ sweep'[s] = new
      /\ \A t \in Sweeper \ {s} : sweep'[t] = sweep[t] /\ sweep[t].at = "off"
  BY SweepGoesOn
<1>3. SaTyped'
  BY <1>1, <1>2 DEF SaTyped
<1>4. Key' = Key
  BY DEF Key
<1>5. /\ RowsGrow(rows, rows') /\ DeadStay(proc, proc') /\ db' \in Database /\ db <= db'
  BY <1>1, DatabaseFacts DEF DeadStay, SaTyped
<1>6. WatchersAreRight'
  BY <1>4, <1>5, WatchersKept
<1>7. LiveSessionStaysOpen'
  BY <1>3, <1>5, SessionsStayOpen
<1>8. PidsAndKeys'
  BY <1>1, <1>2, <1>4 DEF PidsAndKeys
<1>9. \A t \in Sweeper : sweep[t].at # "register" /\ sweep'[t].at # "register"
  BY <1>2
<1>10. OneAdoption'
  <2>1. \A j, k \in Key : Adopted(j) /\ Adopted(k) /\ watch[j].db = watch[k].db => j = k
    BY <1>1 DEF OneAdoption
  <2>2. \A k \in Key : Adopted(k) /\ watch[k].db = db => watchKey # 0
    BY <1>1, <1>9 DEF OneAdoption
  <2>3. \A t \in Sweeper : sweep'[t].at = "adopt" => watchKey = 0
    BY <1>2
  <2> QED
    BY <1>4, <2>1, <2>2, <2>3 DEF OneAdoption, Adopted
<1> QED
  BY <1>2, <1>3, <1>6, <1>7, <1>8, <1>10 DEF SaInv

LEMMA SweepSteps ==
    ASSUME SaInv, NEW s \in Sweeper,
           \/ SweepBegins(s) \/ SweepRoutes(s) \/ SweepRecords(s) \/ SweepDiscards(s)
           \/ SweepRechecks(s) \/ SweepEnds(s)
    PROVE  SaInv'
<1>1. SaTyped /\ PidsAndKeys /\ OneSweep
  BY DEF SaInv
<1>2. sweep \in [Sweeper -> SweepRecord] /\ sweep[s] \in SweepRecord
  BY <1>1 DEF SaTyped
<1> DEFINE again == [NoSweep EXCEPT !.at = "scan", !.todo = sweep[s].todo]
<1>3. /\ again \in SweepRecord /\ again.at = "scan" /\ again.key = 0
      /\ NoSweep \in SweepRecord /\ NoSweep.at = "off" /\ NoSweep.key = 0
  BY <1>2 DEF NoSweep, SweepRecord
<1>4. UNCHANGED <<proc, entry, watchKey, ours, db, watch, ui>>
  BY DEF SweepBegins, SweepRoutes, SweepRecords, SweepDiscards, SweepRechecks, SweepEnds
<1>5. /\ rows' \in [Database -> Seq(Session)] /\ RowsGrow(rows, rows')
      /\ \A r \in DOMAIN rows'[1] : \/ rows'[1][r].open
                                    \/ r \in DOMAIN rows[1] /\ rows'[1][r] = rows[1][r]
  <2>1. CASE rows' = rows
    BY <1>1, <2>1 DEF SaTyped, RowsGrow
  <2>2. CASE sweep[s].at = "bypass" /\ InsertStart(sweep[s].pid)
    <3>1. sweep[s].pid \in Pid
      BY <1>1, <2>2 DEF PidsAndKeys
    <3> QED
      BY <1>1, <2>2, <3>1, RowAdded
  <2> QED
    BY <2>1, <2>2 DEF SweepBegins, SweepRoutes, SweepRecords, SweepDiscards, SweepRechecks, SweepEnds
<1>6. CASE SweepBegins(s)
  <2> DEFINE new == [sweep[s] EXCEPT !.at = "scan", !.todo = Alive]
  <2>1. /\ ~adoptInFlight /\ adoptInFlight' = TRUE /\ sweep[s].at = "off"
        /\ sweep' = [sweep EXCEPT ![s] = new]
    BY <1>2, <1>6 DEF SweepBegins, FreeSlot, SweepRecord
  <2>2. new \in SweepRecord /\ new.at = "scan" /\ new.key = sweep[s].key
    BY <1>2 DEF SweepRecord, Alive
  <2>3. sweep[s].key = 0
    BY <1>1, <2>1 DEF PidsAndKeys
  <2> QED
    BY <1>4, <1>5, <2>1, <2>2, <2>3, SweepMoves
<1>7. CASE SweepRoutes(s)
  <2>1. PICK p \in sweep[s].todo :
          sweep' = [sweep EXCEPT ![s].todo = @ \ {p}, ![s].pid = IF Skipped(p) THEN 0 ELSE p,
                                 ![s].at = IF Skipped(p) THEN "scan"
                                           ELSE IF Managed THEN "bypass" ELSE "detect"]
    BY <1>7 DEF SweepRoutes
  <2> DEFINE todo == sweep[s].todo \ {p}
             pid == IF Skipped(p) THEN 0 ELSE p
             at == IF Skipped(p) THEN "scan" ELSE IF Managed THEN "bypass" ELSE "detect"
             new == [sweep[s] EXCEPT !.todo = todo, !.pid = pid, !.at = at]
  <2>2. /\ todo \subseteq Pid /\ pid \in Pid \cup {0} /\ at \in {"scan", "bypass", "detect"}
        /\ at # "scan" => pid \in Pid
    BY <1>2, <2>1 DEF SweepRecord
  <2>3. sweep' = [sweep EXCEPT ![s] = new]
    BY <1>2, <2>1 DEF SweepRecord
  <2> HIDE DEF todo, pid, at
  <2>4. new \in SweepRecord /\ new.at = at /\ new.pid = pid /\ new.key = sweep[s].key
    BY <1>2, <2>2 DEF SweepRecord
  <2>5. sweep[s].at = "scan" /\ adoptInFlight' = adoptInFlight /\ adoptInFlight
    BY <1>1, <1>7 DEF SweepRoutes, OneSweep
  <2>6. sweep[s].key = 0
    BY <1>1, <2>5 DEF PidsAndKeys
  <2> QED
    BY <1>4, <1>5, <2>2, <2>3, <2>4, <2>5, <2>6, SweepMoves
<1>8. CASE SweepRecords(s) \/ SweepDiscards(s) \/ (SweepRechecks(s) /\ Rescan(s))
  <2>1. /\ sweep' = [sweep EXCEPT ![s] = again] /\ sweep[s].at \in {"bypass", "detect"}
        /\ adoptInFlight' = adoptInFlight /\ adoptInFlight
    BY <1>1, <1>8 DEF SweepRecords, SweepDiscards, SweepRechecks, Rescan, OneSweep
  <2> HIDE DEF again
  <2> QED
    BY <1>3, <1>4, <1>5, <2>1, SweepMoves
<1>9. CASE SweepRechecks(s) /\ ~Rescan(s)
  <2> DEFINE new == [sweep[s] EXCEPT !.at = "adopt"]
  <2>1. /\ sweep[s].at = "detect" /\ ~Managed /\ sweep' = [sweep EXCEPT ![s] = new]
        /\ adoptInFlight' = adoptInFlight /\ adoptInFlight /\ sweep[s].pid \in Pid
    BY <1>1, <1>2, <1>9 DEF SweepRechecks, OneSweep, SweepRecord, PidsAndKeys
  <2>2. new \in SweepRecord /\ new.at = "adopt" /\ new.pid = sweep[s].pid /\ new.key = sweep[s].key
    BY <1>2 DEF SweepRecord
  <2>3. sweep[s].key = 0 /\ watchKey = 0
    BY <1>1, <2>1 DEF PidsAndKeys, Managed
  <2> HIDE DEF new
  <2> QED
    BY <1>4, <1>5, <2>1, <2>2, <2>3, SweepMoves
<1>10. CASE SweepEnds(s)
  <2>1. /\ sweep' = [sweep EXCEPT ![s] = NoSweep] /\ sweep[s].at = "scan" /\ adoptInFlight' = FALSE
    BY <1>10 DEF SweepEnds
  <2> QED
    BY <1>3, <1>4, <1>5, <2>1, SweepMoves
<1> QED
  BY <1>6, <1>7, <1>8, <1>9, <1>10

\* A process is adopted: the database has none so far.
LEMMA SweepWatchStep == ASSUME SaInv, NEW s \in Sweeper, SweepWatches(s) PROVE SaInv'
<1>1. SaTyped /\ PidsAndKeys /\ OneSweep /\ OneAdoption
  BY DEF SaInv
<1> DEFINE p == sweep[s].pid
           found == FindInProgress(p)
           r == IF found = {} THEN NextRow ELSE CHOOSE x \in found : TRUE
           n == Len(watch) + 1
           w == Watcher(p, r, db, "sweep")
           new == [sweep[s] EXCEPT !.row = r, !.key = n, !.at = "register"]
<1>2. sweep[s] \in SweepRecord /\ sweep \in [Sweeper -> SweepRecord]
  BY <1>1 DEF SaTyped
<1>3. /\ sweep[s].at = "adopt" /\ p \in Pid
      /\ IF found = {} THEN InsertStart(p) ELSE rows' = rows
      /\ watch' = Append(watch, w)
      /\ UNCHANGED <<proc, entry, watchKey, ours, db, ui, adoptInFlight>>
      /\ adoptInFlight
  BY <1>1 DEF SweepWatches, PidsAndKeys, Watch, OneSweep
<1>4. sweep' = [sweep EXCEPT ![s] = new]
  BY <1>2 DEF SweepWatches, SweepRecord
<1>5. db \in Nat \ {0} /\ db \in Nat /\ db \in Database /\ db <= db
  BY <1>1, DatabaseFacts DEF SaTyped, Database
<1>6. /\ rows' \in [Database -> Seq(Session)] /\ RowsGrow(rows, rows')
      /\ r \in Nat /\ r \in DOMAIN rows'[db] /\ rows'[db][r].pid = p
      /\ \A x \in DOMAIN rows'[1] : \/ rows'[1][x].open
                                    \/ x \in DOMAIN rows[1] /\ rows'[1][x] = rows[1][x]
  <2>1. CASE found = {}
    BY <1>1, <1>3, <2>1, RowAdded
  <2>2. CASE found # {}
    <3>1. r \in found /\ rows' = rows
      BY <1>3, <2>2
    <3> HIDE DEF r
    <3>2. r \in DOMAIN rows[db] /\ rows[db][r].pid = p
      BY <3>1 DEF FindInProgress
    <3>3. rows[db] \in Seq(Session)
      BY <1>5, <1>1, DatabaseFacts
    <3>4. r \in Nat
      BY <3>2, <3>3, LenProperties
    <3> QED
      BY <1>1, <3>1, <3>2, <3>4 DEF SaTyped, RowsGrow
  <2> QED
    BY <2>1, <2>2
<1> HIDE DEF r
<1>7. w \in WatchRecord /\ w.by = "sweep" /\ w.db = db
  BY <1>3, <1>5, <1>6 DEF Watcher, WatchRecord
<1>8. Tracked(w, rows', db) /\ Exited(w, proc)
  BY <1>5, <1>6, NewIsTracked
<1> HIDE DEF w
<1>9. /\ watch' \in Seq(WatchRecord) /\ Key' = Key \cup {n} /\ n \notin Key /\ watch'[n] = w
      /\ n \in Nat /\ n # 0 /\ \A k \in Key : watch'[k] = watch[k]
  BY <1>1, <1>3, <1>7, WatcherAdded
<1> HIDE DEF n
<1>10. /\ new \in SweepRecord /\ new.at = "register" /\ new.key = n /\ new.pid = p
  BY <1>2, <1>6, <1>9 DEF SweepRecord
<1> HIDE DEF new
<1>11. /\ OneSweep' /\ sweep' \in [Sweeper -> SweepRecord] /\ sweep'[s] = new
       /\ \A t \in Sweeper \ {s} : sweep'[t] = sweep[t] /\ sweep[t].at = "off"
  BY <1>1, <1>3, <1>4, <1>10, SweepGoesOn DEF SaTyped
<1>12. SaTyped'
  BY <1>1, <1>3, <1>6, <1>9, <1>11 DEF SaTyped
<1>13. DeadStay(proc, proc') /\ db' \in Database /\ db <= db'
  BY <1>3, <1>5 DEF DeadStay
<1>14. WatchersAreRight'
  <2>1. \A j \in Key' : \/ j \in Key /\ watch'[j] = watch[j]
                        \/ Tracked(watch'[j], rows', db') /\ Exited(watch'[j], proc')
    BY <1>3, <1>8, <1>9
  <2> QED
    BY <1>6, <1>13, <2>1, WatchersKept
<1>15. LiveSessionStaysOpen'
  BY <1>3, <1>6, <1>12, <1>13, SessionsStayOpen
<1>16. PidsAndKeys'
  BY <1>1, <1>3, <1>9, <1>10, <1>11 DEF PidsAndKeys
<1>17. OneAdoption'
  <2>1. \A k \in Key : Adopted(k) => watch[k].db # db
    BY <1>1, <1>3 DEF OneAdoption
  <2>2. \A j, k \in Key' : Adopted(j)' /\ Adopted(k)' /\ watch'[j].db = watch'[k].db => j = k
    BY <1>1, <1>7, <1>9, <2>1 DEF OneAdoption, Adopted
  <2>3. \A t \in Sweeper : sweep'[t].at # "adopt"
    BY <1>10, <1>11
  <2>4. \E t \in Sweeper : sweep'[t].at = "register"
    BY <1>10, <1>11
  <2> QED
    BY <2>2, <2>3, <2>4 DEF OneAdoption, Adopted
<1> QED
  BY <1>11, <1>12, <1>14, <1>15, <1>16, <1>17 DEF SaInv

LEMMA SweepRegisterStep == ASSUME SaInv, NEW s \in Sweeper, SweepRegisters(s) PROVE SaInv'
<1>1. SaTyped /\ PidsAndKeys /\ OneSweep /\ OneAdoption
  BY DEF SaInv
<1> DEFINE new == [NoSweep EXCEPT !.at = "scan", !.todo = sweep[s].todo]
<1>2. sweep[s] \in SweepRecord /\ sweep \in [Sweeper -> SweepRecord]
  BY <1>1 DEF SaTyped
<1>3. /\ sweep[s].at = "register" /\ sweep[s].pid \in Pid /\ watchKey' = sweep[s].key
      /\ sweep[s].key # 0 /\ sweep[s].key \in Key \cup {0}
      /\ entry' = [in |-> TRUE, pid |-> sweep[s].pid, running |-> TRUE,
                   row |-> sweep[s].row, key |-> sweep[s].key]
      /\ UNCHANGED <<proc, ours, rows, db, watch, ui, adoptInFlight>>
      /\ adoptInFlight /\ sweep' = [sweep EXCEPT ![s] = new]
  BY <1>1 DEF SweepRegisters, PidsAndKeys, Rescan, OneSweep
<1>4. new \in SweepRecord /\ new.at = "scan" /\ new.key = 0
  BY <1>2 DEF NoSweep, SweepRecord
<1> HIDE DEF new
<1>5. /\ OneSweep' /\ sweep' \in [Sweeper -> SweepRecord] /\ sweep'[s] = new
      /\ \A t \in Sweeper \ {s} : sweep'[t] = sweep[t] /\ sweep[t].at = "off"
  BY <1>1, <1>3, <1>4, SweepGoesOn DEF SaTyped
<1>6. /\ entry' \in [in : BOOLEAN, pid : Pid \cup {0}, running : BOOLEAN, row : Nat, key : Nat]
      /\ entry'.key = sweep[s].key /\ watchKey' \in Nat
  BY <1>2, <1>3 DEF SweepRecord
<1>7. SaTyped'
  BY <1>1, <1>3, <1>5, <1>6 DEF SaTyped
<1>8. Key' = Key
  BY <1>3 DEF Key
<1>9. DeadStay(proc, proc') /\ RowsGrow(rows, rows') /\ db' \in Database /\ db <= db'
  BY <1>1, <1>3, DatabaseFacts DEF DeadStay, RowsGrow, SaTyped
<1>10. WatchersAreRight'
  BY <1>3, <1>8, <1>9, WatchersKept
<1>11. LiveSessionStaysOpen'
  BY <1>3, <1>7, <1>9, SessionsStayOpen
<1>12. PidsAndKeys'
  BY <1>1, <1>3, <1>4, <1>5, <1>6, <1>8 DEF PidsAndKeys
<1>13. OneAdoption'
  <2>1. NoNewAdoption
    BY <1>3, <1>8 DEF NoNewAdoption
  <2>2. \A t \in Sweeper : sweep'[t].at # "adopt"
    BY <1>4, <1>5
  <2> QED
    BY <1>3, <2>1, <2>2, AdoptionKept
<1> QED
  BY <1>5, <1>7, <1>10, <1>11, <1>12, <1>13 DEF SaInv

LEMMA SaInitially == SaInit => SaInv
<1> SUFFICES ASSUME SaInit PROVE SaInv
  OBVIOUS
<1>1. /\ proc \in [Pid -> {"none", "alive"}] /\ entry = NoEntry /\ watchKey = 0 /\ ours = {}
      /\ db = 1 /\ watch = <<>> /\ ui = Idle /\ sweep = [s \in Sweeper |-> NoSweep]
      /\ adoptInFlight = FALSE
  BY DEF SaInit
<1>2. PICK left \in {<<>>} \cup {<<[pid |-> p, open |-> TRUE]>> : p \in Alive} :
        rows = [d \in 1 .. MaxSwitches + 1 |-> IF d = 1 THEN left ELSE <<>>]
  BY DEF SaInit
<1>3. 1 \in Database
  BY StandaloneAssumption DEF Database
<1>4. left \in Seq(Session) /\ \A r \in DOMAIN left : left[r].open
  <2>1. CASE left = <<>>
    BY <2>1, EmptySeq
  <2>2. CASE left # <<>>
    <3>1. PICK p \in Alive : left = <<[pid |-> p, open |-> TRUE]>>
      BY <1>2, <2>2
    <3>2. [pid |-> p, open |-> TRUE] \in Session
      BY DEF Alive, Session
    <3> QED
      BY <3>1, <3>2
  <2> QED
    BY <2>1, <2>2
<1>5. rows \in [Database -> Seq(Session)] /\ rows[1] = left
  <2>1. <<>> \in Seq(Session)
    BY EmptySeq
  <2> QED
    BY <1>2, <1>3, <1>4, <2>1 DEF Database
<1>6. NoSweep \in SweepRecord /\ NoSweep.at = "off" /\ NoSweep.key = 0
  BY DEF NoSweep, SweepRecord
<1>7. /\ NoEntry \in [in : BOOLEAN, pid : Pid \cup {0}, running : BOOLEAN, row : Nat, key : Nat]
      /\ NoEntry.key = 0
      /\ Idle \in [at : {"idle", "consent", "launch", "verify", "unready", "unverified",
                        "track", "kill", "erase", "join"}, pid : Pid \cup {0}, key : Nat]
      /\ Idle.at = "idle"
  BY DEF NoEntry, Idle
<1>8. SaTyped
  <2>1. watch \in Seq(WatchRecord)
    BY <1>1, EmptySeq
  <2> QED
    BY <1>1, <1>3, <1>5, <1>6, <1>7, <2>1 DEF SaTyped
<1>9. Key = {}
  BY <1>1 DEF Key
<1>10. PidsAndKeys /\ WatchersAreRight /\ OneSweep /\ OneAdoption
  BY <1>1, <1>6, <1>7, <1>9 DEF PidsAndKeys, WatchersAreRight, OneSweep, OneAdoption
<1>11. LiveSessionStaysOpen
  BY <1>4, <1>5 DEF LiveSessionStaysOpen
<1> QED
  BY <1>8, <1>10, <1>11 DEF SaInv

LEMMA SaInvStep == SaInv /\ [SaNext]_saVars => SaInv'
<1> SUFFICES ASSUME SaInv, [SaNext]_saVars PROVE SaInv'
  OBVIOUS
<1>1. CASE UNCHANGED saVars
  BY <1>1 DEF saVars, SaInv, SaTyped, PidsAndKeys, WatchersAreRight, OneSweep, OneAdoption, Adopted,
              LiveSessionStaysOpen, Key
<1>2. CASE SaNext
  <2>1. CASE \E k \in Key : WatcherBeats(k) \/ WatcherStep(k)
    BY <2>1, WatcherSteps, OpensStep, EntersStep, TakeoverWatchStep, FinalizeStep DEF WatcherStep
  <2>2. CASE \E s \in Sweeper : SweepStep(s)
    BY <2>2, SweepSteps, SweepWatchStep, SweepRegisterStep DEF SweepStep
  <2>3. CASE \E p \in Pid : LaunchedElsewhere(p) \/ ProcessDies(p)
    BY <2>3, ProcessSteps
  <2> QED
    BY <1>2, <2>1, <2>2, <2>3, UiSteps, TrackStep, EraseStep, SwitchStep DEF SaNext, UiProceeds
<1> QED
  BY <1>1, <1>2

-----------------------------------------------------------------------------
(* Standalone: the theorems.                                                *)

LEMMA SaInvAlways == SaSpec => []SaInv
BY SaInitially, SaInvStep, PTL DEF SaSpec

\* Type correctness of the sessions, the watchers and the sweeps.
THEOREM SaTypeCorrect == SaSpec => []SaTypeOK
<1>1. ASSUME SaInv PROVE SaTypeOK
  <2>1. SaTyped /\ PidsAndKeys /\ WatchersAreRight
    BY <1>1 DEF SaInv
  <2>2. \A d \in DOMAIN rows : \A r \in DOMAIN rows[d] : rows[d][r] \in [pid : Pid, open : BOOLEAN]
    <3>1. ASSUME NEW d \in Database, NEW r \in DOMAIN rows[d] PROVE rows[d][r] \in Session
      BY <2>1, DatabaseFacts, LenProperties, ElementOfSeq
    <3>2. DOMAIN rows = Database
      BY <2>1 DEF SaTyped
    <3> QED
      BY <3>1, <3>2 DEF Session
  <2>3. ASSUME NEW k \in Key
        PROVE  /\ watch[k] \in [pid : Pid, row : Nat, db : 1 .. db,
                        by : {"start", "sweep", "takeover"}, to : Pid \cup {0},
                        next : [row : Nat, db : 1 .. db],
                        open : BOOLEAN,
                        at : {"busy", "watching", "exited", "taking", "moved", "entered",
                              "took", "notify", "finalize", "done", "lost"}]
               /\ watch[k].row \in DOMAIN rows[watch[k].db]
    <3>1. watch[k] \in WatchRecord /\ Tracked(watch[k], rows, db)
      BY <1>1, OneWatcher
    <3>2. watch[k].db \in 1 .. db /\ watch[k].next \in [row : Nat, db : 1 .. db]
      BY <3>1 DEF Tracked, WatchRecord
    <3> QED
      BY <3>1, <3>2 DEF Tracked, WatchRecord
  <2>4. entry \in [in : BOOLEAN, pid : Pid \cup {0}, running : BOOLEAN, row : Nat,
                   key : Key \cup {0}]
    BY <2>1 DEF SaTyped, PidsAndKeys
  <2>5. /\ ui.at \in {"idle", "consent", "launch", "verify", "unready", "unverified",
                      "track", "kill", "erase", "join"}
        /\ \A s \in Sweeper : sweep[s].at \in {"off", "scan", "bypass", "detect", "adopt",
                                               "register"}
    BY <2>1 DEF SaTyped, SweepRecord
  <2> QED
    BY <2>1, <2>2, <2>3, <2>4, <2>5 DEF SaTyped, PidsAndKeys, Database, SaTypeOK
<1> QED
  BY <1>1, SaInvAlways, PTL

\* For any number of processes, sweeps and databases: the sweeps adopt a process once, and
\* no session is closed while its process lives (adoptDanglingStandaloneProxies(),
\* handleProcessExit(), finalizeStop()).
THEOREM SessionsAreTrueAlways == SaSpec => []SessionsAreTrue
<1>1. SaInv => SessionsAreTrue
  BY DEF SaInv, OneAdoption, Adopted, AdoptedOnce, SessionsAreTrue
<1> QED
  BY <1>1, SaInvAlways, PTL

-----------------------------------------------------------------------------
(* The least of a set of numbers.                                           *)

LookRecord ==
    [at : {"off", "gate", "scan", "greet", "read", "resolved"},
     route : {"FullDetect", "BypassDetect", "Takeover"}, seen : Nat,
     config : {"path", "name", "unread", "other"}, creationTime : Nat, opened : BOOLEAN,
     families : SUBSET Family, osFactsReadable : BOOLEAN, osPorts : SUBSET Port,
     socksPorts : SUBSET Port, recorded : SUBSET (Port \cup {0}), port : Port \cup {0},
     source : Tier \cup {"None"}, verdict : {"Unknown", "Unverified", "Verified"}]

\* What the sweep has seen of a process is true for as long as it is the same process: a
\* port that it has seen stays open, and one that answers is the one that serves.
SeenIsTrue ==
    look.at \in {"greet", "read", "resolved"} /\ look.route # "BypassDetect"
        /\ process.alive /\ process.born = look.seen =>
            /\ look.socksPorts \subseteq {process.socks}
            /\ look.opened => process.bound
            /\ look.osPorts = IF look.opened /\ process.family \in look.families
                              THEN Own(process) ELSE {}

\* Its own facts are consistent, and nothing is resolved before its time.
LookIsSound ==
    /\ look.socksPorts \subseteq look.osPorts \ {ApiPort}
    /\ look.seen <= process.born
    /\ look.at # "resolved" => look.port = 0 /\ look.verdict = "Unknown"
    /\ look.at = "gate" => look.route # "Takeover"
    /\ look.at \in {"off", "gate", "scan", "greet"} => look.socksPorts = {}
    /\ look.at \in {"greet", "read", "resolved"} /\ look.route # "BypassDetect" =>
          (look.osFactsReadable <=>
              look.families # {} /\ (look.route = "Takeover" => look.osPorts # {}))

PortInv ==
    /\ process \in Process /\ look \in LookRecord /\ SeenIsTrue /\ LookIsSound /\ PortsAreTrue

-----------------------------------------------------------------------------
(* PortAdoption: lemmas about the candidates and their order.               *)

Sorts(s, S) ==
    ToSet(s) = S /\ \A i, j \in DOMAIN s : i < j => s[i] < s[j]

Sortable(S) == \E s \in [1 .. Cardinality(S) -> S] : Sorts(s, S)

\* Every finite set of numbers has an ascending enumeration: a smallest set without one
\* would have one without its smallest member.
LEMMA FiniteIsSortable == \A S \in SUBSET Nat : IsFiniteSet(S) => Sortable(S)
<1> DEFINE Bad == {Cardinality(S) : S \in {T \in SUBSET Nat : IsFiniteSet(T) /\ ~Sortable(T)}}
<1> SUFFICES ASSUME Bad # {} PROVE FALSE
  OBVIOUS
<1>1. Bad \subseteq Nat
  BY FS_CardinalityType
<1>2. Min(Bad) \in Bad /\ \A y \in Bad : Min(Bad) <= y
  BY <1>1, MinOfNats
<1>3. PICK S \in SUBSET Nat : IsFiniteSet(S) /\ ~Sortable(S) /\ Cardinality(S) = Min(Bad)
  BY <1>2
<1>4. \A T \in SUBSET Nat : IsFiniteSet(T) /\ Cardinality(T) < Cardinality(S) => Sortable(T)
  <2>1. ASSUME NEW T \in SUBSET Nat, IsFiniteSet(T), Cardinality(T) < Cardinality(S), ~Sortable(T)
        PROVE  FALSE
    <3>1. Cardinality(T) \in Bad
      BY <2>1
    <3> HIDE DEF Bad
    <3>2. Cardinality(S) <= Cardinality(T) /\ Cardinality(S) \in Nat /\ Cardinality(T) \in Nat
      BY <1>2, <1>3, <2>1, <3>1, FS_CardinalityType
    <3> QED
      BY <2>1, <3>2
  <2> QED
    BY <2>1
<1> HIDE DEF Bad
<1> DEFINE n == Cardinality(S)
<1>5. n \in Nat
  BY <1>3, FS_CardinalityType
<1>6. CASE S = {}
  <2>1. n = 0
    BY <1>6, FS_EmptySet
  <2>2. << >> \in [1 .. n -> S] /\ DOMAIN << >> = {}
    BY <1>6, <2>1
  <2>3. Sorts(<< >>, S)
    BY <1>6, <2>2 DEF Sorts, ToSet
  <2> QED
    BY <1>3, <2>2, <2>3 DEF Sortable
<1>7. CASE S # {}
  <2> DEFINE m == Min(S)
             T == S \ {m}
  <2>1. m \in S /\ \A y \in S : m <= y
    BY <1>7, MinOfNats
  <2>2. IsFiniteSet(T) /\ Cardinality(T) = n - 1
    BY <1>3, <2>1, FS_RemoveElement
  <2>3. n # 0
    BY <1>3, <2>1, FS_EmptySet
  <2> HIDE DEF m
  <2>4. Sortable(T)
    BY <1>4, <1>5, <2>2
  <2>5. PICK t \in [1 .. n - 1 -> T] : Sorts(t, T)
    BY <2>2, <2>4 DEF Sortable
  <2> HIDE DEF n
  <2> DEFINE e(i) == IF i = 1 THEN m ELSE t[i - 1]
             s == [i \in 1 .. n |-> e(i)]
  <2>6. \A i \in 2 .. n : i - 1 \in 1 .. n - 1 /\ e(i) = t[i - 1] /\ t[i - 1] \in T
    BY <1>5
  <2>7. \A i \in 1 .. n : i = 1 \/ i \in 2 .. n
    BY <1>5
  <2>8. \A i \in 1 .. n : e(i) \in S
    BY <2>1, <2>6, <2>7
  <2>9. s \in [1 .. n -> S]
    BY <2>8
  <2>10. \A x \in S : \E i \in 1 .. n : e(i) = x
    <3> SUFFICES ASSUME NEW x \in S PROVE \E i \in 1 .. n : e(i) = x
      OBVIOUS
    <3>1. CASE x = m
      <4>1. 1 \in 1 .. n /\ e(1) = m
        BY <1>5, <2>3
      <4> QED
        BY <3>1, <4>1
    <3>2. CASE x # m
      <4>1. PICK k \in 1 .. n - 1 : t[k] = x
        BY <2>5, <3>2 DEF Sorts, ToSet
      <4>2. k + 1 \in 1 .. n /\ k + 1 # 1 /\ (k + 1) - 1 = k
        BY <1>5
      <4>3. e(k + 1) = x
        BY <4>1, <4>2
      <4> QED
        BY <4>2, <4>3
    <3> QED
      BY <3>1, <3>2
  <2>11. \A i, j \in 1 .. n : i < j => e(i) < e(j)
    <3> SUFFICES ASSUME NEW i \in 1 .. n, NEW j \in 1 .. n, i < j PROVE e(i) < e(j)
      OBVIOUS
    <3>1. j \in 2 .. n
      BY <1>5
    <3>2. CASE i = 1
      <4>1. e(j) \in S /\ e(j) # m /\ e(i) = m
        BY <2>6, <3>1, <3>2
      <4>2. m <= e(j) /\ m \in Nat /\ e(j) \in Nat
        BY <2>1, <4>1
      <4> QED
        BY <4>1, <4>2
    <3>3. CASE i # 1
      <4>1. i \in 2 .. n
        BY <2>7, <3>3
      <4>2. i - 1 < j - 1
        BY <1>5
      <4>3. t[i - 1] < t[j - 1]
        BY <2>5, <2>6, <3>1, <4>1, <4>2 DEF Sorts
      <4> QED
        BY <2>6, <3>1, <4>1, <4>3
    <3> QED
      BY <3>2, <3>3
  <2>12. DOMAIN s = 1 .. n /\ \A i \in 1 .. n : s[i] = e(i)
    OBVIOUS
  <2> HIDE DEF s, e
  <2>13. Sorts(s, S)
    <3>1. \A i \in 1 .. n : s[i] \in S
      BY <2>8, <2>12
    <3>2. \A x \in S : \E i \in 1 .. n : s[i] = x
      BY <2>10, <2>12
    <3>3. ToSet(s) = S
      BY <2>12, <3>1, <3>2 DEF ToSet
    <3>4. \A i, j \in DOMAIN s : i < j => s[i] < s[j]
      BY <2>11, <2>12
    <3> QED
      BY <3>3, <3>4 DEF Sorts
  <2> QED
    BY <1>3, <2>9, <2>13 DEF Sortable, n
<1> QED
  BY <1>6, <1>7

LEMMA PortsAreFinite ==
    /\ Port \subseteq Nat \ {0} /\ IsFiniteSet(Port) /\ ApiPort \in Port /\ MaxReuses \in Nat
BY PortAssumption

LEMMA PortsAreNumbers == \A x \in Port \cup {0} : x \in Nat
BY PortAssumption

\* Ascending() enumerates.
LEMMA AscendingEnumerates ==
    ASSUME NEW ports \in SUBSET Port
    PROVE  /\ Ascending(ports) \in Seq(Port) /\ ToSet(Ascending(ports)) = ports
<1>1. ports \in SUBSET Nat /\ IsFiniteSet(ports) /\ Cardinality(ports) \in Nat
  BY PortsAreFinite, FS_Subset, FS_CardinalityType
<1>2. Sortable(ports)
  BY <1>1, FiniteIsSortable
<1>3. Ascending(ports) \in [1 .. Cardinality(ports) -> ports] /\ ToSet(Ascending(ports)) = ports
  BY <1>2 DEF Sortable, Sorts, Ascending
<1>4. Ascending(ports) \in [1 .. Cardinality(ports) -> Port]
  BY <1>3
<1>5. Ascending(ports) \in Seq(Port)
  BY <1>1, <1>4, IsASeq
<1> QED
  BY <1>3, <1>5

\* The order of the candidates of the operating system
FirstAnswers(order, ports, socks) ==
    /\ order \in Seq(Port)
    /\ \A n \in DOMAIN order : order[n] \in ports
    /\ ports # {} => 1 \in DOMAIN order
    /\ ports \cap socks # {} => 1 \in DOMAIN order /\ order[1] \in ports \cap socks

\* orderOsCandidatesBySocks() keeps the ports and puts one that answers first.
LEMMA SocksFirst ==
    ASSUME NEW ports \in SUBSET Port, NEW socks \in SUBSET Port
    PROVE  FirstAnswers(orderOsCandidatesBySocks(ports, socks), ports, socks)
<1> DEFINE a == Ascending(ports \cap socks)
           b == Ascending(ports \ socks)
           order == a \o b
<1>1. /\ a \in Seq(Port) /\ ToSet(a) = ports \cap socks
      /\ b \in Seq(Port) /\ ToSet(b) = ports \ socks
  BY AscendingEnumerates
<1>2. orderOsCandidatesBySocks(ports, socks) = order
  BY DEF orderOsCandidatesBySocks
<1> HIDE DEF a, b
<1>3. /\ Len(a) \in Nat /\ Len(b) \in Nat /\ DOMAIN a = 1 .. Len(a) /\ DOMAIN b = 1 .. Len(b)
  BY <1>1, LenProperties
<1>4. /\ order \in Seq(Port) /\ Len(order) = Len(a) + Len(b)
      /\ \A i \in 1 .. Len(a) + Len(b) : order[i] = IF i <= Len(a) THEN a[i] ELSE b[i - Len(a)]
  BY <1>1, ConcatProperties
<1>5. DOMAIN order = 1 .. Len(a) + Len(b)
  BY <1>4, LenProperties
<1> HIDE DEF order
<1>6. ASSUME NEW n \in DOMAIN order PROVE order[n] \in ports
  <2>1. n \in Nat /\ n >= 1 /\ n <= Len(a) + Len(b)
    BY <1>3, <1>5
  <2>2. CASE n <= Len(a)
    <3>1. n \in DOMAIN a /\ order[n] = a[n]
      BY <1>3, <1>4, <1>5, <2>1, <2>2
    <3> QED
      BY <1>1, <3>1 DEF ToSet
  <2>3. CASE ~(n <= Len(a))
    <3>1. n - Len(a) \in DOMAIN b /\ order[n] = b[n - Len(a)]
      BY <1>3, <1>4, <1>5, <2>1, <2>3
    <3> QED
      BY <1>1, <3>1 DEF ToSet
  <2> QED
    BY <2>2, <2>3
<1>7. ASSUME ports \cap socks # {} PROVE 1 \in DOMAIN order /\ order[1] \in ports \cap socks
  <2>1. DOMAIN a # {}
    BY <1>1, <1>7 DEF ToSet
  <2>2. 1 \in DOMAIN a /\ 1 <= Len(a) /\ 1 \in 1 .. Len(a) + Len(b)
    BY <1>3, <2>1
  <2>3. order[1] = a[1]
    BY <1>4, <2>2
  <2> QED
    BY <1>1, <1>5, <2>2, <2>3 DEF ToSet
<1>8. ASSUME ports # {} PROVE 1 \in DOMAIN order
  <2>1. DOMAIN a # {} \/ DOMAIN b # {}
    BY <1>1, <1>8 DEF ToSet
  <2>2. Len(a) + Len(b) >= 1
    BY <1>3, <2>1
  <2> QED
    BY <1>3, <1>5, <2>2
<1>9. FirstAnswers(order, ports, socks)
  BY <1>4, <1>6, <1>7, <1>8 DEF FirstAnswers
<1> QED
  BY <1>2, <1>9

\* A candidate of the chain that is not disproven
Stands(l, c) == c.port > 0 /\ classifyPortCandidate(c.port, l) # "Disproven"

OfferRecord == [source : Tier, port : Port \cup {0}]

\* resolveChainPort() takes the first that stands, or leaves everything as it was.
LEMMA ChainResolves ==
    ASSUME NEW l \in LookRecord, NEW chain \in Seq(OfferRecord)
    PROVE  LET r == resolveChainPort(l, chain) IN
           \/ r = l /\ \A n \in DOMAIN chain : ~Stands(l, chain[n])
           \/ \E n \in DOMAIN chain :
                 /\ Stands(l, chain[n]) /\ \A m \in DOMAIN chain : Stands(l, chain[m]) => n <= m
                 /\ r = [l EXCEPT !.port = chain[n].port, !.source = chain[n].source,
                                  !.verdict = classifyPortCandidate(chain[n].port, l)]
<1> DEFINE left == {n \in DOMAIN chain : Stands(l, chain[n])}
<1>1. DOMAIN chain \subseteq Nat
  BY LenProperties
<1>2. resolveChainPort(l, chain) =
        IF left = {} THEN l
        ELSE [l EXCEPT !.port = chain[Min(left)].port, !.source = chain[Min(left)].source,
                       !.verdict = classifyPortCandidate(chain[Min(left)].port, l)]
  BY DEF resolveChainPort, Stands
<1>3. CASE left = {}
  BY <1>2, <1>3
<1>4. CASE left # {}
  <2>1. Min(left) \in left /\ \A y \in left : Min(left) <= y
    BY <1>1, <1>4, MinOfNats
  <2> QED
    BY <1>2, <1>4, <2>1
<1> QED
  BY <1>3, <1>4

\* The candidates of the operating system: ports that it lists, the one that answers first.
LEMMA OsChain ==
    ASSUME PortInv
    PROVE  /\ OsCandidates \in Seq(OfferRecord)
           /\ \A n \in DOMAIN OsCandidates : OsCandidates[n].port \in look.osPorts \ {ApiPort}
           /\ look.osPorts \ {ApiPort} # {} => 1 \in DOMAIN OsCandidates
           /\ look.socksPorts # {} =>
                 1 \in DOMAIN OsCandidates /\ OsCandidates[1].port \in look.socksPorts
<1> DEFINE ports == buildOsCandidates(look.osPorts)
           order == orderOsCandidatesBySocks(ports, look.socksPorts)
<1>1. /\ look.osPorts \subseteq Port /\ look.socksPorts \subseteq Port
      /\ look.socksPorts \subseteq look.osPorts \ {ApiPort}
  BY DEF PortInv, LookRecord, LookIsSound
<1>2. ports = look.osPorts \ {ApiPort} /\ ports \in SUBSET Port
  BY <1>1 DEF buildOsCandidates
<1> HIDE DEF ports
<1>3. /\ order \in Seq(Port) /\ \A n \in DOMAIN order : order[n] \in ports
      /\ ports # {} => 1 \in DOMAIN order
      /\ ports \cap look.socksPorts # {} => 1 \in DOMAIN order /\ order[1] \in ports \cap look.socksPorts
  <2>1. FirstAnswers(order, ports, look.socksPorts)
    BY <1>1, <1>2, SocksFirst
  <2> HIDE DEF order
  <2> QED
    BY <2>1 DEF FirstAnswers
<1>4. OsCandidates = [n \in DOMAIN order |-> Offer("OsTcpTable", order[n])]
  BY DEF OsCandidates, ports
<1> HIDE DEF order
<1>5. Len(order) \in Nat /\ DOMAIN order = 1 .. Len(order)
  BY <1>3, LenProperties
<1>6. \A n \in DOMAIN order : Offer("OsTcpTable", order[n]) \in OfferRecord
  BY <1>2, <1>3 DEF OfferRecord, Offer, Tier
<1>7. OsCandidates \in [1 .. Len(order) -> OfferRecord]
  BY <1>4, <1>5, <1>6
<1>8. OsCandidates \in Seq(OfferRecord)
  BY <1>5, <1>7, IsASeq
<1>9. /\ DOMAIN OsCandidates = DOMAIN order
      /\ \A n \in DOMAIN order : OsCandidates[n].port = order[n]
  BY <1>4 DEF Offer
<1> QED
  BY <1>1, <1>2, <1>3, <1>8, <1>9

\* The port that is resolved is one that stands, and none stands before it; the
\* candidates of the operating system come last.
LEMMA ResolveTakesFirst ==
    ASSUME PortInv, NEW records \in Seq(OfferRecord), Resolve(records)
    PROVE  /\ look' \in LookRecord /\ look'.at = "resolved"
           /\ look'.route = look.route /\ look'.seen = look.seen /\ look'.opened = look.opened
           /\ look'.families = look.families /\ look'.osPorts = look.osPorts
           /\ look'.socksPorts = look.socksPorts /\ look'.osFactsReadable = look.osFactsReadable
           /\ look'.recorded = {c.port : c \in ToSet(records)}
           /\ \/ /\ look'.port = look.port /\ look'.verdict = look.verdict
                 /\ \A c \in ToSet(records) : ~Stands(look, c)
                 /\ \A n \in DOMAIN OsCandidates : ~Stands(look, OsCandidates[n])
              \/ /\ look'.port > 0 /\ look'.verdict # "Disproven"
                 /\ look'.verdict = classifyPortCandidate(look'.port, look)
                 /\ \/ look'.port \in look'.recorded
                    \/ \E n \in DOMAIN OsCandidates :
                          /\ look'.port = OsCandidates[n].port
                          /\ \A m \in DOMAIN OsCandidates :
                                Stands(look, OsCandidates[m]) => n <= m
<1> DEFINE R == {c.port : c \in ToSet(records)}
           l == [look EXCEPT !.at = "resolved", !.recorded = R]
           chain == records \o OsCandidates
<1>1. OsCandidates \in Seq(OfferRecord)
  BY OsChain
<1>2. /\ Len(records) \in Nat /\ Len(OsCandidates) \in Nat
      /\ DOMAIN records = 1 .. Len(records) /\ DOMAIN OsCandidates = 1 .. Len(OsCandidates)
  BY <1>1, LenProperties
<1>3. /\ chain \in Seq(OfferRecord) /\ Len(chain) = Len(records) + Len(OsCandidates)
      /\ \A i \in 1 .. Len(records) + Len(OsCandidates) :
            chain[i] = IF i <= Len(records) THEN records[i] ELSE OsCandidates[i - Len(records)]
  BY <1>1, ConcatProperties
<1>4. DOMAIN chain = 1 .. Len(records) + Len(OsCandidates)
  BY <1>3, LenProperties
<1>5. ToSet(records) = {records[i] : i \in DOMAIN records}
  BY DEF ToSet
<1>6. R \in SUBSET (Port \cup {0})
  <2>1. \A i \in DOMAIN records : records[i] \in OfferRecord
    BY <1>2
  <2> QED
    BY <1>5, <2>1 DEF OfferRecord
<1>7. look' = resolveChainPort(l, chain)
  BY DEF Resolve
<1> HIDE DEF R
<1>8. l \in LookRecord
  BY <1>6 DEF LookRecord, PortInv
<1>9. /\ l.at = "resolved" /\ l.recorded = R /\ l.port = look.port /\ l.verdict = look.verdict
      /\ l.route = look.route /\ l.seen = look.seen /\ l.opened = look.opened
      /\ l.families = look.families /\ l.osPorts = look.osPorts
      /\ l.socksPorts = look.socksPorts /\ l.osFactsReadable = look.osFactsReadable
  BY DEF LookRecord, PortInv
<1> HIDE DEF l
<1>10. \A x : classifyPortCandidate(x, l) = classifyPortCandidate(x, look)
  BY <1>9 DEF classifyPortCandidate
<1>11. \A c : Stands(l, c) <=> Stands(look, c)
  BY <1>10 DEF Stands
<1>12. \A i \in DOMAIN records : i \in DOMAIN chain /\ chain[i] = records[i]
  BY <1>2, <1>3, <1>4
<1>13. \A i \in DOMAIN OsCandidates :
          i + Len(records) \in DOMAIN chain /\ chain[i + Len(records)] = OsCandidates[i]
  <2> SUFFICES ASSUME NEW i \in DOMAIN OsCandidates
               PROVE  i + Len(records) \in DOMAIN chain /\ chain[i + Len(records)] = OsCandidates[i]
    OBVIOUS
  <2>1. i \in Nat /\ i >= 1 /\ i <= Len(OsCandidates)
    BY <1>2
  <2>2. i + Len(records) \in 1 .. Len(records) + Len(OsCandidates) /\ ~(i + Len(records) <= Len(records))
    BY <1>2, <2>1
  <2>3. (i + Len(records)) - Len(records) = i
    BY <1>2, <2>1
  <2>4. chain[i + Len(records)] = OsCandidates[(i + Len(records)) - Len(records)]
    BY <1>3, <2>2
  <2> QED
    BY <1>4, <2>2, <2>3, <2>4
<1>14. \A i \in DOMAIN chain : \/ i \in DOMAIN records
                               \/ i - Len(records) \in DOMAIN OsCandidates /\ i \in Nat
  BY <1>2, <1>4
<1>15. \A i \in DOMAIN chain : chain[i] \in OfferRecord
  BY <1>3, LenProperties
<1> HIDE DEF chain
<1>16. \/ look' = l /\ \A n \in DOMAIN chain : ~Stands(l, chain[n])
       \/ \E n \in DOMAIN chain :
             /\ Stands(l, chain[n]) /\ \A m \in DOMAIN chain : Stands(l, chain[m]) => n <= m
             /\ look' = [l EXCEPT !.port = chain[n].port, !.source = chain[n].source,
                                  !.verdict = classifyPortCandidate(chain[n].port, l)]
  BY <1>3, <1>7, <1>8, ChainResolves
<1>17. CASE look' = l /\ \A n \in DOMAIN chain : ~Stands(l, chain[n])
  <2>1. \A c \in ToSet(records) : ~Stands(look, c)
    BY <1>5, <1>11, <1>12, <1>17
  <2>2. \A n \in DOMAIN OsCandidates : ~Stands(look, OsCandidates[n])
    BY <1>11, <1>13, <1>17
  <2> QED
    BY <1>8, <1>9, <1>17, <2>1, <2>2 DEF R
<1>18. CASE \E n \in DOMAIN chain :
             /\ Stands(l, chain[n]) /\ \A m \in DOMAIN chain : Stands(l, chain[m]) => n <= m
             /\ look' = [l EXCEPT !.port = chain[n].port, !.source = chain[n].source,
                                  !.verdict = classifyPortCandidate(chain[n].port, l)]
  <2>1. PICK n \in DOMAIN chain :
             /\ Stands(l, chain[n]) /\ \A m \in DOMAIN chain : Stands(l, chain[m]) => n <= m
             /\ look' = [l EXCEPT !.port = chain[n].port, !.source = chain[n].source,
                                  !.verdict = classifyPortCandidate(chain[n].port, l)]
    BY <1>18
  <2>2. chain[n].port \in Port \cup {0} /\ chain[n].source \in Tier
    BY <1>15 DEF OfferRecord
  <2>3. classifyPortCandidate(chain[n].port, l) # "Disproven" /\ chain[n].port > 0
    BY <2>1 DEF Stands
  <2> DEFINE c == chain[n].port
             s == chain[n].source
             v == classifyPortCandidate(c, l)
  <2>4. look' = [l EXCEPT !.port = c, !.source = s, !.verdict = v]
    BY <2>1
  <2>7. c \in Port \cup {0} /\ s \in Tier /\ v = classifyPortCandidate(c, l) /\ v # "Disproven"
    BY <2>2, <2>3
  <2>8. c = chain[n].port /\ c > 0
    BY <2>3
  <2>10. v \in {"Unknown", "Unverified", "Verified"}
    BY <2>7 DEF classifyPortCandidate
  <2> HIDE DEF c, s, v
  <2>11. look' \in LookRecord
    BY <1>8, <2>4, <2>7, <2>10 DEF LookRecord
  <2>9. /\ look' \in LookRecord /\ look'.port = c /\ look'.verdict = v
        /\ look'.at = l.at /\ look'.route = l.route /\ look'.seen = l.seen
        /\ look'.opened = l.opened /\ look'.families = l.families /\ look'.osPorts = l.osPorts
        /\ look'.socksPorts = l.socksPorts /\ look'.recorded = l.recorded
        /\ look'.osFactsReadable = l.osFactsReadable
    BY <1>8, <2>4, <2>11 DEF LookRecord
  <2>5. CASE n \in DOMAIN records
    <3>1. chain[n].port \in R
      BY <1>5, <1>12, <2>5 DEF R
    <3> QED
      BY <1>9, <1>10, <2>7, <2>8, <2>9, <3>1 DEF R
  <2>6. CASE n - Len(records) \in DOMAIN OsCandidates /\ n \in Nat
    <3> DEFINE k == n - Len(records)
    <3>1. k \in DOMAIN OsCandidates /\ k + Len(records) = n
      BY <1>2, <2>6
    <3>2. chain[n] = OsCandidates[k]
      BY <1>13, <3>1
    <3>3. ASSUME NEW m \in DOMAIN OsCandidates, Stands(look, OsCandidates[m]) PROVE k <= m
      <4>1. n <= m + Len(records)
        BY <1>11, <1>13, <2>1, <3>3
      <4>2. m \in Nat /\ k \in Nat
        BY <1>2, <3>1
      <4> QED
        BY <1>2, <2>6, <4>1, <4>2
    <3> HIDE DEF k
    <3>4. \E i \in DOMAIN OsCandidates :
             /\ look'.port = OsCandidates[i].port
             /\ \A m \in DOMAIN OsCandidates : Stands(look, OsCandidates[m]) => i <= m
      BY <2>8, <2>9, <3>1, <3>2, <3>3
    <3> QED
      BY <1>9, <1>10, <2>7, <2>8, <2>9, <3>4 DEF R
  <2> QED
    BY <1>14, <2>1, <2>5, <2>6
<1> QED
  BY <1>16, <1>17, <1>18

-----------------------------------------------------------------------------
(* PortAdoption: every step preserves the invariant.                        *)

LEMMA PortInitially == PortInit => PortInv
<1> SUFFICES ASSUME PortInit PROVE PortInv
  OBVIOUS
<1>1. process \in Process /\ look = NoLook /\ process.born \in Nat
  BY PortsAreFinite DEF PortInit, Process
<1>2. look \in LookRecord
  BY <1>1 DEF NoLook, LookRecord, Tier
<1>3. /\ look.at = "off" /\ look.socksPorts = {} /\ look.seen = 0
      /\ look.port = 0 /\ look.verdict = "Unknown"
  BY <1>1 DEF NoLook
<1>4. SeenIsTrue
  BY <1>3 DEF SeenIsTrue
<1>5. LookIsSound
  BY <1>1, <1>3 DEF LookIsSound
<1>6. PortsAreTrue
  BY <1>3 DEF PortsAreTrue, HealthyIsAdopted, ServingPortIsFound, SilentProcess, Found
<1> QED
  BY <1>1, <1>2, <1>4, <1>5, <1>6 DEF PortInv

\* Enumerated(): the sweep begins with a fresh record of a living process.
LEMMA EnumeratedKeeps ==
    ASSUME PortInv, NEW route \in {"FullDetect", "BypassDetect", "Takeover"}, Enumerated(route)
    PROVE  PortInv'
<1>1. process' = process /\ process \in Process /\ process.born \in Nat
  BY PortsAreFinite DEF PortInv, Enumerated, Process
<1>2. PICK time \in Unread(process.born) :
          look' = [NoLook EXCEPT !.route = route, !.seen = process.born,
                                 !.config = process.config,
                                 !.creationTime = IF route = "Takeover" THEN 0 ELSE time,
                                 !.at = IF route = "Takeover" THEN "scan" ELSE "gate"]
  BY DEF Enumerated
<1> DEFINE at == IF route = "Takeover" THEN "scan" ELSE "gate"
           known == IF route = "Takeover" THEN 0 ELSE time
<1>3. /\ at \in {"scan", "gate"} /\ (at = "gate" => route # "Takeover") /\ known \in Nat
      /\ process.config \in {"path", "name", "unread", "other"}
  BY <1>1 DEF Unread, Process
<1>4. look' = [NoLook EXCEPT !.route = route, !.seen = process.born, !.config = process.config,
                             !.creationTime = known, !.at = at]
  BY <1>2
<1> HIDE DEF at, known
<1>5. look' \in LookRecord
  BY <1>1, <1>3, <1>4 DEF NoLook, LookRecord, Tier
<1>6. /\ look'.at = at /\ look'.socksPorts = {} /\ look'.seen = process.born
      /\ look'.port = 0 /\ look'.verdict = "Unknown" /\ look'.route = route
  BY <1>4 DEF NoLook
<1>7. SeenIsTrue'
  BY <1>3, <1>6 DEF SeenIsTrue
<1>8. LookIsSound'
  BY <1>1, <1>3, <1>6 DEF LookIsSound
<1>9. PortsAreTrue'
  BY <1>3, <1>6 DEF PortsAreTrue, HealthyIsAdopted, ServingPortIsFound, SilentProcess, Found
<1> QED
  BY <1>1, <1>5, <1>7, <1>8, <1>9 DEF PortInv

\* CheckIdentity(): the sweep goes on with what it has enumerated, or gives it up.
LEMMA CheckIdentityKeeps == PortInv /\ CheckIdentity => PortInv'
<1> SUFFICES ASSUME PortInv, CheckIdentity PROVE PortInv'
  OBVIOUS
<1>1. process' = process /\ process \in Process /\ process.born \in Nat /\ look \in LookRecord
  BY PortsAreFinite DEF PortInv, CheckIdentity, Process
<1>2. /\ look.at = "gate" /\ look.socksPorts = {} /\ look.seen <= process.born
      /\ look.port = 0 /\ look.verdict = "Unknown" /\ look.route # "Takeover"
  BY DEF PortInv, LookIsSound, CheckIdentity
<1>3. \/ look' = NoLook
      \/ look' = [look EXCEPT !.at = IF look.route = "FullDetect" THEN "scan" ELSE "read",
                              !.creationTime = 0]
  BY DEF CheckIdentity
<1>4. CASE look' = NoLook
  <2>1. look' \in LookRecord
    BY <1>4 DEF NoLook, LookRecord, Tier
  <2>2. /\ look'.at = "off" /\ look'.socksPorts = {} /\ look'.seen = 0
        /\ look'.port = 0 /\ look'.verdict = "Unknown"
    BY <1>4 DEF NoLook
  <2>3. SeenIsTrue'
    BY <2>2 DEF SeenIsTrue
  <2>4. LookIsSound'
    BY <1>1, <2>2 DEF LookIsSound
  <2>5. PortsAreTrue'
    BY <2>2 DEF PortsAreTrue, HealthyIsAdopted, ServingPortIsFound, SilentProcess, Found
  <2> QED
    BY <1>1, <2>1, <2>3, <2>4, <2>5 DEF PortInv
<1>5. CASE look' = [look EXCEPT !.at = IF look.route = "FullDetect" THEN "scan" ELSE "read",
                                !.creationTime = 0]
  <2> DEFINE at == IF look.route = "FullDetect" THEN "scan" ELSE "read"
  <2>1. at \in {"scan", "read"} /\ (look.route # "BypassDetect" => at = "scan")
    BY <1>1, <1>2 DEF LookRecord
  <2>2. look' = [look EXCEPT !.at = at, !.creationTime = 0]
    BY <1>5
  <2> HIDE DEF at
  <2>3. look' \in LookRecord
    BY <1>1, <2>1, <2>2 DEF LookRecord
  <2>4. /\ look'.at = at /\ look'.socksPorts = {} /\ look'.seen = look.seen
        /\ look'.port = 0 /\ look'.verdict = "Unknown" /\ look'.route = look.route
    BY <1>1, <1>2, <2>2 DEF LookRecord
  <2>5. SeenIsTrue'
    BY <2>1, <2>4 DEF SeenIsTrue
  <2>6. LookIsSound'
    BY <1>1, <1>2, <2>1, <2>4 DEF LookIsSound
  <2>7. PortsAreTrue'
    BY <2>1, <2>4 DEF PortsAreTrue, HealthyIsAdopted, ServingPortIsFound, SilentProcess, Found
  <2> QED
    BY <1>1, <2>3, <2>5, <2>6, <2>7 DEF PortInv
<1> QED
  BY <1>3, <1>4, <1>5

\* Scan(): what it lists is what is open now.
LEMMA ScanKeeps == PortInv /\ Scan => PortInv'
<1> SUFFICES ASSUME PortInv, Scan PROVE PortInv'
  OBVIOUS
<1>1. process' = process /\ process \in Process /\ look \in LookRecord
  BY DEF PortInv, Scan
<1>2. /\ look.at = "scan" /\ look.socksPorts = {} /\ look.seen <= process.born
      /\ look.port = 0 /\ look.verdict = "Unknown"
  BY DEF PortInv, LookIsSound, Scan
<1>3. PICK families \in SUBSET Family :
          LET ports == IF process.family \in families THEN Own(process) ELSE {}
          IN  look' = [look EXCEPT
                 !.at = "greet", !.families = families, !.osPorts = ports,
                 !.opened = process.bound,
                 !.osFactsReadable = families # {} /\ (look.route = "Takeover" => ports # {})]
  BY DEF Scan
<1> DEFINE ports == IF process.family \in families THEN Own(process) ELSE {}
           readable == families # {} /\ (look.route = "Takeover" => ports # {})
<1>4. look' = [look EXCEPT !.at = "greet", !.families = families, !.osPorts = ports,
                           !.opened = process.bound, !.osFactsReadable = readable]
  BY <1>3
<1>5. Own(process) \in SUBSET Port /\ (~process.bound => Own(process) = {})
  BY <1>1 DEF Own, Process
<1>6. ports \in SUBSET Port /\ (~process.bound => ports = {}) /\ process.bound \in BOOLEAN
  BY <1>1, <1>5 DEF Process
<1>7. readable \in BOOLEAN /\ (readable <=> families # {} /\ (look.route = "Takeover" => ports # {}))
  OBVIOUS
<1>8. ports = IF process.bound /\ process.family \in families THEN Own(process) ELSE {}
  BY <1>5
<1> HIDE DEF ports, readable
<1>9. look' \in LookRecord
  BY <1>1, <1>4, <1>6, <1>7 DEF LookRecord
<1>10. /\ look'.at = "greet" /\ look'.socksPorts = {} /\ look'.seen = look.seen
       /\ look'.port = 0 /\ look'.verdict = "Unknown" /\ look'.route = look.route
       /\ look'.families = families /\ look'.osPorts = ports /\ look'.opened = process.bound
       /\ look'.osFactsReadable = readable
  BY <1>1, <1>2, <1>4 DEF LookRecord
<1>11. SeenIsTrue'
  BY <1>1, <1>8, <1>10 DEF SeenIsTrue
<1>12. LookIsSound'
  BY <1>1, <1>2, <1>7, <1>10 DEF LookIsSound
<1>13. PortsAreTrue'
  BY <1>10 DEF PortsAreTrue, HealthyIsAdopted, ServingPortIsFound, SilentProcess, Found
<1> QED
  BY <1>1, <1>9, <1>11, <1>12, <1>13 DEF PortInv

\* Greet(): only the port that serves answers.
LEMMA GreetKeeps == PortInv /\ Greet => PortInv'
<1> SUFFICES ASSUME PortInv, Greet PROVE PortInv'
  OBVIOUS
<1>1. process' = process /\ process \in Process /\ look \in LookRecord
  BY DEF PortInv, Greet
<1>2. /\ look.at = "greet" /\ look.seen <= process.born
      /\ look.port = 0 /\ look.verdict = "Unknown"
  BY DEF PortInv, LookIsSound, Greet
<1>3. PICK answers \in SUBSET (buildOsCandidates(look.osPorts) \cap Own(process) \cap {process.socks}) :
          look' = [look EXCEPT !.at = "read", !.socksPorts = answers]
  BY DEF Greet
<1>4. answers \subseteq look.osPorts \ {ApiPort} /\ answers \subseteq {process.socks} /\ answers \in SUBSET Port
  BY <1>1, <1>3 DEF buildOsCandidates, LookRecord
<1>5. look' \in LookRecord
  BY <1>1, <1>3, <1>4 DEF LookRecord
<1>6. /\ look'.at = "read" /\ look'.socksPorts = answers /\ look'.seen = look.seen
      /\ look'.port = 0 /\ look'.verdict = "Unknown" /\ look'.route = look.route
      /\ look'.families = look.families /\ look'.osPorts = look.osPorts
      /\ look'.opened = look.opened /\ look'.osFactsReadable = look.osFactsReadable
  BY <1>1, <1>2, <1>3 DEF LookRecord
<1>7. SeenIsTrue'
  BY <1>1, <1>2, <1>4, <1>6 DEF SeenIsTrue, PortInv
<1>8. LookIsSound'
  BY <1>1, <1>2, <1>4, <1>6 DEF LookIsSound, PortInv
<1>9. PortsAreTrue'
  BY <1>6 DEF PortsAreTrue, HealthyIsAdopted, ServingPortIsFound, SilentProcess, Found
<1> QED
  BY <1>1, <1>5, <1>7, <1>8, <1>9 DEF PortInv

\* The chain finds the port: what is known of the process when it is resolved.
LEMMA ResolveKeeps ==
    ASSUME PortInv, look.at = "read", look.route # "BypassDetect",
           NEW records \in Seq(OfferRecord), Resolve(records), process' = process
    PROVE  PortInv'
<1> DEFINE R == {c.port : c \in ToSet(records)}
           os == OsCandidates
<1>1. /\ process \in Process /\ process.born \in Nat /\ look \in LookRecord
      /\ SeenIsTrue /\ LookIsSound
  BY PortsAreFinite DEF PortInv, Process
<1>2. /\ look'.at = "resolved" /\ look'.recorded = R /\ look' \in LookRecord
      /\ look'.route = look.route /\ look'.seen = look.seen /\ look'.opened = look.opened
      /\ look'.families = look.families /\ look'.osPorts = look.osPorts
      /\ look'.socksPorts = look.socksPorts /\ look'.osFactsReadable = look.osFactsReadable
  BY ResolveTakesFirst
<1>3. \/ /\ look'.port = look.port /\ look'.verdict = look.verdict
         /\ \A c \in ToSet(records) : ~Stands(look, c)
         /\ \A n \in DOMAIN os : ~Stands(look, os[n])
      \/ /\ look'.port > 0 /\ look'.verdict # "Disproven"
         /\ look'.verdict = classifyPortCandidate(look'.port, look)
         /\ \/ look'.port \in look'.recorded
            \/ \E n \in DOMAIN os : /\ look'.port = os[n].port
                                    /\ \A m \in DOMAIN os : Stands(look, os[m]) => n <= m
  BY ResolveTakesFirst
<1>4. /\ os \in Seq(OfferRecord) /\ DOMAIN os \subseteq Nat \ {0}
      /\ \A n \in DOMAIN os : os[n].port \in look.osPorts \ {ApiPort}
      /\ look.osPorts \ {ApiPort} # {} => 1 \in DOMAIN os
      /\ look.socksPorts # {} => 1 \in DOMAIN os /\ os[1].port \in look.socksPorts
  BY OsChain, LenProperties
<1> HIDE DEF os
<1>5. look.osPorts \subseteq Nat \ {0} /\ ApiPort # 0
  BY <1>1, PortsAreFinite DEF LookRecord
<1>6. \A n \in DOMAIN os : Stands(look, os[n])
  <2> SUFFICES ASSUME NEW n \in DOMAIN os PROVE Stands(look, os[n])
    OBVIOUS
  <2>1. os[n].port \in look.osPorts /\ os[n].port # ApiPort /\ os[n].port > 0
    BY <1>4, <1>5
  <2> QED
    BY <2>1 DEF Stands, classifyPortCandidate
<1>7. look.port = 0 /\ look.verdict = "Unknown"
  BY <1>1 DEF LookIsSound
<1>8. look.osFactsReadable <=> look.families # {} /\ (look.route = "Takeover" => look.osPorts # {})
  BY <1>1 DEF LookIsSound
<1>9. SameProcess =>
        /\ look.socksPorts \subseteq {process.socks} /\ (look.opened => process.bound)
        /\ look.osPorts = IF look.opened /\ process.family \in look.families
                          THEN Own(process) ELSE {}
  BY <1>1 DEF SeenIsTrue, SameProcess
<1>10. SameProcess' = SameProcess /\ Own(process)' = Own(process)
  BY <1>2 DEF SameProcess, Own
<1>11. SeenIsTrue'
  BY <1>2, <1>9, <1>10 DEF SeenIsTrue, SameProcess
<1>12. LookIsSound'
  BY <1>1, <1>2, <1>8 DEF LookIsSound
<1>13. process.family \in Family /\ Family # {}
  BY <1>1 DEF Process, Family
<1>14. CASE /\ look'.port = look.port /\ look'.verdict = look.verdict
            /\ \A c \in ToSet(records) : ~Stands(look, c)
            /\ \A n \in DOMAIN os : ~Stands(look, os[n])
  <2>1. DOMAIN os = {}
    BY <1>6, <1>14
  <2>2. look.osPorts \ {ApiPort} = {} /\ look.socksPorts = {}
    BY <1>4, <2>1
  <2>3. HealthyIsAdopted'
    <3> SUFFICES ASSUME Found', SameProcess', Facts', look'.opened,
                        Own(process)' \ {ApiPort} # {}
                 PROVE  FALSE
      BY DEF HealthyIsAdopted
    <3>1. look.families = Family /\ look.opened
      BY <1>2 DEF Facts
    <3>2. look.osPorts = Own(process)
      BY <1>9, <1>10, <1>13, <3>1
    <3> QED
      BY <1>10, <2>2, <3>2
  <2>4. ServingPortIsFound'
    BY <1>2, <1>7, <1>14, <2>2 DEF ServingPortIsFound
  <2>5. SilentProcess'
    <3> SUFFICES ASSUME SameProcess', Facts', ~look'.opened, look'.route # "FullDetect"
                 PROVE  look'.recorded \subseteq {0, ApiPort}
      BY <1>2, <1>7, <1>14 DEF SilentProcess
    <3>1. look.osPorts = {} /\ look.route = "Takeover"
      BY <1>1, <1>2, <1>9, <1>10 DEF LookRecord
    <3>2. ~look.osFactsReadable
      BY <1>8, <3>1
    <3>3. \A c \in ToSet(records) : ~(c.port > 0) \/ c.port = ApiPort
      BY <1>14, <3>2 DEF Stands, classifyPortCandidate
    <3>4. \A c \in ToSet(records) : c.port \in R /\ R \subseteq Port \cup {0}
      BY <1>2 DEF LookRecord
    <3>5. \A c \in ToSet(records) : c.port \in Nat
      <4>1. \A c \in ToSet(records) : c.port \in Port \cup {0}
        BY <3>4
      <4> QED
        BY <4>1, PortsAreNumbers
    <3>6. \A c \in ToSet(records) : c.port = 0 \/ c.port = ApiPort
      BY <3>3, <3>5
    <3> QED
      BY <1>2, <3>6
  <2>6. PortsAreTrue'
    BY <2>3, <2>4, <2>5 DEF PortsAreTrue
  <2> QED
    BY <1>1, <1>2, <1>11, <1>12, <2>6 DEF PortInv
<1>15. CASE /\ look'.port > 0 /\ look'.verdict # "Disproven"
            /\ look'.verdict = classifyPortCandidate(look'.port, look)
            /\ \/ look'.port \in look'.recorded
               \/ \E n \in DOMAIN os : /\ look'.port = os[n].port
                                       /\ \A m \in DOMAIN os : Stands(look, os[m]) => n <= m
  <2>1. look'.port # ApiPort /\ look'.port # 0 /\ look'.port \in Nat
    <3>1. look'.port \in Nat
      <4>1. look'.port \in Port \cup {0}
        BY <1>2 DEF LookRecord
      <4> QED
        BY <4>1, PortsAreNumbers
    <3>2. look'.port # ApiPort
      BY <1>15 DEF classifyPortCandidate
    <3> QED
      BY <1>15, <3>1, <3>2
  <2>2. look.osFactsReadable => look'.port \in look.osPorts
    BY <1>15 DEF classifyPortCandidate
  <2>3. look'.verdict = "Verified" => look'.port \in look.socksPorts
    BY <1>15 DEF classifyPortCandidate
  <2>4. HealthyIsAdopted'
    <3> SUFFICES ASSUME Found', SameProcess', Facts', look'.opened,
                        Own(process)' \ {ApiPort} # {}
                 PROVE  look'.port \in Own(process)' \ {ApiPort}
      BY DEF HealthyIsAdopted
    <3>1. look.families = Family /\ look.opened
      BY <1>2 DEF Facts
    <3>2. look.osPorts = Own(process)
      BY <1>9, <1>10, <1>13, <3>1
    <3>3. look.osPorts # {}
      BY <1>10, <3>2
    <3>4. look.osFactsReadable
      BY <1>8, <1>13, <3>1, <3>3
    <3> QED
      BY <1>10, <2>1, <2>2, <3>2, <3>4
  <2>5. ServingPortIsFound'
    <3> SUFFICES ASSUME SameProcess'
                 PROVE  /\ look'.verdict = "Verified" => look'.port = process'.socks
                        /\ look'.socksPorts # {}
                           /\ look'.recorded \cap Own(process)' \subseteq {process'.socks, ApiPort}
                              => look'.port = process'.socks
      BY DEF ServingPortIsFound
    <3>1. look'.verdict = "Verified" => look'.port = process.socks
      BY <1>9, <1>10, <2>3
    <3>2. ASSUME look.socksPorts # {}, R \cap Own(process) \subseteq {process.socks, ApiPort}
          PROVE  look'.port = process.socks
      <4>1. look.osPorts # {} /\ look.osPorts = Own(process) /\ look.families # {}
        BY <1>1, <1>9, <1>10, <3>2 DEF LookIsSound
      <4>2. look'.port \in Own(process)
        BY <1>8, <2>2, <4>1
      <4>3. CASE look'.port \in look'.recorded
        BY <1>2, <2>1, <3>2, <4>2, <4>3
      <4>4. CASE \E n \in DOMAIN os : /\ look'.port = os[n].port
                                      /\ \A m \in DOMAIN os : Stands(look, os[m]) => n <= m
        <5>1. PICK n \in DOMAIN os : /\ look'.port = os[n].port
                                     /\ \A m \in DOMAIN os : Stands(look, os[m]) => n <= m
          BY <4>4
        <5>2. 1 \in DOMAIN os /\ os[1].port \in look.socksPorts
          BY <1>4, <3>2
        <5>3. n <= 1 /\ n \in Nat \ {0}
          BY <1>4, <1>6, <5>1, <5>2
        <5>4. n = 1
          BY <5>3
        <5> QED
          BY <1>9, <1>10, <5>1, <5>2, <5>4
      <4> QED
        BY <1>15, <4>3, <4>4
    <3> HIDE DEF R
    <3> QED
      BY <1>2, <1>10, <3>1, <3>2
  <2>6. SilentProcess'
    <3> SUFFICES ASSUME SameProcess', Facts', ~look'.opened, look'.route = "FullDetect"
                 PROVE  FALSE
      BY <2>1 DEF SilentProcess
    <3>1. look.osPorts = {} /\ look.route = "FullDetect" /\ look.families = Family
      BY <1>2, <1>9, <1>10 DEF Facts
    <3>2. look.osFactsReadable
      BY <1>8, <1>13, <3>1
    <3> QED
      BY <2>2, <3>1, <3>2
  <2>7. PortsAreTrue'
    BY <2>4, <2>5, <2>6 DEF PortsAreTrue
  <2> QED
    BY <1>1, <1>2, <1>11, <1>12, <2>7 DEF PortInv
<1> QED
  BY <1>3, <1>14, <1>15

\* What the history, the files and the entry offer are candidates.
LEMMA OffersAreTyped ==
    ASSUME NEW source \in Tier, NEW port \in Port \cup {0}
    PROVE  Offer(source, port) \in OfferRecord
BY DEF Offer, OfferRecord

LEMMA ResolveSweepKeeps == PortInv /\ ResolveSweep => PortInv'
<1> SUFFICES ASSUME PortInv, ResolveSweep PROVE PortInv'
  OBVIOUS
<1>1. look.at = "read" /\ look.route # "BypassDetect" /\ process' = process
  BY DEF ResolveSweep
<1>2. PICK history \in Recorded, files \in FileCandidates :
          Resolve(<<Offer("RuntimeHistory", history)>> \o files)
  BY DEF ResolveSweep
<1>3. Offer("RuntimeHistory", history) \in OfferRecord
  BY OffersAreTyped DEF Tier, Recorded
<1>4. <<Offer("RuntimeHistory", history)>> \in Seq(OfferRecord)
  BY <1>3
<1>5. files \in Seq(OfferRecord)
  <2>1. CASE \E c \in Port : files = <<Offer("CmdlineConfig", c)>>
    <3>1. PICK c \in Port : files = <<Offer("CmdlineConfig", c)>>
      BY <2>1
    <3>2. Offer("CmdlineConfig", c) \in OfferRecord
      BY OffersAreTyped DEF Tier
    <3> QED
      BY <3>1, <3>2
  <2>2. CASE \E d \in Recorded : files = <<Offer("CmdlineConfig", 0), Offer("DirProbe", d)>>
    <3>1. PICK d \in Recorded : files = <<Offer("CmdlineConfig", 0), Offer("DirProbe", d)>>
      BY <2>2
    <3>2. Offer("CmdlineConfig", 0) \in OfferRecord /\ Offer("DirProbe", d) \in OfferRecord
      BY OffersAreTyped DEF Tier, Recorded
    <3> QED
      BY <3>1, <3>2
  <2> QED
    BY <2>1, <2>2 DEF FileCandidates
<1>6. <<Offer("RuntimeHistory", history)>> \o files \in Seq(OfferRecord)
  BY <1>4, <1>5, ConcatProperties
<1> QED
  BY <1>1, <1>2, <1>6, ResolveKeeps

LEMMA ResolveTakeoverKeeps == PortInv /\ ResolveTakeover => PortInv'
<1> SUFFICES ASSUME PortInv, ResolveTakeover PROVE PortInv'
  OBVIOUS
<1>1. look.at = "read" /\ look.route # "BypassDetect" /\ process' = process
  BY DEF ResolveTakeover
<1>2. PICK file \in (IF look.config = "path" THEN Recorded ELSE {0}), memory \in Recorded :
          Resolve(<<Offer("CmdlineConfig", file), Offer("RuntimeHistory", memory)>>)
  BY DEF ResolveTakeover
<1>3. Offer("CmdlineConfig", file) \in OfferRecord /\ Offer("RuntimeHistory", memory) \in OfferRecord
  BY OffersAreTyped DEF Tier, Recorded
<1>4. <<Offer("CmdlineConfig", file), Offer("RuntimeHistory", memory)>> \in Seq(OfferRecord)
  BY <1>3
<1> QED
  BY <1>1, <1>2, <1>4, ResolveKeeps

\* A process of ours: nothing is promised of the port that was recorded, but it is one.
LEMMA ResolveBypassKeeps == PortInv /\ ResolveBypass => PortInv'
<1> SUFFICES ASSUME PortInv, ResolveBypass PROVE PortInv'
  OBVIOUS
<1>1. /\ look.at = "read" /\ look.route = "BypassDetect" /\ process' = process
      /\ process \in Process /\ look \in LookRecord
  BY DEF ResolveBypass, PortInv
<1>2. PICK history \in Recorded, memory \in Recorded, session \in Port \ {ApiPort} :
          look' = resolveBypassPort([look EXCEPT !.at = "resolved"], <<history, memory, session>>)
  BY DEF ResolveBypass
<1> DEFINE l == [look EXCEPT !.at = "resolved"]
           ports == <<history, memory, session>>
           known == {n \in DOMAIN ports : ports[n] > 0}
           port == ports[Min(known)]
<1>3. DOMAIN ports = 1 .. 3 /\ \A n \in 1 .. 3 : ports[n] \in Port \cup {0}
  BY DEF Recorded
<1>4. \/ look' = l
      \/ /\ known # {}
         /\ look' = [l EXCEPT !.port = port, !.source = "RuntimeHistory", !.verdict = "Verified"]
  BY <1>2 DEF resolveBypassPort
<1>5. known # {} => port \in Port \cup {0}
  <2>1. known \subseteq Nat
    BY <1>3
  <2>2. known # {} => Min(known) \in known
    BY <2>1, MinOfNats
  <2> QED
    BY <1>3, <2>2
<1> HIDE DEF known, port, ports
<1>6. l \in LookRecord
  BY <1>1 DEF LookRecord
<1>7. /\ l.at = "resolved" /\ l.route = "BypassDetect" /\ l.seen = look.seen
      /\ l.osPorts = look.osPorts /\ l.socksPorts = look.socksPorts
  BY <1>1 DEF LookRecord
<1> HIDE DEF l
<1>8. look' \in LookRecord
  <2>1. CASE look' = l
    BY <1>6, <2>1
  <2>2. CASE /\ known # {}
             /\ look' = [l EXCEPT !.port = port, !.source = "RuntimeHistory",
                                  !.verdict = "Verified"]
    <3>1. port \in Port \cup {0} /\ "RuntimeHistory" \in Tier \cup {"None"}
      BY <1>5, <2>2 DEF Tier
    <3> QED
      BY <1>6, <2>2, <3>1 DEF LookRecord
  <2> QED
    BY <1>4, <2>1, <2>2
<1>9. /\ look'.at = "resolved" /\ look'.route = "BypassDetect" /\ look'.seen = look.seen
      /\ look'.osPorts = look.osPorts /\ look'.socksPorts = look.socksPorts
  BY <1>4, <1>6, <1>7 DEF LookRecord
<1>10. SeenIsTrue'
  BY <1>9 DEF SeenIsTrue
<1>11. LookIsSound'
  BY <1>1, <1>9 DEF LookIsSound, PortInv
<1>12. PortsAreTrue'
  BY <1>9 DEF PortsAreTrue, HealthyIsAdopted, ServingPortIsFound, SilentProcess, Found
<1> QED
  BY <1>1, <1>8, <1>10, <1>11, <1>12 DEF PortInv

\* Binds: only a process that had nothing open opens its ports; what was seen of it is
\* that it had none.
LEMMA BindsKeeps == PortInv /\ Binds => PortInv'
<1> SUFFICES ASSUME PortInv, Binds PROVE PortInv'
  OBVIOUS
<1>1. /\ look' = look /\ look \in LookRecord /\ process \in Process
      /\ process.alive /\ ~process.bound /\ process' = [process EXCEPT !.bound = TRUE]
      /\ SeenIsTrue /\ LookIsSound /\ PortsAreTrue
  BY DEF Binds, PortInv
<1>2. process' \in Process
  BY <1>1 DEF Process
<1>3. /\ process'.alive /\ process'.bound /\ process'.born = process.born
      /\ process'.family = process.family /\ process'.socks = process.socks
  BY <1>1 DEF Process
<1>4. SeenIsTrue'
  BY <1>1, <1>3 DEF SeenIsTrue
<1>5. LookIsSound'
  BY <1>1, <1>3 DEF LookIsSound
<1>6. Found /\ SameProcess => ~look.opened /\ look.osPorts = {} /\ look.socksPorts = {}
  BY <1>1 DEF Found, SameProcess, SeenIsTrue, LookIsSound
<1>7. Found' = Found /\ SameProcess' = SameProcess /\ Facts' = Facts
  BY <1>1, <1>3 DEF Found, SameProcess, Facts
<1>8. HealthyIsAdopted'
  BY <1>1, <1>6, <1>7 DEF HealthyIsAdopted
<1>9. ServingPortIsFound'
  BY <1>1, <1>3, <1>6, <1>7 DEF ServingPortIsFound, PortsAreTrue
<1>10. SilentProcess'
  BY <1>1, <1>7 DEF SilentProcess, PortsAreTrue
<1> QED
  BY <1>1, <1>2, <1>4, <1>5, <1>8, <1>9, <1>10 DEF PortInv, PortsAreTrue

\* Dies, IdReused: it is no longer the process that was seen.
LEMMA EndKeeps == PortInv /\ (Dies \/ IdReused) => PortInv'
<1> SUFFICES ASSUME PortInv, Dies \/ IdReused PROVE PortInv'
  OBVIOUS
<1>1. /\ look' = look /\ look \in LookRecord /\ process \in Process
      /\ process.born \in Nat /\ LookIsSound /\ look.seen \in Nat
  <2>1. look' = look /\ look \in LookRecord /\ process \in Process /\ LookIsSound
    BY DEF Dies, IdReused, PortInv
  <2>2. process.born \in Nat
    BY <2>1, PortsAreFinite DEF Process
  <2> QED
    BY <2>1, <2>2 DEF LookRecord
<1>2. /\ process' \in Process /\ process'.born \in Nat /\ look.seen <= process'.born
      /\ ~(process'.alive /\ process'.born = look.seen)
  <2>1. CASE Dies
    <3>1. process' = [process EXCEPT !.alive = FALSE]
      BY <2>1 DEF Dies
    <3> QED
      BY <1>1, <3>1 DEF Process, LookIsSound
  <2>2. CASE IdReused
    <3>1. PICK family \in Family, socks \in {0, process.socks} :
          process' = [process EXCEPT !.alive = TRUE, !.born = @ + 1, !.family = family,
                                     !.socks = socks, !.config = "other"]
      BY <2>2 DEF IdReused
    <3> DEFINE born == process.born + 1
    <3>2. born \in 1 .. MaxReuses + 1 /\ born \in Nat /\ born > process.born
      <4>1. process.born <= MaxReuses /\ MaxReuses \in Nat
        BY <2>2, PortsAreFinite DEF IdReused
      <4> QED
        BY <1>1, <4>1
    <3>3. socks \in (Port \ {ApiPort}) \cup {0}
      BY <1>1 DEF Process
    <3>4. process' = [process EXCEPT !.alive = TRUE, !.born = born, !.family = family,
                                     !.socks = socks, !.config = "other"]
      BY <3>1
    <3> HIDE DEF born
    <3>5. process' \in Process
      BY <1>1, <3>2, <3>3, <3>4 DEF Process
    <3>6. process'.born = born
      BY <1>1, <3>4 DEF Process
    <3>7. look.seen <= process.born
      BY <1>1 DEF LookIsSound
    <3>8. look.seen <= born /\ look.seen # born
      BY <1>1, <3>2, <3>7
    <3> QED
      BY <3>2, <3>5, <3>6, <3>8
  <2> QED
    BY <2>1, <2>2
<1>3. SeenIsTrue'
  BY <1>1, <1>2 DEF SeenIsTrue
<1>4. LookIsSound'
  BY <1>1, <1>2 DEF LookIsSound
<1>5. PortsAreTrue'
  <2>1. ~SameProcess'
    BY <1>1, <1>2 DEF SameProcess
  <2> QED
    BY <2>1 DEF PortsAreTrue, HealthyIsAdopted, ServingPortIsFound, SilentProcess
<1> QED
  BY <1>1, <1>2, <1>3, <1>4, <1>5 DEF PortInv

LEMMA PortInvStep == PortInv /\ [PortNext]_portVars => PortInv'
<1> SUFFICES ASSUME PortInv, [PortNext]_portVars PROVE PortInv'
  OBVIOUS
<1>1. CASE \E route \in {"FullDetect", "BypassDetect", "Takeover"} : Enumerated(route)
  BY <1>1, EnumeratedKeeps
<1>2. CASE CheckIdentity \/ Scan \/ Greet
  BY <1>2, CheckIdentityKeeps, ScanKeeps, GreetKeeps
<1>3. CASE ResolveSweep \/ ResolveBypass \/ ResolveTakeover
  BY <1>3, ResolveSweepKeeps, ResolveBypassKeeps, ResolveTakeoverKeeps
<1>4. CASE Binds \/ Dies \/ IdReused
  BY <1>4, BindsKeeps, EndKeeps
<1>5. CASE UNCHANGED portVars
  <2>1. process' = process /\ look' = look
    BY <1>5 DEF portVars
  <2> QED
    BY <2>1 DEF PortInv, SeenIsTrue, LookIsSound, PortsAreTrue, HealthyIsAdopted,
                ServingPortIsFound, SilentProcess, Found, SameProcess, Facts, Own
<1> QED
  BY <1>1, <1>2, <1>3, <1>4, <1>5 DEF PortNext

LEMMA PortInvAlways == PortSpec => []PortInv
<1>1. PortInit => PortInv
  BY PortInitially
<1>2. PortInv /\ [PortNext]_portVars => PortInv'
  BY PortInvStep
<1> QED
  BY <1>1, <1>2, PTL DEF PortSpec

-----------------------------------------------------------------------------
(* PortAdoption: what is proved of it.                                      *)

\* Type correctness: only ports are scanned, recorded and resolved, and only listed ports
\* answer (scanListeningTcpPorts(), respondsToSocks5Greeting(), resolveChainPort()).
THEOREM PortTypeCorrect == PortSpec => []PortTypeOK
<1>1. PortInv => PortTypeOK
  BY DEF PortInv, PortTypeOK, LookRecord, LookIsSound
<1> QED
  BY <1>1, PortInvAlways, PTL

\* A healthy proxy is adopted with a port on which it listens, the port that answers is
\* found, and a process without ports is left alone, whatever the records say and however
\* the process dies, is replaced or opens its ports late (StandaloneAdoptionPolicy.h).
THEOREM PortsAreTrueAlways == PortSpec => []PortsAreTrue
<1>1. PortInv => PortsAreTrue
  BY DEF PortInv
<1> QED
  BY <1>1, PortInvAlways, PTL

-----------------------------------------------------------------------------
(* Standalone and PortAdoption together.                                     *)

\* The standalone proxies are tracked: whatever the user, the sweeps, the watchers and the
\* processes do, the sessions in the history are true to the processes, and a port that is
\* detected is one of the process that was seen (AppController.cpp,
\* StandaloneAdoptionPolicy.h).
THEOREM ProxiesAreTrackedAlways == SaSpec /\ PortSpec => []ProxiesAreTracked
<1>1. SessionsAreTrue /\ PortsAreTrue => ProxiesAreTracked
  BY DEF ProxiesAreTracked
<1> QED
  BY <1>1, SessionsAreTrueAlways, PortsAreTrueAlways, PTL

-----------------------------------------------------------------------------
(* The components together.                                                 *)

\* Each component of the window behaves in the composition as it does alone: what is
\* proved of a component holds of every behaviour that the run explores.
THEOREM DesktopRunsEachPart ==
    DesktopSpec => SaSpec /\ OpSpec /\ TemplateSpec /\ JobsSpec /\ PortSpec
<1>1. DesktopInit => SaInit /\ OpInit /\ TemplateInit /\ JobsInit /\ PortInit
  BY DEF DesktopInit
<1>2. [DesktopNext]_desktopVars =>
         /\ [SaNext]_saVars /\ [OpNext]_opVars /\ [TemplateNext]_templateVars
         /\ [JobsNext]_jobVars /\ [PortNext]_portVars
  <2>1. CASE DesktopNext
    BY <2>1, Zenon DEF DesktopNext
  <2>2. CASE UNCHANGED desktopVars
    BY <2>2 DEF desktopVars
  <2> QED
    BY <2>1, <2>2
<1> QED
  BY <1>1, <1>2, PTL DEF DesktopSpec, SaSpec, OpSpec, TemplateSpec, JobsSpec, PortSpec

\* Type correctness of the whole window: every component's, in one invariant.
THEOREM DesktopTypeCorrect == DesktopSpec => []DesktopTypeOK
<1>1. SaTypeOK /\ OpTypeOK /\ TemplateTypeOK /\ JobsTypeOK /\ PortTypeOK => DesktopTypeOK
  BY DEF DesktopTypeOK
<1> QED
  BY <1>1, DesktopRunsEachPart, SaTypeCorrect, OpTypeCorrect, TemplateTypeCorrect,
     JobsTypeCorrect, PortTypeCorrect, PTL

=============================================================================
