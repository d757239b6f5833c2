----------------------------- MODULE ControlCall ----------------------------
(***************************************************************************)
(* How an outbound gets into a running xray instance.  A caller (the proxy *)
(* pool, the finder, a probe worker) makes a sequence of calls; each goes  *)
(* over a fresh HTTP/2 connection, or by a child process "xray api", which *)
(* opens its own.  The instance may die and be started again at any        *)
(* moment, replies are cut or late, children hang, and a request the       *)
(* caller has given up may be carried out later: what the caller is told   *)
(* must still agree with what the instance holds.                          *)
(***************************************************************************)
EXTENDS Naturals, Sequences, SequencesExt, TLC

CONSTANTS
  Outbound,        \* the outbounds to inject, all under one tag
  Attempts,        \* PROBE_INJECT_RETRIES
  MaxInjections,   \* bound: injections in one behaviour
  MaxBreaks        \* bound: deaths, cut or late replies, hanging children

NoOutbound == "no outbound"

ASSUME ControlAssumption ==
  /\ Attempts \in Nat \ {0} /\ MaxInjections \in Nat /\ MaxBreaks \in Nat
  /\ NoOutbound \notin Outbound

VARIABLES
  xray,        \* the instance: up, the outbound its tag names, its run's number
  injection,   \* the caller: which, what it injects, where it is, in which run it called
  request,     \* the call under way: its operation, how it is made, where it is
  wire,        \* its connection: frames not read yet, and whether it is cut
  abandoned,   \* requests given up that this run may carry out yet, and whether a
               \* removal among them has come after the addition it carried out last
  injections,
  faults

callVars == <<xray, injection, request, wire, abandoned, injections, faults>>

Call(op, via, at) == [op |-> op, via |-> via, at |-> at, reply |-> "none"]
NoCall == Call("none", "none", "none")
NoWire == [inbox |-> <<>>, cut |-> FALSE]
NoneAbandoned == [pending |-> {}, undone |-> FALSE]

\* What addOutboundDirect makes of the payload: it encodes it, has no encoder for it
\* (or gets nothing out of it), or refuses its splithttp settings.
Payload == {"encoded", "foreign", "unsafe"}

CallInit ==
  /\ xray = [up |-> TRUE, holds |-> NoOutbound, run |-> 0]
  /\ \E who \in {"pool", "finder", "probe"} :
       injection = [who |-> who, want |-> NoOutbound, payload |-> "encoded",
                    at |-> "idle", attempt |-> 0, run |-> 0]
  /\ request = NoCall /\ wire = NoWire /\ abandoned = NoneAbandoned
  /\ injections = 0 /\ faults = 0

-----------------------------------------------------------------------------
(* Header blocks (HPACK).  A field is sent by an index into the static     *)
(* table or the dynamic one, or as a literal that may enter the latter.    *)

NoText == "no text"

Static ==
  [i \in {1, 2, 3, 4, 6, 7, 8, 31} |->
     IF i = 1 THEN <<":authority", NoText>>   ELSE IF i = 2 THEN <<":method", "GET">>
     ELSE IF i = 3 THEN <<":method", "POST">> ELSE IF i = 4 THEN <<":path", "/">>
     ELSE IF i = 6 THEN <<":scheme", "http">> ELSE IF i = 7 THEN <<":scheme", "https">>
     ELSE IF i = 8 THEN <<":status", "200">> ELSE <<"content-type", NoText>>]

Field(rep, index, name, value) ==
  [rep |-> rep, index |-> index, name |-> name, value |-> value]

\* The client names five headers by an index, four whole, and keeps no table.
NameIndex == ":authority" :> 1 @@ ":method" :> 2 @@ ":path" :> 4
             @@ ":scheme" :> 6 @@ "content-type" :> 31
Whole == <<":method", "POST">> :> 3 @@ <<":method", "GET">> :> 2
         @@ <<":scheme", "http">> :> 6 @@ <<":scheme", "https">> :> 7

encodeHpack(headers) ==
  [i \in DOMAIN headers |->
     LET h == headers[i]
     IN  IF h \in DOMAIN Whole
           THEN Field("indexed", Whole[h], NoText, NoText)
         ELSE IF h[1] \in DOMAIN NameIndex
           THEN Field("literal", NameIndex[h[1]], NoText, h[2])
         ELSE Field("literal", 0, h[1], h[2])]

Entry(table, index) == IF index <= 61 THEN Static[index] ELSE table[index - 61]

HasEntry(table, index) ==
  \/ index \in DOMAIN Static
  \/ index > 61 /\ index - 61 <= Len(table)

\* One field: d holds the headers read so far and the dynamic table, newest first.
DecodeField(d, f) ==
  LET name == IF f.index = 0 THEN f.name ELSE Entry(d.table, f.index)[1]
      wrong == IF f.index = 0 THEN f.rep = "indexed" ELSE ~HasEntry(d.table, f.index)
  IN  IF ~d.ok \/ f.rep = "resize" THEN d
      ELSE IF wrong THEN [d EXCEPT !.ok = FALSE]
      ELSE
      CASE f.rep = "indexed" -> [d EXCEPT !.headers = Append(@, Entry(d.table, f.index))]
        [] f.rep = "incremental" ->
             [d EXCEPT !.headers = Append(@, <<name, f.value>>),
                       !.table = <<<<name, f.value>>>> \o @]
        [] OTHER -> [d EXCEPT !.headers = Append(@, <<name, f.value>>)]

\* grpcDecodeHpackHeaders: the table is a fresh one for every block.
decodeHpack(block) ==
  FoldLeft(DecodeField, [ok |-> TRUE, headers |-> <<>>, table |-> <<>>], block)

\* grpc-go: one table for the connection, every literal enters it.
ServerField(d, h) ==
  LET whole == {i \in DOMAIN Static : Static[i] = h}
      known == {i \in DOMAIN d.table : d.table[i] = h}
      named == {i \in DOMAIN Static : Static[i][1] = h[1]}
      Least(s) == CHOOSE i \in s : \A j \in s : i <= j
  IN  CASE whole # {} ->
             [d EXCEPT !.block = Append(@, Field("indexed", Least(whole), NoText, NoText))]
        [] whole = {} /\ known # {} ->
             [d EXCEPT !.block = Append(@, Field("indexed", 61 + Least(known), NoText, NoText))]
        [] OTHER ->
             [table |-> <<h>> \o d.table,
              block |-> Append(d.block, Field("incremental",
                          IF named = {} THEN 0 ELSE Least(named), h[1], h[2]))]

ServerBlock(table, headers) ==
  FoldLeft(ServerField, [table |-> table, block |-> <<>>], headers)

-----------------------------------------------------------------------------
(* The instance *)

Rpc(op) == IF op = "add" THEN "AddOutbound" ELSE "RemoveOutbound"

requestHeaders(op) ==
  << <<":method", "POST">>, <<":path", Rpc(op)>>, <<":scheme", "http">>,
     <<"content-type", "application/grpc">>, <<"te", "trailers">> >>

\* A tag that is taken is refused; removing one that is not there is no error.
Refuses(op) == op = "add" /\ xray.holds # NoOutbound

Carried(op) ==
  IF Refuses(op) THEN UNCHANGED <<xray, abandoned>>
  ELSE /\ xray' = [xray EXCEPT !.holds = IF op = "add" THEN injection.want ELSE NoOutbound]
       /\ abandoned' = [abandoned EXCEPT !.undone = FALSE]

\* The caller gives its request up; the instance has it, and does not know that.
GivesRequestUp ==
  abandoned' = [abandoned EXCEPT !.pending =
                  @ \cup {[op |-> request.op, want |-> injection.want]}]

\* An instance that was hung goes on, and carries out what nobody waits for any more.
CarriedLate(r) ==
  /\ xray.up /\ r \in abandoned.pending
  /\ abandoned' = [pending |-> abandoned.pending \ {r},
                   undone |-> abandoned.undone \/ r.op = "remove"]
  /\ xray' = IF Refuses(r.op) THEN xray
             ELSE [xray EXCEPT !.holds = IF r.op = "add" THEN r.want ELSE NoOutbound]
  /\ UNCHANGED <<injection, request, wire, injections, faults>>

Frame(type, block, end) == [type |-> type, block |-> block, end |-> end]

\* SETTINGS, then headers, an empty message and trailers; an error is trailers only.
Reply(op) ==
  LET grpc == <<"content-type", "application/grpc">>
      first == ServerBlock(<<>>, <<<<":status", "200">>, grpc>>)
      last == ServerBlock(first.table, <<<<"grpc-status", "0">>>>)
      error == ServerBlock(<<>>, <<<<":status", "200">>, grpc, <<"grpc-status", "2">>>>)
      settings == Frame("SETTINGS", <<>>, FALSE)
  IN  IF Refuses(op)
        THEN <<settings, Frame("HEADERS", error.block, TRUE)>>
        ELSE <<settings, Frame("HEADERS", first.block, FALSE), Frame("DATA", <<>>, FALSE),
               Frame("HEADERS", last.block, TRUE)>>

\* The request is carried out and answered once it has arrived whole.
Serve ==
  /\ request.via = "grpc" /\ request.at = "sent" /\ xray.up /\ ~wire.cut
  /\ decodeHpack(encodeHpack(requestHeaders(request.op))).headers = requestHeaders(request.op)
  /\ Carried(request.op)
  /\ wire' = [wire EXCEPT !.inbox = Reply(request.op)]
  /\ request' = [request EXCEPT !.at = "reading"]
  /\ UNCHANGED <<injection, injections, faults>>

\* The process dies: of the reply, a prefix is still delivered.
XrayDies ==
  /\ xray.up /\ faults < MaxBreaks
  /\ faults' = faults + 1
  /\ xray' = [xray EXCEPT !.up = FALSE, !.holds = NoOutbound]
  /\ abandoned' = NoneAbandoned
  /\ IF request.via = "grpc" /\ request.at \in {"connected", "sent", "reading"}
       THEN \E n \in 0 .. Len(wire.inbox) :
              wire' = [inbox |-> SubSeq(wire.inbox, 1, n), cut |-> TRUE]
       ELSE UNCHANGED wire
  /\ UNCHANGED <<injection, request, injections>>

XrayStarts ==
  /\ ~xray.up
  /\ xray' = [up |-> TRUE, holds |-> NoOutbound, run |-> xray.run + 1]
  /\ UNCHANGED <<injection, request, wire, abandoned, injections, faults>>

-----------------------------------------------------------------------------
(* The caller: what it does with the answer of each call *)

Goes(at, call) ==
  /\ injection' = [injection EXCEPT !.at = at,
                                      !.run = IF call = NoCall THEN @ ELSE xray.run]
  /\ request' = call
  /\ wire' = NoWire

\* addOutboundDirect looks at the payload before it opens a connection: what it
\* cannot encode goes to a child process, what it refuses goes nowhere.
AddDirect(payload) ==
  CASE payload = "encoded" -> Call("add", "grpc", "new")
    [] payload = "foreign" -> Call("add", "child", "new")
    [] OTHER -> Call("add", "none", "rejected")

\* The pool adds at once; the finder removes with a child first, and a probe worker
\* over a connection.
Begin(want, payload) ==
  /\ \/ injection.at \in {"idle", "failed"}
     \/ injection.at = "held" /\ injection.who = "finder"
  /\ injections < MaxInjections
  /\ injections' = injections + 1
  /\ injection' = [injection EXCEPT !.want = want, !.payload = payload, !.attempt = 1,
                     !.run = xray.run,
                     !.at = IF injection.who = "pool" THEN "adding" ELSE "clearing"]
  /\ request' = CASE injection.who = "pool" -> AddDirect(payload)
                  [] injection.who = "finder" -> Call("remove", "child", "new")
                  [] OTHER -> Call("remove", "grpc", "new")
  /\ wire' = NoWire
  /\ UNCHANGED <<xray, abandoned, faults>>

\* The pool removes a member with a child, again in its next round if that failed, and
\* a probe worker over a connection.
Release ==
  /\ \/ injection.at = "held" /\ injection.who # "finder"
     \/ injection.at = "leaving"
  /\ Goes("releasing",
          Call("remove", IF injection.who = "pool" THEN "child" ELSE "grpc", "new"))
  /\ UNCHANGED <<xray, abandoned, injections, faults>>

\* A removal's answer is looked at by the pool's evaluator only.  A probe worker adds
\* again after a refused connection; whoever failed tries a child as well.
Answered(ok, transient) ==
  CASE injection.at = "clearing" -> Goes("adding", AddDirect(injection.payload))
    [] injection.at \in {"adding", "falling"} /\ ok -> Goes("held", NoCall)
    [] injection.at = "adding" /\ ~ok ->
         IF injection.who = "probe" /\ transient /\ injection.attempt < Attempts
           THEN /\ injection' = [injection EXCEPT !.attempt = @ + 1, !.run = xray.run]
                /\ request' = AddDirect(injection.payload)
                /\ wire' = NoWire
           ELSE Goes("falling", Call("add", "child", "new"))
    [] injection.at = "falling" /\ ~ok ->
         IF injection.who = "probe"
           THEN Goes("undoing", Call("remove", "grpc", "new"))
           ELSE Goes("failed", NoCall)
    [] injection.at = "undoing" -> Goes("failed", NoCall)
    [] injection.at = "releasing" ->
         Goes(IF ok \/ injection.who = "probe" THEN "idle" ELSE "leaving", NoCall)

Rejected ==
  /\ request.at = "rejected"
  /\ Answered(FALSE, FALSE)
  /\ UNCHANGED <<xray, abandoned, injections, faults>>

-----------------------------------------------------------------------------
(* A call over a connection *)

Via(via, at) == request.via = via /\ request.at = at

grpcConnect ==
  /\ Via("grpc", "new")
  /\ IF xray.up
       THEN request' = [request EXCEPT !.at = "connected"] /\ UNCHANGED <<injection, wire>>
       ELSE Answered(FALSE, TRUE)
  /\ UNCHANGED <<xray, abandoned, injections, faults>>

\* Preface, SETTINGS, HEADERS and DATA; what is sent on a cut connection may go unnoticed.
SendRequest ==
  /\ Via("grpc", "connected")
  /\ request' = [request EXCEPT !.at = "sent"]
  /\ UNCHANGED <<xray, injection, wire, abandoned, injections, faults>>

SendFails ==
  /\ Via("grpc", "connected") /\ wire.cut
  /\ Answered(FALSE, FALSE)
  /\ UNCHANGED <<xray, abandoned, injections, faults>>

\* A timeout of recv, a reset or a close; add and remove have empty replies, so none of
\* them is taken for the end of one.  A timeout may come before the request is carried
\* out, or when its reply is on the way.
RecvFails ==
  /\ request.via = "grpc" /\ request.at \in {"sent", "reading"}
  /\ \/ wire.cut /\ wire.inbox = <<>> /\ UNCHANGED <<abandoned, faults>>
     \/ /\ ~wire.cut /\ faults < MaxBreaks /\ faults' = faults + 1
        /\ IF request.at = "sent" THEN GivesRequestUp ELSE UNCHANGED abandoned
  /\ Answered(FALSE, FALSE)
  /\ UNCHANGED <<xray, injections>>

Status(headers, before) ==
  LET said == {i \in DOMAIN headers : headers[i][1] = "grpc-status"}
  IN  IF said = {} THEN before ELSE headers[CHOOSE i \in said : \A j \in said : j <= i][2]

\* The status of the trailers decides; trailers without one are a success.
ReadFrame ==
  /\ request.via = "grpc" /\ request.at \in {"sent", "reading"}
  /\ wire.inbox # <<>>
  /\ LET frame == Head(wire.inbox)
         block == decodeHpack(frame.block)
         status == Status(block.headers, request.reply)
     IN  CASE ~block.ok -> Answered(FALSE, FALSE)
           [] block.ok /\ frame.end -> Answered(status \in {"none", "0"}, FALSE)
           [] block.ok /\ ~frame.end /\ frame.type = "SETTINGS" /\ wire.cut ->
                \/ Answered(FALSE, FALSE)      \* the acknowledgement is not sent
                \/ wire' = [wire EXCEPT !.inbox = Tail(@)] /\ UNCHANGED <<injection, request>>
           [] OTHER ->
                /\ wire' = [wire EXCEPT !.inbox = Tail(@)]
                /\ request' = [request EXCEPT !.reply = status]
                /\ UNCHANGED injection
  /\ UNCHANGED <<xray, abandoned, injections, faults>>

-----------------------------------------------------------------------------
(* A call by a child process *)

\* The child opens its own connection and is answered, or finds nobody there.
ChildCalls ==
  /\ request.via = "child" /\ request.at \in {"new", "again"}
  /\ IF xray.up
       THEN /\ Carried(request.op)
            /\ request' = [request EXCEPT !.reply = IF Refuses(request.op) THEN "refused"
                                                    ELSE "done",
                                          !.at = IF @ = "new" THEN "first" ELSE "second"]
       ELSE /\ UNCHANGED <<xray, abandoned>>
            /\ request' = [request EXCEPT !.reply = "unreachable",
                                          !.at = IF @ = "new" THEN "first" ELSE "second"]
  /\ UNCHANGED <<injection, wire, injections, faults>>

\* Mutant: like a removal, an addition counts as done when the tag is said to exist.
ExistingIsDone ==
  /\ request.via = "child" /\ request.at \in {"first", "second"}
  /\ Answered(request.reply \in {"done", "refused"}, FALSE)
  /\ UNCHANGED <<xray, abandoned, injections, faults>>

\* It exits, and says why if it failed; the output of a child that exits between the
\* look at the pipe and the wait is not read.  Adding without any output is tried again.
ChildExits ==
  /\ request.via = "child" /\ request.at \in {"first", "second"}
  /\ \/ Answered(request.reply = "done", FALSE)
     \/ /\ request.op = "add" /\ request.at = "first" /\ request.reply # "done"
        /\ request' = [request EXCEPT !.at = "again", !.reply = "none"]
        /\ UNCHANGED <<injection, wire>>
  /\ UNCHANGED <<xray, abandoned, injections, faults>>

\* It cannot be started, it crashes, or it is killed after five seconds: all are -1.  By
\* then it may have sent its request.
ChildLost ==
  /\ request.via = "child" /\ faults < MaxBreaks
  /\ faults' = faults + 1
  /\ \/ UNCHANGED abandoned
     \/ xray.up /\ request.at \in {"new", "again"} /\ GivesRequestUp
  /\ Answered(FALSE, FALSE)
  /\ UNCHANGED <<xray, injections>>

CallProceeds ==
  \/ Rejected \/ grpcConnect \/ SendRequest \/ SendFails \/ Serve \/ ReadFrame \/ RecvFails
  \/ ChildCalls \/ ChildExits \/ ChildLost

CallNext ==
  \/ \E want \in Outbound, payload \in Payload : Begin(want, payload)
  \/ Release
  \/ CallProceeds
  \/ XrayDies \/ XrayStarts
  \/ \E r \in abandoned.pending : CarriedLate(r)

CallSpec == CallInit /\ [][CallNext]_callVars

-----------------------------------------------------------------------------
CallTypeOK ==
  /\ xray.up \in BOOLEAN /\ xray.holds \in Outbound \cup {NoOutbound} /\ xray.run \in Nat
  /\ injection.at \in {"idle", "clearing", "adding", "falling", "undoing", "held",
                       "releasing", "leaving", "failed"}
  /\ injection.attempt \in 0 .. Attempts
  /\ request.op \in {"none", "add", "remove"}
  /\ (request = NoCall) <=> (injection.at \in {"idle", "held", "leaving", "failed"})
  /\ abandoned \in [pending : SUBSET [op : {"add", "remove"}, want : Outbound],
                    undone : BOOLEAN]
  /\ injections \in 0 .. MaxInjections /\ faults \in 0 .. MaxBreaks

\* What the caller is told agrees with what the instance holds, whatever was cut or
\* killed on the way, and though requests it has given up are carried out late: an
\* injection that counts as done is the one the tag names.  Two things may come after
\* it and take the outbound away: the instance dies, or a removal that the caller had
\* given up (the child or the connection that clears the tag first, XrayApi.cpp:124-127
\* and :2086-2103) is carried out at last.  An addition given up never does: it finds
\* the tag taken.  And as long as nothing breaks no injection fails, whichever of the
\* two ways it takes.
InjectionIsTrue ==
  /\ injection.at = "held" /\ xray.run = injection.run /\ xray.up /\ ~abandoned.undone =>
       xray.holds = injection.want
  /\ faults = 0 => injection.at # "failed"
=============================================================================
