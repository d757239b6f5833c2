----------------------------- MODULE ShareLinks -----------------------------
(***************************************************************************)
(* Working proxies are exported as share links (src/src/share), and the    *)
(* lines of a subscription are read back into proxies                      *)
(* (src/src/update/SubscriptionParser.cpp).  A text is a sequence of       *)
(* tokens: the special characters one by one, the two digits of an escape, *)
(* and words without any special character.  A link is its scheme, the     *)
(* part in base64, and the text behind it.                                 *)
(***************************************************************************)
EXTENDS Naturals, Sequences, SequencesExt, TLC

CONSTANTS
  LinkType,     \* the column ConfigType: "1" VMess, "3" Shadowsocks, "5" VLESS, "6" Trojan,
                \* "7" Hysteria2, "8" TUIC, others without a link
  LinkNetwork,  \* the column Network
  LinkTls,      \* the column StreamSecurity
  OddColumn,    \* the columns that may hold a special character
  MaxLines      \* bound: lines of a subscription

ASSUME LinkAssumption == MaxLines \in Nat \ {0}

VARIABLES
  shared,      \* the proxy that is exported
  lines,       \* the lines still to be read
  wrapped,     \* the whole body is in base64
  reading,     \* the counters of the parser
  nodes        \* the proxies read

linkVars == <<shared, lines, wrapped, reading, nodes>>

-----------------------------------------------------------------------------
(* Texts *)

Code == " " :> "20" @@ "|" :> "7C" @@ "#" :> "23" @@ "?" :> "3F" @@ "/" :> "2F"
     @@ "\\" :> "5C" @@ ";" :> "3B" @@ "=" :> "3D" @@ "&" :> "26" @@ "+" :> "2B"
     @@ "%" :> "25" @@ "\"" :> "22" @@ "@" :> "40" @@ ":" :> "3A" @@ "high" :> "C3"

Special == DOMAIN Code
Decoded(code) == CHOOSE c \in Special : Code[c] = code
Codes == {Code[c] : c \in Special}

\* What is left of a word that begins with a hexadecimal digit when two of its characters
\* are gone: "%free" and "%face" have two and one digit behind the "%".
HexWord == "face" :> "ce" @@ "free" :> "ee"

\* The text in front of the first c and the text behind it
Cut(text, c) ==
  LET hits == {i \in DOMAIN text : text[i] = c}
      at == CHOOSE i \in hits : \A j \in hits : i <= j
  IN  IF hits = {} THEN [found |-> FALSE, front |-> text, back |-> <<>>]
      ELSE [found |-> TRUE, front |-> SubSeq(text, 1, at - 1),
            back |-> SubSeq(text, at + 1, Len(text))]

\* getline() with a separator
Pieces(text, c) ==
  LET Put(ps, x) == IF x = c THEN Append(ps, <<>>) ELSE Append(Front(ps), Append(Last(ps), x))
  IN  FoldLeft(Put, <<<<>>>>, text)

Joined(params) ==
  FoldLeft(LAMBDA text, p : IF text = <<>> THEN p ELSE text \o <<"&">> \o p, <<>>, params)

Escaped(text, chars) ==
  FoldLeft(LAMBDA t, x : IF x \in chars THEN t \o <<"%", Code[x]>> ELSE Append(t, x), <<>>, text)

\* Mutant: a path is written as it is.
urlEncodeNothing(text) == text

urlEncodeRemarksOrPath(text) ==
  Escaped(text, {"high", ";", "=", " ", "|", "#", "?", "/", "\\"})

urlEncodeStandard(text) == Escaped(text, Special)

\* One round over a text; a "%" that was decoded begins no escape in this round.  The
\* two characters behind a "%" are read as a number, and one digit will do: the other
\* character is lost with it.
Unescaped(text) ==
  LET Put(acc, x) ==
        CASE acc.open /\ x \in Codes ->
               [text |-> Append(Front(acc.text), Decoded(x)), open |-> FALSE]
          [] acc.open /\ x \in DOMAIN HexWord ->
               [text |-> Front(acc.text) \o <<"byte", HexWord[x]>>, open |-> FALSE]
          [] OTHER -> [text |-> Append(acc.text, x), open |-> x = "%"]
  IN  FoldLeft(Put, [text |-> <<>>, open |-> FALSE], text).text

\* Two rounds; "+" is a space in the first.
urlDecode(text) ==
  Unescaped(Unescaped([i \in DOMAIN text |-> IF text[i] = "+" THEN " " ELSE text[i]]))

\* Nothing is read of a text in base64 until it is decoded; the padding is not needed.
base64Encode(plain) == [base64 |-> plain]
decodeBase64(coded) == coded.base64

jsonEncode(text) ==
  FoldLeft(LAMBDA t, x : t \o (IF x \in {"\\", "\""} THEN <<"\\", x>> ELSE <<x>>), <<>>, text)

jsonDecode(text) ==
  LET Put(acc, x) ==
        IF acc.open \/ x # "\\" THEN [text |-> Append(acc.text, x), open |-> FALSE]
                                ELSE [acc EXCEPT !.open = TRUE]
  IN  FoldLeft(Put, [text |-> <<>>, open |-> FALSE], text).text

-----------------------------------------------------------------------------
(* Proxies *)

\* What ShareLink::toShareUri() hands on; alpn, fp and the switch for unverified
\* certificates go the way of sni and are left out.
LinkColumn == {"configtype", "address", "port", "id", "security", "network", "streamsecurity",
               "flow", "sni", "publickey", "shortid", "requesthost", "path", "headertype",
               "remarks"}

NoProxy == [c \in LinkColumn |-> <<>>]

Filled == {"sni", "publickey", "shortid", "flow", "requesthost", "path", "headertype", "remarks"}

\* A plain proxy: each column holds a word.
Plain(type, network, tls) ==
  [c \in LinkColumn |->
     CASE c = "configtype" -> <<type>>
       [] c = "network" -> IF network = "" THEN <<>> ELSE <<network>>
       [] c = "streamsecurity" -> IF tls = "" THEN <<>> ELSE <<tls>>
       [] OTHER -> <<c>>]

AddressForm == {<<"2001", ":", "1">>, <<"[", "2001", ":", "1", "]">>}
Oddity == {<<c>> : c \in Special} \cup {<<"%", x>> : x \in {"2F"} \cup DOMAIN HexWord}

\* It differs from a plain one in a column that is empty, in a special character
\* within a column, or in the form of its address.
SharedProxies ==
  UNION {LET p == Plain(type, network, tls) IN
              {p} \cup {[p EXCEPT ![c] = <<>>] : c \in Filled}
           \cup {[p EXCEPT ![c] = <<>> , !["requesthost"] = <<"sni">>] : c \in {"path", "sni"}}
           \cup {[p EXCEPT ![c] = <<c>> \o odd \o <<c>>] : c \in OddColumn, odd \in Oddity}
           \cup {[p EXCEPT !["address"] = a] : a \in AddressForm}
         : type \in LinkType, network \in LinkNetwork, tls \in LinkTls}

-----------------------------------------------------------------------------
(* Writing *)

Given(p, column, key) == IF p[column] = <<>> THEN <<>> ELSE <<<<key, "=">> \o p[column]>>

GivenPath(p) ==
  IF p["path"] = <<>> THEN <<>>
  ELSE <<<<"path", "=">> \o urlEncodeRemarksOrPath(p["path"])>>

Secured(p) == p["streamsecurity"] \in {<<"tls">>, <<"reality">>}
SecurityParam(p) == IF Secured(p) THEN Given(p, "streamsecurity", "security") ELSE <<>>
NetworkOut(p) == IF p["network"] = <<>> THEN <<"tcp">> ELSE p["network"]

HostPort(p) == <<"@">> \o p["address"] \o <<":">> \o p["port"]
Fragment(p, text) == IF p["remarks"] = <<>> THEN <<>> ELSE <<"#">> \o text

Link(scheme, plain, text) == [scheme |-> scheme, coded |-> base64Encode(plain), text |-> text]

VLESSLink(p) ==
  LET query == Joined(<<<<"encryption", "=", "none">>>> \o SecurityParam(p)
                      \o Given(p, "sni", "sni") \o Given(p, "publickey", "pbk")
                      \o Given(p, "shortid", "sid") \o Given(p, "flow", "flow")
                      \o <<<<"type", "=">> \o NetworkOut(p)>>
                      \o Given(p, "requesthost", "host") \o GivenPath(p))
  IN  Link("vless", <<>>, p["id"] \o HostPort(p) \o <<"?">> \o query
                          \o Fragment(p, urlEncodeRemarksOrPath(p["remarks"])))

TrojanLink(p) ==
  LET query == Joined(SecurityParam(p) \o Given(p, "sni", "sni")
                      \o <<<<"insecure", "=", "0">>>>
                      \o (IF NetworkOut(p) = <<"tcp">> THEN <<>> ELSE Given(p, "network", "type"))
                      \o Given(p, "requesthost", "host") \o GivenPath(p))
  IN  Link("trojan", <<>>, p["id"] \o HostPort(p) \o <<"?">> \o query
                           \o Fragment(p, urlEncodeRemarksOrPath(p["remarks"])))

\* The bytes %3B and %3D stand between the options of the plugin.
PluginOption(key, text) == <<"%", "3B">> \o key \o <<"%", "3D">> \o text

SSPath(p) ==
  urlEncodeRemarksOrPath(
    FoldLeft(LAMBDA t, x : t \o (IF x = "=" THEN <<"\\", "=">> ELSE <<x>>), <<>>, p["path"]))

SSQuery(p) ==
  CASE p["network"] = <<"ws">> ->
            <<"plugin", "=", "v2ray-plugin">> \o PluginOption(<<"mode">>, <<"websocket">>)
         \o (IF p["sni"] = <<>> THEN <<>> ELSE PluginOption(<<"host">>, p["sni"]))
         \o (IF p["path"] = <<>> THEN <<>> ELSE PluginOption(<<"path">>, SSPath(p)))
         \o (IF p["streamsecurity"] = <<"tls">> THEN <<"%", "3B", "tls">> ELSE <<>>)
         \o PluginOption(<<"mux">>, <<"0">>)
    [] p["network"] \in {<<>>, <<"tcp">>} -> <<>>
    [] OTHER -> Joined(<<<<"obfs", "=">> \o p["network"]>>
                       \o (IF p["path"] = <<>> THEN <<>>
                           ELSE <<<<"obfs-path", "=">> \o urlEncodeRemarksOrPath(p["path"])>>))

SSLink(p) ==
  Link("ss", p["security"] \o <<":">> \o p["id"],
       HostPort(p) \o (IF SSQuery(p) = <<>> THEN <<>> ELSE <<"?">> \o SSQuery(p))
       \o Fragment(p, Escaped(p["remarks"], {" ", "|"})))

Hysteria2Link(p) ==
  LET query == Joined((IF p["path"] = <<>> THEN <<>>
                       ELSE <<<<"path", "=">> \o urlEncodeStandard(p["path"])>>)
                      \o (IF p["sni"] = <<>> THEN <<>>
                          ELSE <<<<"sni", "=">> \o urlEncodeStandard(p["sni"])>>))
  IN  Link("hy2", <<>>, p["id"] \o HostPort(p) \o (IF query = <<>> THEN <<>> ELSE <<"?">> \o query)
                        \o Fragment(p, urlEncodeStandard(p["remarks"])))

\* Keys of VMess's JSON.
JsonKey == "remarks" :> "ps" @@ "address" :> "add" @@ "port" :> "port" @@ "id" :> "id"
        @@ "security" :> "scy" @@ "network" :> "net" @@ "headertype" :> "type"
        @@ "requesthost" :> "host" @@ "path" :> "path" @@ "streamsecurity" :> "tls"
        @@ "sni" :> "sni"

\* Every key is written; one that the parser must find absent is not in the domain.
VMessLink(p) ==
  Link("vmess", [key \in {JsonKey[c] : c \in DOMAIN JsonKey} |->
                   jsonEncode(p[CHOOSE c \in DOMAIN JsonKey : JsonKey[c] = key])], <<>>)

\* TUIC has the builder of VLESS.
toShareUri(p) ==
  CASE p["configtype"] = <<"1">> -> <<VMessLink(p)>>
    [] p["configtype"] = <<"3">> -> <<SSLink(p)>>
    [] p["configtype"] \in {<<"5">>, <<"8">>} -> <<VLESSLink(p)>>
    [] p["configtype"] = <<"6">> -> <<TrojanLink(p)>>
    [] p["configtype"] = <<"7">> -> <<Hysteria2Link(p)>>
    [] OTHER -> <<>>

-----------------------------------------------------------------------------
(* Reading *)

NoNode == <<>>

\* What becomes of a line: the counter, and the proxy if there is one
Counted(counter) == [counter |-> counter, node |-> NoNode]
Read(counter, p) == [counter |-> counter, node |-> <<p>>]

sanitizeNetwork(network) ==
  CASE network = <<"splithttp">> -> <<"xhttp">>
    [] network \in {<<"tcp">>, <<"ws">>, <<"grpc">>, <<"h2">>, <<"httpupgrade">>, <<"kcp">>,
                    <<"xhttp">>, <<"http">>, <<"quic">>, <<"raw">>} -> network
    [] OTHER -> <<"tcp">>

NoSlash(text) == IF text # <<>> /\ Last(text) = "/" THEN Front(text) ELSE text

parseAddressPort(text) ==
  LET bracket == Cut(text, "]")
      colon == Cut(text, ":")
  IN  IF text # <<>> /\ text[1] = "[" /\ bracket.back # <<>>
      THEN [address |-> Tail(bracket.front), port |-> NoSlash(Tail(bracket.back))]
      ELSE [address |-> colon.front, port |-> NoSlash(colon.back)]

\* The parameters that the parser knows, the last one of a name wins.
Assigned(p, keys, query) ==
  LET Assign(q, param) ==
        LET kv == Cut(param, "=")
            key == IF Len(kv.front) = 1 THEN kv.front[1] ELSE ""
        IN  IF kv.found /\ key \in DOMAIN keys THEN [q EXCEPT ![keys[key]] = urlDecode(kv.back)]
            ELSE q
  IN  FoldLeft(Assign, p, Pieces(query, "&"))

VLESSKeys == "type" :> "network" @@ "security" :> "streamsecurity" @@ "sni" :> "sni"
          @@ "path" :> "path" @@ "host" :> "requesthost" @@ "flow" :> "flow"
          @@ "pbk" :> "publickey" @@ "sid" :> "shortid" @@ "headerType" :> "headertype"
TrojanKeys == "type" :> "network" @@ "network" :> "network" @@ "sni" :> "sni"
           @@ "security" :> "streamsecurity" @@ "path" :> "path" @@ "host" :> "requesthost"
Hysteria2Keys == "sni" :> "sni" @@ "security" :> "streamsecurity" @@ "obfs-password" :> "path"

\* A link of the form id@address:port?query#remarks; without a query there are no remarks.
Uri(text) ==
  LET at == Cut(text, "@")
      host == Cut(at.back, "?")
      query == Cut(host.back, "#")
  IN  [found |-> at.found, id |-> at.front, target |-> host.front, asked |-> host.found,
       query |-> query.front, remarks |-> urlDecode(query.back)]

Entered(type, network, id, target) ==
  [NoProxy EXCEPT !["configtype"] = <<type>>, !["network"] = network, !["id"] = id,
                  !["address"] = NoSlash(target.address), !["port"] = target.port]

Queried(p, keys, uri) ==
  IF ~uri.asked THEN p
  ELSE [Assigned(p, keys, uri.query) EXCEPT !["network"] = sanitizeNetwork(@),
                                           !["remarks"] = uri.remarks]

\* A server name means TLS, whatever the link says.
TlsBySni(p) == IF p["sni"] = <<>> THEN p ELSE [p EXCEPT !["streamsecurity"] = <<"tls">>]

VLESSRead(text) ==
  LET uri == Uri(text)
      target == parseAddressPort(uri.target)
  IN  IF ~uri.found \/ target.address = <<>> THEN Counted("malformed")
      ELSE Read("otherOk", Queried(Entered("5", <<"tcp">>, uri.id, target), VLESSKeys, uri))

TrojanRead(text) ==
  LET uri == Uri(text)
      target == parseAddressPort(uri.target)
  IN  IF ~uri.found \/ target.address = <<>> THEN Counted("malformed")
      ELSE Read("otherOk",
                TlsBySni(Queried(Entered("6", <<>>, uri.id, target), TrojanKeys, uri)))

\* The first colon ends the address; the network is left empty.
Hysteria2Read(text) ==
  LET uri == Uri(text)
      colon == Cut(uri.target, ":")
      target == [address |-> colon.front, port |-> NoSlash(colon.back)]
      p == Queried(Entered("7", <<>>, uri.id, target), Hysteria2Keys, uri)
  IN  IF ~uri.found \/ ~colon.found THEN Counted("malformed")
      ELSE Read("otherOk", TlsBySni([p EXCEPT !["network"] = <<>>]))

\* What stands behind the last colon of a text of the form id@address:port, if it does
PlainPort(text) ==
  LET at == Cut(text, "@")
      target == Cut(Reverse(Cut(at.back, "?").front), ":")
  IN  IF at.found /\ at.front # <<>> /\ target.back # <<>> THEN Reverse(target.front) ELSE <<>>

\* vmess:// in front of a link of VLESS.  A port is a number: "port" is one that there
\* is, "beyond" is above 65535, and "huge" is none that the type long holds.
looksLikePlainVlessUri(text) == PlainPort(text) = <<"port">>

\* std::stol() throws, and nothing in parse() catches it.
PortThrows(text) == PlainPort(text) = <<"huge">>

\* "tail": something follows the document; only four of its values are taken then.
\* "binary": no document.
VMessRead(document) ==
  LET Value(column) == jsonDecode(document[JsonKey[column]])
      some == [NoProxy EXCEPT !["configtype"] = <<"1">>, !["network"] = <<"tcp">>,
                 !["address"] = Value("address"), !["id"] = Value("id"),
                 !["security"] = Value("security"), !["remarks"] = Value("remarks")]
      all == [c \in LinkColumn |-> IF c \in DOMAIN JsonKey THEN Value(c) ELSE some[c]]
      named == all["sni"] = <<>> /\ all["streamsecurity"] = <<"tls">>
  IN  CASE document = <<>> -> Counted("skipEmpty")
        [] "binary" \in DOMAIN document -> Counted("failParse")
        [] "tail" \in DOMAIN document /\ "binary" \notin DOMAIN document ->
             Read("vmessOk", some)
        [] OTHER -> Read("vmessOk",
             [all EXCEPT !["network"] = sanitizeNetwork(@),
                         !["sni"] = IF named THEN all["requesthost"] ELSE @])

\* The options of the plugin; one without "=" is passed over.
PluginRead(p, options) ==
  LET Option(q, option) ==
        LET kv == Cut(option, "=") IN
        CASE kv.front = <<"mode">> /\ kv.back = <<"websocket">> -> [q EXCEPT !["network"] = <<"ws">>]
          [] kv.found /\ kv.front = <<"path">> -> [q EXCEPT !["path"] = kv.back]
          [] kv.found /\ kv.front = <<"host">> -> [q EXCEPT !["requesthost"] = kv.back]
          [] kv.found /\ kv.front = <<"sni">> -> [q EXCEPT !["sni"] = kv.back]
          [] kv.found /\ kv.front = <<"tls">> -> [q EXCEPT !["streamsecurity"] = <<"tls">>]
          [] OTHER -> q
  IN  FoldLeft(Option, p, Pieces(options, ";"))

SSKeys == "obfs-host" :> "requesthost" @@ "obfs-uri" :> "path" @@ "sni" :> "sni"
       @@ "tls" :> "streamsecurity" @@ "security" :> "streamsecurity" @@ "path" :> "path"
       @@ "host" :> "requesthost" @@ "mode" :> "headertype"

SSParams(p, query) ==
  LET Of(name) == {i \in DOMAIN Pieces(query, "&") : Cut(Pieces(query, "&")[i], "=").front = <<name>>}
      plugins == Of("plugin")
      plain == Assigned(p, SSKeys, query)
      q == IF plugins = {} THEN plain
           ELSE PluginRead(plain, urlDecode(Cut(Pieces(query, "&")[CHOOSE i \in plugins : TRUE], "=").back))
      web == IF plugins = {} /\ Of("obfs") = {} /\ q["path"] # <<>>
             THEN [q EXCEPT !["network"] = <<"ws">>] ELSE q
      tls == TlsBySni(web)
  IN  IF tls["streamsecurity"] = <<"tls">> /\ tls["sni"] = <<>>
      THEN [tls EXCEPT !["sni"] = tls["requesthost"]] ELSE tls

\* An old link has everything in base64, whose own escapes have been undone.
IsLegacy(whole, text) ==
  LET old == Cut(whole, "@")
  IN  ~Cut(Cut(text, "#").front, "@").found /\ old.found /\ Cut(old.front, ":").found

SSUser(whole, text) ==
  Cut(IF IsLegacy(whole, text) THEN Cut(whole, "@").front ELSE whole, ":")

SSTarget(whole, text) ==
  parseAddressPort(IF IsLegacy(whole, text) THEN Cut(whole, "@").back
                   ELSE Cut(Cut(text, "#").front, "@").back)

\* The port ends at the first "/", then at "?".
SSRead(whole, text) ==
  LET user == SSUser(whole, text)
      target == SSTarget(whole, text)
      port == Cut(Cut(target.port, "/").front, "?")
      p == [Entered("3", <<>>, user.back, [target EXCEPT !.port = port.front])
              EXCEPT !["security"] = user.front,
                     !["remarks"] = urlDecode(Cut(text, "#").back)]
      usable == user.found /\ user.front # <<>> /\ user.back # <<>>
                /\ "high" \notin ToSet(user.front \o user.back)
  IN  IF ~(IsLegacy(whole, text) \/ Cut(Cut(text, "#").front, "@").found)
         \/ target.address = <<>> \/ ~usable
      THEN Counted("malformed")
      ELSE Read("otherOk", IF port.found THEN SSParams(p, port.back) ELSE p)

-----------------------------------------------------------------------------
(* The parser *)

Counter == {"lines", "empty", "comment", "unrecognized", "malformed", "skipEmpty", "failParse",
            "vmessOk", "otherOk"}

\* Lines that no builder writes
JunkLine ==
  {Link("none", <<>>, <<>>), Link("none", <<>>, <<"#", "text">>), Link("none", <<>>, <<"text">>),
   Link("vless", <<>>, <<"id">>), Link("vless", <<>>, <<"id", "@">>),
   Link("vless", <<>>, <<"id", "@", "address", ":", "port", "#", "remarks">>),
   Link("trojan", <<>>, <<"id">>),
   Link("hy2", <<>>, <<"id", "@", "address">>),
   Link("ss", <<"security">>, <<"@", "address", ":", "port">>),
   Link("ss", <<"security", ":", "high">>, <<"@", "address", ":", "port">>),
   Link("ss", <<"security", ":", "id", "@", "address", ":", "port">>, <<"#", "remarks">>),
   Link("ss", <<"security", ":", "id">>,
        <<"@", "address", ":", "port", "?", "sni", "=", "sni", "&", "path", "=", "path">>),
   Link("vmess", <<>>, <<>>), Link("vmess", "binary" :> <<>>, <<>>),
   Link("vmess", "binary" :> <<>>, <<"id", "@", "address">>),
   Link("vmess", "binary" :> <<>>, <<"id", "@", "address", ":", "beyond">>),
   Link("vmess", "binary" :> <<>>, <<"id", "@", "address", ":", "huge", "?", "sni">>),
   Link("vmess", <<>>, <<"id", "@", "address", ":", "port", "#", "remarks">>)}

Tailed(p) == LET link == VMessLink(p) IN [link EXCEPT !.coded.base64 = "tail" :> <<"text">> @@ @]

SomeLine ==
  JunkLine \cup {VMessLink(Plain("1", "ws", "tls")), Tailed(Plain("1", "ws", "tls")),
                 TrojanLink(Plain("6", "tcp", "tls"))}

NoLine == [c \in Counter |-> 0]

LinkTypeOK ==
  /\ DOMAIN shared = LinkColumn
  /\ Len(lines) <= MaxLines /\ wrapped \in BOOLEAN
  /\ reading.at \in {"export", "body", "lines", "thrown"}
  /\ DOMAIN reading.count = Counter /\ \A c \in Counter : reading.count[c] \in 0 .. MaxLines
  /\ \A i \in DOMAIN nodes : DOMAIN nodes[i] = LinkColumn

LinkInit ==
  /\ nodes = <<>>
  /\ \/ /\ shared \in SharedProxies /\ lines = <<>> /\ wrapped = FALSE
        /\ reading = [at |-> "export", count |-> NoLine]
     \/ /\ shared = NoProxy /\ wrapped \in BOOLEAN
        /\ lines \in UNION {[1 .. n -> SomeLine] : n \in 1 .. MaxLines}
        /\ reading = [at |-> "body", count |-> NoLine]

\* exportShareLinks(): a proxy without a link is left out, and without any there is no file.
Export ==
  /\ reading.at = "export"
  /\ lines' = toShareUri(shared)
  /\ reading' = [reading EXCEPT !.at = IF toShareUri(shared) = <<>> THEN "lines" ELSE "body"]
  /\ UNCHANGED <<shared, wrapped, nodes>>

\* A body without "://" is decoded, and taken as it came if that yields no link.
ReadBody ==
  /\ reading.at = "body"
  /\ reading' = [reading EXCEPT !.at = "lines"]
  /\ lines' = IF wrapped /\ \A i \in DOMAIN lines : lines[i].scheme = "none"
              THEN <<Link("none", <<>>, <<"text">>)>> ELSE lines
  /\ UNCHANGED <<shared, wrapped, nodes>>

\* One more line, and the counter of what became of it
Tallied(count, counter) == [count EXCEPT !.lines = @ + 1, ![counter] = @ + 1]

Take(result) ==
  /\ reading' = [reading EXCEPT !.count = Tallied(@, result.counter)]
  /\ nodes' = nodes \o result.node
  /\ lines' = Tail(lines)
  /\ UNCHANGED <<shared, wrapped>>

Upcoming(scheme) == reading.at = "lines" /\ lines # <<>> /\ lines[1].scheme = scheme

ReadOther ==
  /\ Upcoming("none")
  /\ LET text == lines[1].text IN
     \/ text = <<>> /\ Take(Counted("empty"))
     \/ text # <<>> /\ text[1] = "#" /\ Take(Counted("comment"))
     \/ text # <<>> /\ text[1] # "#" /\ Take(Counted("unrecognized"))

\* The exception ends parse(): the line is in no other counter, the lines behind it are
\* not read, and the proxies read so far are gone with the call.
Throw ==
  /\ reading' = [at |-> "thrown", count |-> [reading.count EXCEPT !.lines = @ + 1]]
  /\ nodes' = <<>>
  /\ UNCHANGED <<shared, lines, wrapped>>

\* The line that is really one of VLESS loses its remarks with the fragment.
ReadVMess ==
  /\ Upcoming("vmess")
  /\ LET text == Cut(lines[1].text, "#").front IN
     IF PortThrows(text) THEN Throw
     ELSE Take(IF looksLikePlainVlessUri(text) THEN VLESSRead(text)
               ELSE VMessRead(decodeBase64(lines[1].coded)))

ReadVLESS == Upcoming("vless") /\ Take(VLESSRead(lines[1].text))
ReadSS == Upcoming("ss") /\ Take(SSRead(decodeBase64(lines[1].coded), lines[1].text))
ReadTrojan == Upcoming("trojan") /\ Take(TrojanRead(lines[1].text))
ReadHysteria2 == Upcoming("hy2") /\ Take(Hysteria2Read(lines[1].text))

LinkNext ==
  \/ Export \/ ReadBody \/ ReadOther \/ ReadVMess \/ ReadVLESS \/ ReadSS \/ ReadTrojan
  \/ ReadHysteria2

LinkSpec == LinkInit /\ [][LinkNext]_linkVars

-----------------------------------------------------------------------------
(* Properties *)

Type(p) == p["configtype"][1]
IsSecured(p) == Secured(p)

\* An unknown transport is TCP, an unknown security none.
Canonical(p) ==
  [p EXCEPT !["network"] = sanitizeNetwork(@),
            !["streamsecurity"] = IF IsSecured(p) THEN @ ELSE <<>>]

\* The columns that identify a proxy and that a connection through it depends on
DialColumns(p) ==
  LET network == Canonical(p)["network"] IN
  {"configtype", "address", "port", "id", "remarks"}
  \cup (IF Type(p) = "7" THEN {"sni"} ELSE {"network", "streamsecurity"})
  \cup (IF Type(p) \in {"1", "3"} THEN {"security"} ELSE {})
  \cup (IF Type(p) = "5" THEN {"flow"} ELSE {})
  \cup (IF network \in {<<"ws">>, <<"xhttp">>} /\ Type(p) # "7" THEN {"path", "requesthost"} ELSE {})
  \cup (IF network = <<"grpc">> /\ Type(p) # "7" THEN {"path"} ELSE {})
  \cup (IF network \in {<<"xhttp">>, <<"kcp">>} /\ Type(p) # "7" THEN {"headertype"} ELSE {})
  \cup (IF IsSecured(p) /\ Type(p) # "7" THEN {"sni"} ELSE {})
  \cup (IF p["streamsecurity"] = <<"reality">> /\ Type(p) # "7" THEN {"publickey", "shortid"} ELSE {})

\* What a link does not carry: TUIC is written as VLESS; an IPv6 address is not put in
\* brackets, and one that has them loses them (but in VMess's JSON); Hysteria2's remarks
\* join the port when there is no parameter; Shadowsocks has no TLS, and of the transports
\* only TCP, and WebSocket with the server name for the host; the mode of xhttp and the header of kcp are in
\* VMess's JSON only; REALITY's keys are in VLESS's links only; a server name makes
\* Trojan secure; VMess with TLS takes the host for an absent server name.
Carries(p) ==
  /\ Type(p) # "8"
  /\ p["address"] \in AddressForm => Type(p) = "1"
  /\ Type(p) = "7" => p["remarks"] = <<>> \/ p["sni"] # <<>> \/ p["path"] # <<>>
  /\ Type(p) = "3" => /\ ~IsSecured(p)
                      /\ \/ Canonical(p)["network"] = <<"tcp">>
                         \/ p["network"] = <<"ws">> /\ p["sni"] = p["requesthost"]
  /\ "headertype" \in DialColumns(p) => Type(p) = "1" \/ p["headertype"] = <<>>
  /\ p["streamsecurity"] = <<"reality">> => Type(p) \in {"5", "7"}
  /\ Type(p) = "6" => IsSecured(p) \/ p["sni"] = <<>>
  /\ Type(p) = "1" => p["streamsecurity"] # <<"tls">> \/ p["sni"] # <<>> \/ p["requesthost"] = <<>>

\* What does not survive in a column: a path, remarks or a host with "+", with an escape or
\* with a "%" in front of a hexadecimal digit is decoded, once or twice; "&" ends a
\* parameter; "@" ends an id; the path of a plugin is cut at ";", and its "=" keeps a
\* backslash; a password beyond ASCII is refused.
Broken(type, column) ==
  LET escapes == {"2F"} \cup DOMAIN HexWord IN
  IF type = "1" THEN {}
  ELSE
  CASE column = "id" -> IF type = "3" THEN {"high"} ELSE {"@"}
    [] column = "remarks" -> escapes \cup (IF type = "7" THEN {} ELSE {"+"})
    [] column = "path" -> escapes \cup {"+", "&"} \cup (IF type = "3" THEN {";", "="} ELSE {})
    [] OTHER -> escapes \cup {"+", "&"}

\* A "#" in the host begins the remarks, whether the host matters or not.
Intact(p) ==
  /\ \A column \in DialColumns(p) \cap OddColumn :
        ToSet(p[column]) \cap Broken(Type(p), column) = {}
  /\ "#" \in ToSet(p["requesthost"]) => Type(p) \in {"1", "3", "7"}

\* A proxy that is exported as a link and read again is the same proxy exactly when links
\* carry it and its columns are intact.
LinkKeepsProxy ==
  reading.at = "lines" /\ lines = <<>> /\ shared # NoProxy /\ toShareUri(shared) # <<>> =>
     (/\ nodes # <<>>
      /\ \A c \in DialColumns(shared) : Canonical(nodes[1])[c] = Canonical(shared)[c])
     <=> (Carries(shared) /\ Intact(shared))

\* A line that has been read is in one bucket, as ParseStats has it.
EachLineInOneBucket ==
  LET n == reading.count IN
  n.lines = n.empty + n.comment + n.unrecognized + n.malformed + n.skipEmpty
            + n.failParse + n.vmessOk + n.otherOk

\* Each line of a subscription is counted once, and a proxy comes of the lines that the
\* counters call good and of no others (the equation of ParseStats); where a port throws
\* out of parse(), the line it stands in is the only one without a bucket, and no proxy
\* comes of any line.
LinesAreCounted ==
  LET n == reading.count IN
  IF reading.at = "thrown"
    THEN /\ n.lines = n.empty + n.comment + n.unrecognized + n.malformed + n.skipEmpty
                      + n.failParse + n.vmessOk + n.otherOk + 1
         /\ nodes = <<>>
    ELSE /\ EachLineInOneBucket
         /\ Len(nodes) = n.vmessOk + n.otherOk

\* Both of them: links are read back (the builders and the parser).
LinksAreReadBack == LinkKeepsProxy /\ LinesAreCounted

=============================================================================
