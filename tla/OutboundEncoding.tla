-------------------------- MODULE OutboundEncoding --------------------------
(***************************************************************************)
(* A profile becomes an outbound of xray's JSON, and the JSON reaches a    *)
(* running instance in two ways: a child "xray api" imports it as it is,   *)
(* or this program encodes it as protobuf itself.  What the two tell xray  *)
(* must agree.  A JSON document is a function from the paths of its        *)
(* settings to their values; a message one from the names of its fields.   *)
(***************************************************************************)
EXTENDS Naturals, FiniteSets, TLC

CONSTANTS
  Protocol,    \* the kinds of profile there are
  Network,     \* what the column Network says
  TlsKind,     \* what the column StreamSecurity says
  Cipher,      \* what the column Security says
  MaxMissing   \* bound: how many optional columns of a profile are empty

ASSUME EncodingAssumption == MaxMissing \in Nat

VARIABLES
  subject,   \* the profile
  json,      \* its outbound
  proto,      \* what addOutboundDirect sends of it
  stage

encodingVars == <<subject, json, proto, stage>>

Optional == {"id", "flow", "publickey", "shortid", "sni", "fingerprint", "path",
             "requesthost", "headertype", "certsha", "alpn", "spiderx", "echconfiglist",
             "echforcequery", "cert", "allowinsecure"}

\* A column that is not empty has its own name for a value; a switch is on.  With ECH
\* switched off in the configuration the list of its keys is as good as empty.
Profiles ==
  [type : Protocol, network : Network, streamsecurity : TlsKind, security : Cipher,
   empty : {m \in SUBSET Optional : Cardinality(m) <= MaxMissing}]

\* Settings are put together with the ones in front taking precedence.
Blank == ""
NoSettings == [path \in {} |-> path]
Bind(path, value) == [only \in {path} |-> value]
Joint(pair) ==
  [path \in DOMAIN pair.front \cup DOMAIN pair.back |->
     IF path \in DOMAIN pair.front THEN pair.front[path] ELSE pair.back[path]]
f ++ g == Joint([front |-> f, back |-> g])

Has(p, column) == column \notin p.empty
Value(p, column, default) == IF Has(p, column) THEN column ELSE default
Key(holds, path, value) == IF holds THEN Bind(path, value) ELSE NoSettings
Column(p, column, path) == Key(Has(p, column), path, column)

-----------------------------------------------------------------------------
(* Building the JSON *)

\* ProfileConfigRepository::loadProfiles
ValidNetwork ==
  {"tcp", "ws", "grpc", "h2", "httpupgrade", "kcp", "xhttp", "http", "quic", "raw"}
Normalized(p) ==
  [p EXCEPT !.network = CASE @ = "splithttp" -> "xhttp"
                          [] @ \in ValidNetwork -> @
                          [] OTHER -> "tcp"]

Insecure(p) == IF Has(p, "allowinsecure") THEN "true" ELSE "false"

\* A pinned certificate switches the unverified ones off again.  A certificate of the
\* profile's own never gets into the JSON: only that the system's are not to be used.
\* While ECH is switched off, its list is not written: as if there were none.
TlsJson(p) ==
     Bind("tlsSettings.allowInsecure",
          IF Has(p, "cert") \/ Has(p, "certsha") THEN "false" ELSE Insecure(p))
  ++ Column(p, "sni", "tlsSettings.serverName")
  ++ Column(p, "alpn", "tlsSettings.alpn")
  ++ Column(p, "fingerprint", "tlsSettings.fingerprint")
  ++ Column(p, "echconfiglist", "tlsSettings.echConfigList")
  ++ Column(p, "echforcequery", "tlsSettings.echForceQuery")
  ++ Key(Has(p, "cert"), "tlsSettings.disableSystemRoot", "true")
  ++ Column(p, "certsha", "tlsSettings.pinnedPeerCertSha256")

RealityJson(p) ==
     Column(p, "publickey", "realitySettings.publicKey")
  ++ Column(p, "sni", "realitySettings.serverName")
  ++ Bind("realitySettings.shortId", Value(p, "shortid", Blank))
  ++ Bind("realitySettings.spiderX", Value(p, "spiderx", Blank))
  ++ Bind("realitySettings.fingerprint", Value(p, "fingerprint", "chrome"))

\* v2rayN's "false" means no security, and is left out.
SecurityJson(p) ==
  CASE p.streamsecurity = "tls" -> Bind("security", "tls") ++ TlsJson(p)
    [] p.streamsecurity = "reality" -> Bind("security", "reality") ++ RealityJson(p)
    [] p.streamsecurity \in {"none", "xtls"} -> Bind("security", p.streamsecurity)
    [] OTHER -> NoSettings

TransportJson(p) ==
  CASE p.network = "grpc" ->
            Bind("grpcSettings.serviceName", Value(p, "path", Blank))
         ++ Bind("grpcSettings.multiMode", "false")
         ++ Bind("grpcSettings.idle_timeout", "60")
         ++ Bind("grpcSettings.health_check_timeout", "20")
    [] p.network = "ws" ->
            Column(p, "path", "wsSettings.path")
         ++ Column(p, "requesthost", "wsSettings.host")
         ++ Column(p, "requesthost", "wsSettings.headers")
    [] p.network = "xhttp" ->
            Column(p, "path", "xhttpSettings.path")
         ++ Column(p, "requesthost", "xhttpSettings.host")
         ++ Column(p, "headertype", "xhttpSettings.mode")
    [] p.network = "kcp" ->
            Bind("kcpSettings.mtu", "1350") ++ Bind("kcpSettings.tti", "50")
         ++ Bind("kcpSettings.congestion", "false")
         ++ Bind("kcpSettings.readBufferSize", "2") ++ Bind("kcpSettings.writeBufferSize", "2")
         ++ Key(Has(p, "headertype"), "kcpSettings.header", "none")
    [] OTHER -> NoSettings

\* A REALITY profile without a public key or a server name throws.
StreamFails(p) ==
  p.streamsecurity = "reality" /\ ~(Has(p, "publickey") /\ Has(p, "sni"))

StreamJson(p) ==
  Key(p.network # Blank, "network", p.network) ++ SecurityJson(p) ++ TransportJson(p)

Endpoint == Bind("address", "address") ++ Bind("port", "port")
Mux == Bind("mux.enabled", "false")

\* What the protocols with stream settings share
Proxied(p) == Endpoint ++ StreamJson(p) ++ Mux

\* The flow of a profile with a key but without REALITY is cleared.
VLESSUser(p) ==
     Column(p, "id", "users.id") ++ Bind("users.encryption", "none")
  ++ Key(Has(p, "flow"), "users.flow",
         IF p.streamsecurity # "reality" /\ Has(p, "publickey") THEN Blank ELSE "flow")
  ++ Key(p.security \notin {Blank, "none"}, "users.security", p.security)

VMessUser(p) ==
     Column(p, "id", "users.id")
  ++ Bind("users.security", IF p.security = Blank THEN "auto" ELSE p.security)

TrojanServer(p) ==
     Bind("password", Value(p, "id", Blank))
  ++ Bind("method", IF p.security = Blank THEN "chacha20" ELSE p.security)

SSServer(p) == Bind("password", Value(p, "id", Blank)) ++ Bind("method", p.security)

VLESSJson(p) == Proxied(p) ++ VLESSUser(p)
VMessJson(p) == Proxied(p) ++ VMessUser(p)
TrojanJson(p) == Proxied(p) ++ TrojanServer(p)
SSJson(p) == Proxied(p) ++ SSServer(p)

\* SOCKS and HTTP: the user's name is in the column Security; TLS only, whatever the
\* security is called, and no network.
SocksTls(p) ==
  Key(p.streamsecurity \in {"tls", "reality"}, "security", p.streamsecurity)
  ++ (IF p.streamsecurity \in {"tls", "reality"}
        THEN Bind("tlsSettings.allowInsecure", Insecure(p))
               ++ Column(p, "sni", "tlsSettings.serverName")
        ELSE NoSettings)

Login(p, user, pass) ==
  IF p.security # Blank /\ Has(p, "id")
    THEN Bind(user, p.security) ++ Bind(pass, "id") ELSE NoSettings

SOCKSJson(p) ==
  Endpoint ++ Login(p, "users.user", "users.pass") ++ SocksTls(p)
  ++ Column(p, "requesthost", "headers")

HTTPJson(p) ==
  Endpoint ++ Login(p, "user", "pass") ++ SocksTls(p) ++ Column(p, "requesthost", "headers")

Hysteria2Json(p) ==
     Endpoint ++ Bind("network", "hysteria") ++ Bind("hysteriaSettings.auth", "id")
  ++ Key(Has(p, "sni") \/ Has(p, "allowinsecure"), "security", "tls")
  ++ Key(Has(p, "allowinsecure"), "tlsSettings.allowInsecure", "true")
  ++ Column(p, "sni", "tlsSettings.serverName")

TUICJson(p) ==
     Endpoint ++ Bind("password", Value(p, "id", Blank))
  ++ Column(p, "sni", "sni") ++ Column(p, "alpn", "alpn")
  ++ Key(Has(p, "allowinsecure"), "insecure", "true")
  ++ Column(p, "publickey", "publicKey")

WireGuardJson(p) ==
     Bind("localAddresses", "address") ++ Bind("peers.endpoint", "address")
  ++ Bind("privateKey", Value(p, "id", Blank))
  ++ Bind("peers.publicKey", Value(p, "publickey", Blank))

OutboundJson(p) ==
  Bind("protocol", p.type) ++
  CASE p.type = "vless" -> VLESSJson(p)
    [] p.type = "vmess" -> VMessJson(p)
    [] p.type = "trojan" -> TrojanJson(p)
    [] p.type = "shadowsocks" -> SSJson(p)
    [] p.type = "socks" -> SOCKSJson(p)
    [] p.type = "http" -> HTTPJson(p)
    [] p.type = "hysteria" -> Hysteria2Json(p)
    [] p.type = "tuic" -> TUICJson(p)
    [] p.type = "wireguard" -> WireGuardJson(p)

\* There is no builder for the other kinds.
UsesStream == {"vless", "vmess", "trojan", "shadowsocks"}
Supported == UsesStream \cup {"socks", "http", "hysteria", "tuic", "wireguard"}
Throws(p) == p.type \notin Supported \/ (p.type \in UsesStream /\ StreamFails(p))

-----------------------------------------------------------------------------
(* Encoding the JSON *)

\* A message takes the fields its table names from the JSON.
Encode(table, j) ==
  [field \in {table[path] : path \in DOMAIN table \cap DOMAIN j} |->
     j[CHOOSE path \in DOMAIN table \cap DOMAIN j : table[path] = field]]

WebSocketConfig ==
  Bind("wsSettings.host", "ws.host") ++ Bind("wsSettings.path", "ws.path")
  ++ Bind("wsSettings.headers", "ws.header")

TLSSettings ==
  Bind("tlsSettings.allowInsecure", "tls.allow_insecure")
  ++ Bind("tlsSettings.serverName", "tls.server_name")
  ++ Bind("tlsSettings.alpn", "tls.next_protocol")
  ++ Bind("tlsSettings.fingerprint", "tls.fingerprint")

\* The key and the short id are sent as the bytes they stand for; what cannot be
\* decoded, or is empty, is left out.
RealityTable ==
  Bind("realitySettings.serverName", "reality.server_name")
  ++ Bind("realitySettings.publicKey", "reality.public_key")
  ++ Bind("realitySettings.shortId", "reality.short_id")
  ++ Bind("realitySettings.fingerprint", "reality.fingerprint")
  ++ Bind("realitySettings.spiderX", "reality.spider_x")

SparesShortId(sent, f) == f = "reality.short_id" /\ sent[f] = Blank
Spared(sent) == [f \in {f \in DOMAIN sent : ~SparesShortId(sent, f)} |-> sent[f]]
RealitySettings(j) ==
  Spared(Encode(RealityTable, j)) ++ Bind("reality.spider_y", "ten_numbers")

GRPCSettings ==
  Bind("grpcSettings.serviceName", "grpc.service_name")
  ++ Bind("grpcSettings.multiMode", "grpc.multi_mode")

\* Numbers are expected unsigned, and a parsed number is not: no size is ever sent.
KCPSettings == Bind("kcpSettings.congestion", "kcp.congestion")

SplitHTTPSettings ==
  Bind("xhttpSettings.host", "splithttp.host") ++ Bind("xhttpSettings.path", "splithttp.path")
  ++ Bind("xhttpSettings.mode", "splithttp.mode")

\* Mutant: xhttp is sent under its own name, as before its protocol was renamed.
NetworkName ==
  Bind("ws", "websocket") ++ Bind("kcp", "mkcp") ++ Bind("grpc", "grpc")
  ++ Bind("http", "httpupgrade")
  ++ Bind("tcp", "tcp") ++ Bind("splithttp", "splithttp") ++ Bind("hysteria", "hysteria")
  ++ Bind("xhttp", "xhttp")

ProtocolName ==
  Bind("ws", "websocket") ++ Bind("kcp", "mkcp") ++ Bind("grpc", "grpc")
  ++ Bind("http", "httpupgrade")
  ++ Bind("tcp", "tcp") ++ Bind("splithttp", "splithttp") ++ Bind("hysteria", "hysteria")
  ++ Bind("xhttp", "splithttp")

At(j, path) == IF path \in DOMAIN j THEN j[path] ELSE Blank

Transport(j) ==
  CASE At(j, "network") = "ws" -> Encode(WebSocketConfig, j)
    [] At(j, "network") = "grpc" -> Encode(GRPCSettings, j)
    [] At(j, "network") = "kcp" -> Encode(KCPSettings, j)
    [] At(j, "network") = "xhttp" -> Encode(SplitHTTPSettings, j)
    [] OTHER -> NoSettings

Security(j) ==
  CASE At(j, "security") = "tls" -> Bind("security_type", "tls") ++ Encode(TLSSettings, j)
    [] At(j, "security") = "reality" ->
         Bind("security_type", "reality")
         ++ (IF "realitySettings.shortId" \in DOMAIN j THEN RealitySettings(j) ELSE NoSettings)
    [] OTHER -> NoSettings

StreamConfig(j) ==
  LET network == At(j, "network") IN
  Key(network \in DOMAIN ProtocolName, "protocol_name", ProtocolName[network])
  ++ Transport(j) ++ Security(j)

MultiplexConfig == Bind("mux.enabled", "mux.enabled")
SenderSettings(j) == StreamConfig(j) ++ Encode(MultiplexConfig, j)

VMessSecurity ==
  Bind("auto", "AUTO") ++ Bind("aes-128-gcm", "AES128_GCM")
  ++ Bind("chacha20-poly1305", "CHACHA20_POLY1305")
ShadowsocksCipher ==
  Bind("aes-128-gcm", "AES_128_GCM") ++ Bind("aes-256-gcm", "AES_256_GCM")
  ++ Bind("chacha20-ietf-poly1305", "CHACHA20_IETF_POLY1305")
  ++ Bind("xchacha20-ietf-poly1305", "XCHACHA20_IETF_POLY1305") ++ Bind("none", "NONE")

Coded(codes, name) == IF name \in DOMAIN codes THEN codes[name] ELSE "UNKNOWN"

VMessAccount(j) ==
  Bind("account.id", IF "users.id" \in DOMAIN j THEN j["users.id"] ELSE "zero uuid")
  ++ Bind("account.security", Coded(VMessSecurity, j["users.security"]))

VLESSAccount(j) ==
  Bind("account.id", At(j, "users.id")) ++ Bind("account.encryption", j["users.encryption"])
  ++ Key(At(j, "users.flow") # Blank, "account.flow", At(j, "users.flow"))

TrojanAccount(j) == Bind("account.password", j["password"])

ShadowsocksAccount(j) ==
  Bind("account.password", j["password"])
  ++ Bind("account.cipher", Coded(ShadowsocksCipher, j["method"]))

Shadowsocks2022(j) ==
  IF j["password"] = Blank
    THEN NoSettings ELSE Bind("key", j["password"]) ++ Bind("method", j["method"])

SocksUser == Bind("users.user", "account.username") ++ Bind("users.pass", "account.password")
HTTPUser == Bind("user", "account.username") ++ Bind("pass", "account.password")
SocksAccount(j) == Encode(SocksUser, j)
HTTPAccount(j) == Encode(HTTPUser, j)

Is2022(method) == method = "2022-blake3"

\* parseOutboundJson: a 2022 cipher is another protocol for xray.
TypeUrl(j) ==
  IF j["protocol"] = "shadowsocks" /\ Is2022(j["method"]) THEN "shadowsocks_2022"
  ELSE IF j["protocol"] \in {"vmess", "vless", "trojan", "shadowsocks", "socks", "http"}
  THEN j["protocol"]
  ELSE "unknown"

ServerEndpoint == Bind("address", "address") ++ Bind("port", "port")

\* jsonConfigToProtobuf: empty for what has no encoder, no server or no account.
Account(j) ==
  CASE TypeUrl(j) = "vmess" -> VMessAccount(j)
    [] TypeUrl(j) = "vless" -> VLESSAccount(j)
    [] TypeUrl(j) = "trojan" -> TrojanAccount(j)
    [] TypeUrl(j) = "shadowsocks" -> ShadowsocksAccount(j)
    [] TypeUrl(j) = "shadowsocks_2022" -> Shadowsocks2022(j)
    [] TypeUrl(j) = "socks" -> SocksAccount(j)
    [] TypeUrl(j) = "http" -> HTTPAccount(j)
    [] OTHER -> NoSettings

\* addOutboundDirect: the message, or nothing and a child process imports the JSON.
Message(j) ==
  IF Account(j) = NoSettings
    THEN NoSettings
    ELSE Bind("type", TypeUrl(j)) ++ Account(j)
           ++ Encode(ServerEndpoint, j) ++ SenderSettings(j)

-----------------------------------------------------------------------------
(* One profile on its way *)

EncodingInit ==
  /\ subject \in Profiles
  /\ json = NoSettings /\ proto = NoSettings /\ stage = "profile"

\* A batch takes the profile as loadProfiles normalized it, the finder as it is stored.
BuildOutbound ==
  /\ stage = "profile"
  /\ \E p \in {subject, Normalized(subject)} :
       IF Throws(p)
         THEN stage' = "failed" /\ UNCHANGED json
         ELSE stage' = "built" /\ json' = OutboundJson(p)
  /\ UNCHANGED <<subject, proto>>

addOutboundDirect ==
  /\ stage = "built"
  /\ proto' = Message(json)
  /\ stage' = IF proto' = NoSettings THEN "child" ELSE "sent"
  /\ UNCHANGED <<subject, json>>

EncodingNext == BuildOutbound \/ addOutboundDirect

EncodingSpec == EncodingInit /\ [][EncodingNext]_encodingVars

-----------------------------------------------------------------------------
EncodingTypeOK ==
  /\ subject \in Profiles
  /\ stage \in {"profile", "built", "failed", "sent", "child"}
  /\ (proto # NoSettings) <=> (stage = "sent")

\* Where xray's own import of the JSON puts what makes a server reachable.
AccountIdentity ==
     Bind("address", "address") ++ Bind("port", "port")
  ++ Bind("users.id", "account.id") ++ Bind("users.flow", "account.flow")
  ++ Bind("users.user", "account.username") ++ Bind("users.pass", "account.password")
  ++ Bind("user", "account.username") ++ Bind("pass", "account.password")

SecurityIdentity ==
     Bind("security", "security_type")
  ++ Bind("tlsSettings.allowInsecure", "tls.allow_insecure")
  ++ Bind("tlsSettings.serverName", "tls.server_name")
  ++ Bind("tlsSettings.alpn", "tls.next_protocol")
  ++ Bind("tlsSettings.fingerprint", "tls.fingerprint")
  ++ Bind("realitySettings.serverName", "reality.server_name")
  ++ Bind("realitySettings.publicKey", "reality.public_key")
  ++ Bind("realitySettings.shortId", "reality.short_id")
  ++ Bind("realitySettings.fingerprint", "reality.fingerprint")

TransportIdentity ==
     Bind("wsSettings.path", "ws.path") ++ Bind("wsSettings.host", "ws.host")
  ++ Bind("grpcSettings.serviceName", "grpc.service_name")
  ++ Bind("xhttpSettings.path", "splithttp.path")
  ++ Bind("xhttpSettings.host", "splithttp.host")
  ++ Bind("xhttpSettings.mode", "splithttp.mode")

Identity == AccountIdentity ++ SecurityIdentity ++ TransportIdentity

\* The names that xray has for the transports
TransportName ==
  Bind("tcp", "tcp") ++ Bind("ws", "websocket") ++ Bind("grpc", "grpc") ++ Bind("kcp", "mkcp")
  ++ Bind("xhttp", "splithttp")

\* What an account's code stands for
SecurityName ==
  Bind("AUTO", "auto") ++ Bind("AES128_GCM", "aes-128-gcm")
  ++ Bind("CHACHA20_POLY1305", "chacha20-poly1305")
CipherName ==
  Bind("AES_128_GCM", "aes-128-gcm") ++ Bind("AES_256_GCM", "aes-256-gcm")
  ++ Bind("CHACHA20_IETF_POLY1305", "chacha20-ietf-poly1305")
  ++ Bind("XCHACHA20_IETF_POLY1305", "xchacha20-ietf-poly1305") ++ Bind("NONE", "none")

\* A code is that of the name, or the name has none.
StandsFor(code, name, names) ==
  \/ code \in DOMAIN names /\ names[code] = name
  \/ code = "UNKNOWN" /\ \A known \in DOMAIN names : names[known] # name

\* The settings that a child's import would keep and that the encoder has no field for:
\* they are lost when an outbound goes out as a message.  Among them is what a profile
\* says of ECH, of its own certificate and of a pinned one.
Tolerated ==
  {"tlsSettings.echConfigList", "tlsSettings.echForceQuery",
   "tlsSettings.disableSystemRoot", "tlsSettings.pinnedPeerCertSha256",
   "grpcSettings.idle_timeout",
   "grpcSettings.health_check_timeout", "kcpSettings.mtu", "kcpSettings.tti",
   "kcpSettings.readBufferSize", "kcpSettings.writeBufferSize", "kcpSettings.header",
   "headers"}

\* What has a field of another shape, or goes without saying: the network, the password
\* and the cipher are compared on their own; VLESS and Trojan have no cipher.
Reshaped == {"protocol", "network", "password", "method", "users.security",
             "users.encryption", "realitySettings.spiderX",
             "grpcSettings.multiMode", "kcpSettings.congestion", "wsSettings.headers",
             "mux.enabled"}

Unset == {Blank, "none"}

\* The networks and securities for which the two ways are meant to agree: the others are
\* sent without a protocol name or without their TLS settings.
Comparable ==
  /\ At(json, "network") \in {Blank, "tcp", "ws", "grpc", "kcp", "xhttp"}
  /\ At(json, "security") # "xtls"
  /\ ~ (subject.type \in {"socks", "http"} /\ subject.streamsecurity = "reality")

\* The cipher of VMess and of Shadowsocks is the one that the JSON names; one that has
\* no code goes out as UNKNOWN.
CipherAgrees ==
  /\ subject.type = "vmess" =>
       /\ "account.security" \in DOMAIN proto
       /\ StandsFor(proto["account.security"], json["users.security"], SecurityName)
  /\ subject.type = "shadowsocks" =>
       IF Is2022(json["method"])
         THEN "method" \in DOMAIN proto /\ proto["method"] = json["method"]
         ELSE /\ "account.cipher" \in DOMAIN proto
              /\ StandsFor(proto["account.cipher"], json["method"], CipherName)

\* Whichever way an outbound takes, xray hears of the same server, account, cipher,
\* security and transport, but for a cipher without a code, and the message leaves out
\* no setting but the tolerated ones.
BothWaysAgree ==
  stage = "sent" /\ Comparable =>
    /\ proto["type"] = IF subject.type = "shadowsocks" /\ Is2022(json["method"])
                        THEN "shadowsocks_2022" ELSE subject.type
    /\ \A path \in DOMAIN Identity \cap DOMAIN json :
         json[path] \notin Unset =>
           Identity[path] \in DOMAIN proto /\ proto[Identity[path]] = json[path]
    /\ DOMAIN json \subseteq DOMAIN Identity \cup Tolerated \cup Reshaped
    /\ "password" \in DOMAIN json =>
         \E field \in {"account.password", "key"} \cap DOMAIN proto :
           proto[field] = json["password"]
    /\ CipherAgrees
    /\ "network" \in DOMAIN json /\ json["network"] # Blank =>
         proto["protocol_name"] = TransportName[json["network"]]
=============================================================================
