-------------------------- MODULE XrayPool_proofs --------------------------
(* Theorems about XrayPool for any number of workers, instances and ports.  *)
EXTENDS XrayPool, TLAPS

-----------------------------------------------------------------------------
(* The accounting of ports, as a property of four values: who holds which   *)
(* ports (H), the reservations (U), the leaked ports (L) and the torn ones  *)
(* (T).  Each operation on ports is one lemma about these four.             *)

Accounts(H, U, L, T) ==
    /\ \A k, l \in Owner : k # l => H[k] \cap H[l] \subseteq T
    /\ \A k \in Owner : H[k] \cap L \subseteq T
    /\ \A q \in Port :
          q \notin T => (q \in U <=> q \in L \/ \E k \in Owner : q \in H[k])

Holding == [Owner -> SUBSET Port]

\* A free port is reserved for t.
LEMMA AccountsReserve ==
    ASSUME NEW H \in Holding, NEW U, NEW L, NEW T, Accounts(H, U, L, T),
           NEW t \in Owner, NEW p \in Port, p \notin U
    PROVE  Accounts([H EXCEPT ![t] = H[t] \cup {p}], U \cup {p}, L, T)
<1> DEFINE G == [H EXCEPT ![t] = H[t] \cup {p}]
<1>1. \A k \in Owner : G[k] = IF k = t THEN H[t] \cup {p} ELSE H[k]
  BY DEF Holding
<1>2. \A k \in Owner : p \in H[k] \cup L => p \in T
  BY DEF Accounts
<1>3. \A k, l \in Owner : k # l => G[k] \cap G[l] \subseteq T
  BY <1>1, <1>2 DEF Accounts
<1>4. \A k \in Owner : G[k] \cap L \subseteq T
  BY <1>1, <1>2 DEF Accounts
<1>5. ASSUME NEW q \in Port, q \notin T
      PROVE  q \in U \cup {p} <=> q \in L \/ \E k \in Owner : q \in G[k]
  BY <1>1, <1>5 DEF Accounts
<1> QED
  BY <1>3, <1>4, <1>5 DEF Accounts

\* What t holds stays reserved without an owner.
LEMMA AccountsLeak ==
    ASSUME NEW H \in Holding, NEW U, NEW L, NEW T, Accounts(H, U, L, T),
           NEW t \in Owner
    PROVE  Accounts([H EXCEPT ![t] = {}], U, L \cup H[t], T)
<1> DEFINE G == [H EXCEPT ![t] = {}]
<1>1. \A k \in Owner : G[k] = IF k = t THEN {} ELSE H[k]
  BY DEF Holding
<1>2. ASSUME NEW q \in Port, q \notin T
      PROVE  q \in U <=> q \in L \cup H[t] \/ \E k \in Owner : q \in G[k]
  BY <1>1, <1>2 DEF Accounts
<1> QED
  BY <1>1, <1>2 DEF Accounts

\* t gives its ports back.
LEMMA AccountsFree ==
    ASSUME NEW H \in Holding, NEW U, NEW L, NEW T, Accounts(H, U, L, T),
           NEW t \in Owner
    PROVE  Accounts([H EXCEPT ![t] = {}], U \ H[t], L,
                    T \ (H[t] \ (L \cup UNION {H[k] : k \in Owner \ {t}})))
<1> DEFINE G == [H EXCEPT ![t] = {}]
           R == T \ (H[t] \ (L \cup UNION {H[k] : k \in Owner \ {t}}))
<1>1. \A k \in Owner : G[k] = IF k = t THEN {} ELSE H[k]
  BY DEF Holding
<1>2. \A k \in Owner \ {t} : \A q \in H[k] : q \in T => q \in R
  OBVIOUS
<1>3. \A q \in L : q \in T => q \in R
  OBVIOUS
<1>4. \A k, l \in Owner : k # l => G[k] \cap G[l] \subseteq R
  BY <1>1, <1>2 DEF Accounts
<1>5. \A k \in Owner : G[k] \cap L \subseteq R
  BY <1>1, <1>3 DEF Accounts
<1>6. ASSUME NEW q \in Port, q \notin R
      PROVE  q \in U \ H[t] <=> q \in L \/ \E k \in Owner : q \in G[k]
  <2>1. (\E k \in Owner : q \in G[k]) <=> \E k \in Owner \ {t} : q \in H[k]
    BY <1>1
  <2>2. CASE q \in T
    <3>1. q \in H[t] /\ q \notin L /\ \A k \in Owner \ {t} : q \notin H[k]
      BY <1>6, <2>2
    <3> QED
      BY <2>1, <3>1
  <2>3. CASE q \notin T
    BY <2>1, <2>3 DEF Accounts
  <2> QED
    BY <2>2, <2>3
<1> SUFFICES Accounts(G, U \ H[t], L, R)
  OBVIOUS
<1> HIDE DEF R, G
<1> QED
  BY <1>4, <1>5, <1>6 DEF Accounts

\* What s holds passes to t, who held nothing.
LEMMA AccountsMove ==
    ASSUME NEW H \in Holding, NEW U, NEW L, NEW T, Accounts(H, U, L, T),
           NEW s \in Owner, NEW t \in Owner, s # t, H[t] = {}
    PROVE  Accounts([H EXCEPT ![s] = {}, ![t] = H[s]], U, L, T)
<1> DEFINE G == [H EXCEPT ![s] = {}, ![t] = H[s]]
<1>1. \A k \in Owner : G[k] = IF k = t THEN H[s] ELSE IF k = s THEN {} ELSE H[k]
  BY DEF Holding
<1>2. \A k, l \in Owner : k # l => G[k] \cap G[l] \subseteq T
  BY <1>1 DEF Accounts
<1>3. \A k \in Owner : G[k] \cap L \subseteq T
  BY <1>1 DEF Accounts
<1>4. ASSUME NEW q \in Port, q \notin T
      PROVE  q \in U <=> q \in L \/ \E k \in Owner : q \in G[k]
  <2>1. (\E k \in Owner : q \in G[k]) <=> \E k \in Owner : q \in H[k]
    BY <1>1
  <2> QED
    BY <1>4, <2>1 DEF Accounts
<1> QED
  BY <1>2, <1>3, <1>4 DEF Accounts

\* Every reservation is dropped: whatever is still held is torn.
LEMMA AccountsTear ==
    ASSUME NEW H \in Holding
    PROVE  Accounts(H, {}, {}, UNION {H[k] : k \in Owner})
BY DEF Accounts

-----------------------------------------------------------------------------
(* The inductive invariant.                                                 *)

HoldsNone(t) == socks[t] = NoPort /\ api[t] = NoPort
HoldsBoth(t) == socks[t] \in Port /\ api[t] \in Port

\* Which ports a thread has on its hands, and whether a process.
Launch ==
    /\ pc[Main] \in {"spawn", "ready"} => HoldsBoth(Main)
    /\ pc[Main] = "api" => api[Main] = NoPort
    /\ pc[Main] \notin {"api", "spawn", "ready"} => HoldsNone(Main)
    /\ \A w \in Worker : IF pc[w] \in {"stop", "spawn", "ready"}
                         THEN HoldsBoth(w) ELSE HoldsNone(w)
    /\ pc[Tenant] \in {"idle", "socks"} => HoldsNone(Tenant)
    /\ pc[Tenant] = "api" => socks[Tenant] \in Port /\ api[Tenant] = NoPort
    /\ pc[Tenant] \in {"spawn", "serving", "closing"} => HoldsBoth(Tenant)
    /\ child[Main] # NoInst <=> pc[Main] = "ready"
    /\ \A w \in Worker : child[w] # NoInst <=> pc[w] \in {"stop", "ready"}
    /\ child[Tenant] # NoInst <=> pc[Tenant] = "serving"

\* An instance has one keeper: the pool, start(), or a thread, which then has
\* the instance's ports on its hands.
Keepers ==
    /\ pool \cap started = {}
    /\ \A t \in Thread :
          child[t] # NoInst =>
             /\ child[t] \notin pool \cup started
             /\ proc[child[t]].socks = socks[t] /\ proc[child[t]].api = api[t]
    /\ \A t, u \in Thread : t # u /\ child[t] = child[u] => child[t] = NoInst

\* What goes on in which phase of the main thread.
Phases ==
    /\ pc[Main] # "running" => \A w \in Worker : pc[w] = "idle"
    /\ pc[Main] \in {"idle", "running", "ending", "over"} => started = {}
    /\ pc[Main] \in {"running", "ending"} => slot > 0
    /\ pc[Main] \in {"idle", "over"} /\ op \in {"batch", "update"} => pool = {}
    /\ pc[Main] = "over" =>
          /\ mode = "cli" /\ pool = {} /\ used = {}
    /\ mode = "cli" => op \in {"none", "batch"} /\ pc[Tenant] = "idle"

Held == [k \in Owner |-> Owned(k)]
PortsAccounted == Accounts(Held, used, leaked, torn)

Pool ==
    TypeOK /\ Launch /\ Keepers /\ Phases /\ NoOrphan /\ PortsAccounted

LEMMA Names ==
    /\ Main # Tenant /\ Main \notin Worker /\ Tenant \notin Worker
    /\ Main \in Thread /\ Tenant \in Thread /\ Worker \subseteq Thread
    /\ NoPort \notin Port /\ NoInst \notin Inst
    /\ Thread \subseteq Owner /\ Inst \subseteq Owner /\ Thread \cap Inst = {}
<1>1. NoPort \notin Port
  BY PoolAssumption DEF NoPort, Port
<1>2. Main # Tenant
  BY DEF Main, Tenant
<1> QED
  BY <1>1, <1>2, PoolAssumption DEF Thread, Owner

-----------------------------------------------------------------------------
(* How Held changes.                                                        *)

LEMMA HeldTyped == TypeOK => Held \in Holding
BY Names DEF TypeOK, Held, Holding, Owned, InstancePorts

\* A thread changes the ports on its hands, the instances keep theirs.
LEMMA HeldThread ==
    ASSUME TypeOK, NEW t \in Thread, NEW p, NEW q,
           socks' = [socks EXCEPT ![t] = p], api' = [api EXCEPT ![t] = q],
           pool' \cup started' = pool \cup started,
           \A x \in pool \cup started :
              proc'[x].socks = proc[x].socks /\ proc'[x].api = proc[x].api
    PROVE  Held' = [Held EXCEPT ![t] = {p, q} \ {NoPort}]
<1>1. ASSUME NEW k \in Owner
      PROVE  Owned(k)' = IF k = t THEN {p, q} \ {NoPort} ELSE Owned(k)
  BY Names DEF TypeOK, Owned, InstancePorts, Owner
<1> QED
  BY <1>1 DEF Held

\* Nobody's ports change.
LEMMA HeldSame ==
    ASSUME TypeOK, UNCHANGED <<socks, api>>,
           pool' \cup started' = pool \cup started,
           \A x \in pool \cup started :
              proc'[x].socks = proc[x].socks /\ proc'[x].api = proc[x].api
    PROVE  Held' = Held
<1>1. ASSUME NEW k \in Owner
      PROVE  Owned(k)' = Owned(k)
  BY Names DEF TypeOK, Owned, InstancePorts, Owner
<1> QED
  BY <1>1 DEF Held

\* A thread hands its instance over to the pool or to start().
LEMMA HeldGive ==
    ASSUME TypeOK, NEW t \in Thread, NEW x \in Inst,
           x \notin pool \cup started, HoldsBoth(t),
           proc[x].socks = socks[t], proc[x].api = api[t],
           socks' = [socks EXCEPT ![t] = NoPort],
           api' = [api EXCEPT ![t] = NoPort], UNCHANGED proc,
           pool' \cup started' = pool \cup started \cup {x}
    PROVE  /\ Held' = [Held EXCEPT ![t] = {}, ![x] = Held[t]]
           /\ Held[x] = {}
<1>1. ASSUME NEW k \in Owner
      PROVE  Owned(k)' = IF k = x THEN Owned(t) ELSE IF k = t THEN {} ELSE Owned(k)
  <2>1. CASE k = x
    BY <2>1, Names DEF Owned, InstancePorts, HoldsBoth
  <2>2. CASE k = t
    <3>1. socks'[t] = NoPort /\ api'[t] = NoPort
      BY DEF TypeOK
    <3> QED
      BY <2>2, <3>1, Names DEF Owned
  <2>3. CASE k \notin {t, x}
    <3>1. k \in Thread => socks'[k] = socks[k] /\ api'[k] = api[k]
      BY <2>3 DEF TypeOK
    <3> QED
      BY <2>3, <3>1 DEF Owned, InstancePorts
  <2> QED
    BY <2>1, <2>2, <2>3, Names
<1>2. Owned(x) = {}
  BY Names DEF Owned
<1> QED
  BY <1>1, <1>2, Names DEF Held

\* A thread takes an instance out of the pool.
LEMMA HeldTake ==
    ASSUME TypeOK, NEW t \in Thread, NEW x \in pool, HoldsNone(t),
           x \notin started,
           socks' = [socks EXCEPT ![t] = proc[x].socks],
           api' = [api EXCEPT ![t] = proc[x].api], UNCHANGED <<proc, started>>,
           pool' = pool \ {x}
    PROVE  /\ Held' = [Held EXCEPT ![x] = {}, ![t] = Held[x]]
           /\ Held[t] = {}
<1>0. x \in Inst /\ x \notin Thread /\ x # t
  BY Names DEF TypeOK
<1>1. ASSUME NEW k \in Owner
      PROVE  Owned(k)' = IF k = t THEN Owned(x) ELSE IF k = x THEN {} ELSE Owned(k)
  <2>1. CASE k = t
    <3>1. socks'[t] = proc[x].socks /\ api'[t] = proc[x].api
      BY DEF TypeOK
    <3>2. {proc[x].socks, proc[x].api} \subseteq Port
      BY <1>0 DEF TypeOK
    <3> QED
      BY <1>0, <2>1, <3>1, <3>2, Names DEF Owned, InstancePorts
  <2>2. CASE k = x
    BY <1>0, <2>2, Names DEF Owned
  <2>3. CASE k \notin {t, x}
    <3>1. k \in Thread => socks'[k] = socks[k] /\ api'[k] = api[k]
      BY <2>3 DEF TypeOK
    <3> QED
      BY <2>3, <3>1 DEF Owned, InstancePorts
  <2> QED
    BY <1>0, <2>1, <2>2, <2>3
<1>2. Owned(t) = {}
  BY Names DEF Owned, HoldsNone
<1> QED
  BY <1>1, <1>2, Names DEF Held, TypeOK

-----------------------------------------------------------------------------
(* Every step keeps the invariant.                                         *)

LEMMA PoolInit == Init => Pool
<1> SUFFICES ASSUME Init PROVE Pool
  OBVIOUS
<1>1. TypeOK
  <2>1. 0 \in Port /\ mode \in {"gui", "cli"}
    BY PoolAssumption DEF Init, Port
  <2>2. proc \in [Inst -> [st : {"none", "starting", "up", "dead"},
                          socks : Port, api : Port]]
    BY <2>1 DEF Init, NoProcess
  <2> QED
    BY <2>1, <2>2, Names DEF Init, TypeOK, MainPc, WorkerPc, TenantPc
<1>2. Launch /\ Keepers /\ Phases
  BY Names DEF Init, Launch, Keepers, Phases, HoldsNone
<1>3. NoOrphan
  BY DEF Init, NoOrphan, NoProcess
<1>4. PortsAccounted
  <2>1. \A k \in Owner : Held[k] = {}
    BY Names DEF Init, Held, Owned
  <2> QED
    BY <2>1 DEF Init, PortsAccounted, Accounts
<1> QED
  BY <1>1, <1>2, <1>3, <1>4 DEF Pool

LEMMA AccountsNext ==
    PortsAccounted' <=> Accounts(Held', used', leaked', torn')
BY DEF PortsAccounted, Accounts

LEMMA SameAccounts ==
    ASSUME Pool, UNCHANGED <<socks, api, used, leaked, torn>>,
           pool' \cup started' = pool \cup started,
           \A x \in pool \cup started :
              proc'[x].socks = proc[x].socks /\ proc'[x].api = proc[x].api
    PROVE  PortsAccounted'
<1>1. Held' = Held
  BY HeldSame DEF Pool
<1> QED
  BY <1>1, AccountsNext DEF Pool, PortsAccounted

LEMMA FreeAccounts ==
    ASSUME Pool, NEW t \in Thread, FreeBoth(t), UNCHANGED leaked,
           pool' \cup started' = pool \cup started,
           \A x \in pool \cup started :
              proc'[x].socks = proc[x].socks /\ proc'[x].api = proc[x].api
    PROVE  PortsAccounted'
<1>1. Held' = [Held EXCEPT ![t] = {}]
  <2>1. Held' = [Held EXCEPT ![t] = {NoPort, NoPort} \ {NoPort}]
    BY HeldThread DEF Pool, FreeBoth
  <2> QED
    BY <2>1
<1>2. Held[t] = Owned(t) /\ t \in Owner
  BY Names DEF Held
<1>3. Elsewhere(t) = leaked \cup UNION {Held[k] : k \in Owner \ {t}}
  BY DEF Elsewhere, Held
<1>4. /\ used' = used \ Held[t]
      /\ torn' = torn \ (Held[t] \ (leaked \cup UNION {Held[k] : k \in Owner \ {t}}))
  BY <1>2, <1>3 DEF FreeBoth
<1>5. Accounts(Held', used', leaked', torn')
  BY <1>1, <1>2, <1>4, HeldTyped, AccountsFree DEF Pool, PortsAccounted
<1> QED
  BY <1>5, AccountsNext

\* All reservations and leaked ports are dropped, the pool is stopped.
LEMMA TearAccounts ==
    ASSUME Pool, StopAll, UNCHANGED <<socks, api, started>>
    PROVE  PortsAccounted'
<1>1. \A k \in Owner : Held'[k] = IF k \in pool THEN {} ELSE Held[k]
  <2>1. ASSUME NEW k \in Owner
        PROVE  Owned(k)' = IF k \in pool THEN {} ELSE Owned(k)
    BY Names
       DEF Pool, TypeOK, StopAll, Stopped, Owned, InstancePorts, Keepers
  <2> QED
    BY <2>1 DEF Held
<1>2. torn' = UNION {Held'[k] : k \in Owner}
  <2>1. torn' = UNION {Held[k] : k \in Owner \ pool}
    BY DEF StopAll, Held
  <2> QED
    BY <1>1, <2>1
<1>3. Held' \in Holding
  <2>1. Held \in Holding
    BY HeldTyped DEF Pool
  <2>2. Held' = [k \in Owner |-> Held'[k]]
    BY DEF Held
  <2> QED
    BY <1>1, <2>1, <2>2 DEF Holding
<1>4. Accounts(Held', {}, {}, torn')
  BY <1>2, <1>3, AccountsTear
<1> QED
  BY <1>4, AccountsNext DEF StopAll

\* A port that was found free, or none, is added to those of a thread.
LEMMA FoundAccounts ==
    ASSUME Pool, NEW t \in Thread, NEW hint, NEW p \in Port \cup {NoPort},
           Found(hint, p), Reserve(p)
    PROVE  Accounts([Held EXCEPT ![t] = Held[t] \cup ({p} \ {NoPort})],
                    used', leaked, torn)
<1>1. Held \in Holding /\ t \in Owner
  BY HeldTyped, Names DEF Pool
<1>2. CASE p = NoPort
  <2>1. [Held EXCEPT ![t] = Held[t] \cup ({p} \ {NoPort})] = Held
    BY <1>1, <1>2 DEF Holding
  <2>2. used' = used
    BY <1>2 DEF Reserve
  <2> QED
    BY <2>1, <2>2 DEF Pool, PortsAccounted
<1>3. CASE p # NoPort
  <2>1. p \in Port /\ p \notin used
    BY <1>3 DEF Found, Available
  <2>2. Held[t] \cup ({p} \ {NoPort}) = Held[t] \cup {p} /\ used' = used \cup {p}
    BY <1>3 DEF Reserve
  <2> QED
    BY <1>1, <2>1, <2>2, AccountsReserve DEF Pool, PortsAccounted
<1> QED
  BY <1>2, <1>3

LEMMA SocksAccounts ==
    ASSUME Pool, NEW t \in Thread, NEW hint, NEW p \in Port \cup {NoPort},
           Found(hint, p), Reserve(p), HoldsNone(t),
           socks' = [socks EXCEPT ![t] = p],
           UNCHANGED <<api, pool, started, proc, leaked, torn>>
    PROVE  PortsAccounted'
<1>1. api' = [api EXCEPT ![t] = NoPort]
  BY DEF Pool, TypeOK, HoldsNone
<1>2. Held' = [Held EXCEPT ![t] = {p, NoPort} \ {NoPort}]
  <2>1. /\ pool' \cup started' = pool \cup started
        /\ \A x \in pool \cup started :
              proc'[x].socks = proc[x].socks /\ proc'[x].api = proc[x].api
    OBVIOUS
  <2>2. TypeOK /\ socks' = [socks EXCEPT ![t] = p]
    BY DEF Pool
  <2> QED
    BY <1>1, <2>1, <2>2, HeldThread
<1>3. Held[t] = {}
  BY Names DEF Held, Owned, HoldsNone
<1>4. Held' = [Held EXCEPT ![t] = Held[t] \cup ({p} \ {NoPort})]
  BY <1>2, <1>3
<1> QED
  BY <1>4, FoundAccounts, AccountsNext

LEMMA ApiAccounts ==
    ASSUME Pool, NEW t \in Thread, NEW hint, NEW p \in Port \cup {NoPort},
           Found(hint, p), Reserve(p), api[t] = NoPort,
           api' = [api EXCEPT ![t] = p],
           UNCHANGED <<socks, pool, started, proc, leaked, torn>>
    PROVE  PortsAccounted'
<1>1. socks' = [socks EXCEPT ![t] = socks[t]]
  BY DEF Pool, TypeOK
<1>2. Held' = [Held EXCEPT ![t] = {socks[t], p} \ {NoPort}]
  BY <1>1, HeldThread DEF Pool
<1>3. Held[t] = {socks[t]} \ {NoPort}
  BY Names DEF Held, Owned
<1>4. Held' = [Held EXCEPT ![t] = Held[t] \cup ({p} \ {NoPort})]
  <2>1. {socks[t], p} \ {NoPort} = Held[t] \cup ({p} \ {NoPort})
    BY <1>3
  <2> QED
    BY <1>2, <2>1
<1> QED
  BY <1>4, FoundAccounts, AccountsNext

\* start() found one port only, or none, and leaves it reserved.
LEMMA LeakAccounts ==
    ASSUME Pool, NEW t \in Thread, NEW hint, NEW p \in Port \cup {NoPort},
           Found(hint, p), Reserve(p), api[t] = NoPort,
           socks' = [socks EXCEPT ![t] = NoPort],
           leaked' = leaked \cup ({socks[t], p} \ {NoPort}),
           UNCHANGED <<api, pool, started, proc, torn>>
    PROVE  PortsAccounted'
<1> DEFINE H == [Held EXCEPT ![t] = Held[t] \cup ({p} \ {NoPort})]
<1>1. api' = [api EXCEPT ![t] = NoPort]
  BY DEF Pool, TypeOK
<1>2. Held' = [Held EXCEPT ![t] = {NoPort, NoPort} \ {NoPort}]
  BY <1>1, HeldThread DEF Pool
<1>3. Held \in Holding /\ t \in Owner
  BY HeldTyped, Names DEF Pool
<1>4. Held[t] = {socks[t]} \ {NoPort}
  BY Names DEF Held, Owned
<1>5. H \in Holding
  BY <1>3, Names DEF Holding
<1>6. H[t] = {socks[t], p} \ {NoPort}
  BY <1>3, <1>4 DEF Holding
<1>7. Held' = [H EXCEPT ![t] = {}]
  BY <1>2, <1>3 DEF Holding
<1>8. Accounts(H, used', leaked, torn)
  BY FoundAccounts
<1>9. Accounts([H EXCEPT ![t] = {}], used', leaked \cup H[t], torn)
  <2> HIDE DEF H
  <2> QED
    BY <1>3, <1>5, <1>8, AccountsLeak
<1> QED
  BY <1>6, <1>7, <1>9, AccountsNext

LEMMA GiveAccounts ==
    ASSUME Pool, NEW t \in Thread, child[t] # NoInst, HoldsBoth(t),
           socks' = [socks EXCEPT ![t] = NoPort],
           api' = [api EXCEPT ![t] = NoPort],
           pool' \cup started' = pool \cup started \cup {child[t]},
           UNCHANGED <<proc, used, leaked, torn>>
    PROVE  PortsAccounted'
<1> DEFINE x == child[t]
<1>1. x \in Inst /\ x \notin pool \cup started
  BY DEF Pool, TypeOK, Keepers
<1>2. proc[x].socks = socks[t] /\ proc[x].api = api[t]
  BY DEF Pool, Keepers
<1>3. Held' = [Held EXCEPT ![t] = {}, ![x] = Held[t]] /\ Held[x] = {}
  BY <1>1, <1>2, HeldGive DEF Pool
<1>4. Held \in Holding /\ t \in Owner /\ x \in Owner /\ t # x
  BY <1>1, HeldTyped, Names DEF Pool
<1>5. Accounts(Held', used, leaked, torn)
  BY <1>3, <1>4, AccountsMove DEF Pool, PortsAccounted
<1> QED
  BY <1>5, AccountsNext

LEMMA TakeAccounts ==
    ASSUME Pool, NEW t \in Thread, NEW x \in pool, HoldsNone(t),
           socks' = [socks EXCEPT ![t] = proc[x].socks],
           api' = [api EXCEPT ![t] = proc[x].api], pool' = pool \ {x},
           UNCHANGED <<proc, started, used, leaked, torn>>
    PROVE  PortsAccounted'
<1>1. x \in Inst /\ x \notin started
  BY DEF Pool, TypeOK, Keepers
<1>2. Held' = [Held EXCEPT ![x] = {}, ![t] = Held[x]] /\ Held[t] = {}
  BY <1>1, HeldTake DEF Pool
<1>3. Held \in Holding /\ t \in Owner /\ x \in Owner /\ t # x
  BY <1>1, HeldTyped, Names DEF Pool
<1>4. Accounts(Held', used, leaked, torn)
  BY <1>2, <1>3, AccountsMove DEF Pool, PortsAccounted
<1> QED
  BY <1>4, AccountsNext

ProcType == [Inst -> [st : {"none", "starting", "up", "dead"},
                      socks : Port, api : Port]]

LEMMA StoppedTyped ==
    ASSUME TypeOK, NEW S
    PROVE  Stopped(S) \in ProcType
<1>1. NoProcess \in [st : {"none", "starting", "up", "dead"},
                     socks : Port, api : Port]
  BY PoolAssumption DEF NoProcess, Port
<1> QED
  BY <1>1 DEF TypeOK, Stopped, ProcType

\* A thread stops the instance it holds; the others stay as they are.
LEMMA DropFacts ==
    ASSUME Pool, NEW t \in Thread, child[t] # NoInst, DropChild(t),
           UNCHANGED <<pool, started>>
    PROVE  /\ proc' \in ProcType
           /\ \A x \in pool \cup started : proc'[x] = proc[x]
           /\ NoOrphan'
<1>1. proc' \in ProcType
  BY StoppedTyped DEF DropChild, Pool
<1>2. child[t] \in Inst /\ child[t] \notin pool \cup started
  BY DEF Pool, TypeOK, Keepers
<1>3. \A x \in Inst : proc'[x] = IF x = child[t] THEN NoProcess ELSE proc[x]
  BY DEF DropChild, Stopped
<1>4. \A x \in pool \cup started : proc'[x] = proc[x]
  BY <1>2, <1>3 DEF Pool, TypeOK
<1>5. \A u \in Thread : child'[u] = IF u = t THEN NoInst ELSE child[u]
  BY DEF DropChild, Pool, TypeOK
<1>6. ASSUME NEW x \in Inst, proc'[x].st # "none"
      PROVE  x \in pool \cup started \/ \E u \in Thread : child'[u] = x
  <2>1. x # child[t] /\ proc[x].st # "none"
    BY <1>3, <1>6 DEF NoProcess
  <2>2. x \in pool \cup started \/ \E u \in Thread : child[u] = x
    BY <2>1 DEF Pool, NoOrphan
  <2> QED
    BY <1>5, <2>1, <2>2
<1>7. NoOrphan'
  BY <1>6 DEF NoOrphan
<1> QED
  BY <1>1, <1>4, <1>7

\* A thread starts a process; the other instances stay as they are.
LEMMA SpawnFacts ==
    ASSUME Pool, NEW t \in Thread, child[t] = NoInst, HoldsBoth(t),
           SpawnChild(t), UNCHANGED <<pool, started>>
    PROVE  /\ proc' \in ProcType
           /\ \A x \in pool \cup started : proc'[x] = proc[x]
           /\ NoOrphan'
<1>1. PICK x \in Fresh :
         /\ proc' = [proc EXCEPT ![x] = [st |-> "starting", socks |-> socks[t],
                                          api |-> api[t]]]
         /\ child' = [child EXCEPT ![t] = x]
  BY DEF SpawnChild
<1>2. x \in Inst /\ x \notin pool \cup started
  BY DEF Fresh
<1>3. proc' \in ProcType
  BY <1>1, <1>2 DEF Pool, TypeOK, ProcType, HoldsBoth
<1>4. \A y \in Inst : y # x => proc'[y] = proc[y]
  BY <1>1 DEF Pool, TypeOK
<1>5. \A y \in pool \cup started : proc'[y] = proc[y]
  BY <1>2, <1>4 DEF Pool, TypeOK
<1>6. child'[t] = x /\ \A u \in Thread : u # t => child'[u] = child[u]
  BY <1>1 DEF Pool, TypeOK
<1>7. NoOrphan'
  <2>1. ASSUME NEW y \in Inst, proc'[y].st # "none", y # x
        PROVE  y \in pool \cup started \/ \E u \in Thread : child'[u] = y
    <3>1. proc[y].st # "none" /\ y # NoInst
      BY <1>4, <2>1, Names
    <3>2. y \in pool \cup started \/ \E u \in Thread : child[u] = y
      BY <3>1 DEF Pool, NoOrphan
    <3> QED
      BY <1>6, <3>1, <3>2
  <2> QED
    BY <1>6, <2>1 DEF NoOrphan
<1> QED
  BY <1>3, <1>5, <1>7

\* The new instance has one keeper, the thread that started it.
LEMMA SpawnKeepers ==
    ASSUME Pool, NEW t \in Thread, child[t] = NoInst, HoldsBoth(t),
           SpawnChild(t), UNCHANGED <<pool, started, socks, api>>
    PROVE  Keepers'
<1>1. PICK x \in Fresh :
         /\ proc' = [proc EXCEPT ![x] = [st |-> "starting", socks |-> socks[t],
                                          api |-> api[t]]]
         /\ child' = [child EXCEPT ![t] = x]
  BY DEF SpawnChild
<1>2. /\ x \in Inst /\ x \notin pool \cup started
      /\ \A u \in Thread : child[u] # x
  BY DEF Fresh
<1>3. child'[t] = x /\ \A u \in Thread : u # t => child'[u] = child[u]
  BY <1>1 DEF Pool, TypeOK
<1>4. /\ proc'[x].socks = socks[t] /\ proc'[x].api = api[t]
      /\ \A y \in Inst : y # x => proc'[y] = proc[y]
  BY <1>1, <1>2 DEF Pool, TypeOK
<1>5. \A u \in Thread : child[u] \in Inst \cup {NoInst}
  BY DEF Pool, TypeOK
<1> QED
  BY <1>2, <1>3, <1>4, <1>5, Names DEF Pool, Keepers

LEMMA StartCallPool ==
    ASSUME Pool, NEW o \in {"batch", "find", "update"}, StartCall(o)
    PROVE  Pool'
<1> USE Names DEF Pool, TypeOK, MainPc, WorkerPc, TenantPc, StartCall, Goto,
                  launchVars
<1>1. TypeOK'
  BY DEF Launch, HoldsBoth, HoldsNone
<1>2. Launch'
  BY DEF Launch, HoldsBoth, HoldsNone
<1>3. Keepers'
  BY DEF Launch, HoldsBoth, HoldsNone, Keepers, Phases
<1>4. Phases'
  BY DEF Phases
<1>5. NoOrphan'
  BY DEF NoOrphan, Keepers
<1>6. PortsAccounted'
  BY SameAccounts
<1> QED
  BY <1>1, <1>2, <1>3, <1>4, <1>5, <1>6 DEF Pool

LEMMA ReuseInstancePool ==
    ASSUME Pool, ReuseInstance
    PROVE  Pool'
<1> USE Names DEF Pool, TypeOK, MainPc, WorkerPc, TenantPc, ReuseInstance,
                  launchVars
<1>1. TypeOK'
  BY DEF Launch, HoldsBoth, HoldsNone
<1>2. Launch'
  BY DEF Launch, HoldsBoth, HoldsNone
<1>3. Keepers'
  BY DEF Launch, HoldsBoth, HoldsNone, Keepers, Phases
<1>4. Phases'
  BY DEF Phases
<1>5. NoOrphan'
  BY DEF NoOrphan, Keepers
<1>6. PortsAccounted'
  BY SameAccounts
<1> QED
  BY <1>1, <1>2, <1>3, <1>4, <1>5, <1>6 DEF Pool

LEMMA StartFindSocksPool ==
    ASSUME Pool, StartFindSocks
    PROVE  Pool'
<1> USE Names DEF Pool, TypeOK, MainPc, WorkerPc, TenantPc, StartFindSocks,
                  Goto, Reserve
<1>1. TypeOK'
  BY DEF Launch, HoldsBoth, HoldsNone
<1>2. Launch'
  BY DEF Launch, HoldsBoth, HoldsNone
<1>3. Keepers'
  BY DEF Launch, HoldsBoth, HoldsNone, Keepers, Phases
<1>4. Phases'
  BY DEF Phases
<1>5. NoOrphan'
  BY DEF NoOrphan, Keepers
<1>6. PortsAccounted'
  <2>1. PICK p \in Port \cup {NoPort} :
           /\ Found((SocksBase + slot) % (LastPort + 1), p)
           /\ Reserve(p) /\ socks' = [socks EXCEPT ![Main] = p]
    OBVIOUS
  <2>2. HoldsNone(Main)
    BY DEF Launch
  <2> QED
    BY <2>1, <2>2, SocksAccounts
<1> QED
  BY <1>1, <1>2, <1>3, <1>4, <1>5, <1>6 DEF Pool

LEMMA StartFindApiPool ==
    ASSUME Pool, StartFindApi
    PROVE  Pool'
<1> USE Names DEF Pool, TypeOK, MainPc, WorkerPc, TenantPc, StartFindApi, Goto,
                  Reserve, startVars
<1>1. TypeOK'
  BY DEF Launch, HoldsBoth, HoldsNone
<1>2. Launch'
  BY DEF Launch, HoldsBoth, HoldsNone
<1>3. Keepers'
  BY DEF Launch, HoldsBoth, HoldsNone, Keepers, Phases
<1>4. Phases'
  BY DEF Phases
<1>5. NoOrphan'
  BY DEF NoOrphan, Keepers
<1>6. PortsAccounted'
  <2>1. PICK p \in Port \cup {NoPort} :
           /\ Found((ApiBase + slot) % (LastPort + 1), p) /\ Reserve(p)
           /\ \/ /\ api' = [api EXCEPT ![Main] = p]
                 /\ UNCHANGED <<socks, leaked>>
              \/ /\ leaked' = leaked \cup ({socks[Main], p} \ {NoPort})
                 /\ socks' = [socks EXCEPT ![Main] = NoPort]
                 /\ UNCHANGED api
    OBVIOUS
  <2>2. api[Main] = NoPort
    BY DEF Launch
  <2>3. UNCHANGED <<pool, started, proc, torn>>
    OBVIOUS
  <2> QED
    BY <2>1, <2>2, <2>3, ApiAccounts, LeakAccounts
<1> QED
  BY <1>1, <1>2, <1>3, <1>4, <1>5, <1>6 DEF Pool

LEMMA StartSpawnPool ==
    ASSUME Pool, StartSpawn
    PROVE  Pool'
<1> USE Names DEF Pool, TypeOK, MainPc, WorkerPc, TenantPc, StartSpawn, Goto,
                  startVars, SpawnChild, Fresh, FreeBoth
<1>1. TypeOK'
  <2>1. child[Main] = NoInst /\ HoldsBoth(Main)
    BY DEF Launch
  <2>2. proc' \in ProcType
    <3>1. CASE SpawnChild(Main)
      BY <2>1, <3>1, SpawnFacts
    <3>2. CASE UNCHANGED proc
      BY <3>2 DEF ProcType
    <3> QED
      BY <3>1, <3>2
  <2>3. UNCHANGED child \/ child' \in [Thread -> Inst \cup {NoInst}]
    OBVIOUS
  <2>4. used' \subseteq Port /\ torn' \subseteq Port
    OBVIOUS
  <2>5. /\ socks' \in [Thread -> Port \cup {NoPort}]
        /\ api' \in [Thread -> Port \cup {NoPort}]
    OBVIOUS
  <2> QED
    BY <2>2, <2>3, <2>4, <2>5 DEF ProcType
<1>2. Launch'
  BY DEF Launch, HoldsBoth, HoldsNone
<1>3. Keepers'
  BY DEF Launch, HoldsBoth, HoldsNone, Keepers, Phases
<1>4. Phases'
  BY DEF Phases
<1>5. NoOrphan'
  <2>1. child[Main] = NoInst /\ HoldsBoth(Main)
    BY DEF Launch
  <2>2. CASE SpawnChild(Main)
    BY <2>1, <2>2, SpawnFacts
  <2>3. CASE UNCHANGED <<proc, child>>
    BY <2>3 DEF NoOrphan
  <2> QED
    BY <2>2, <2>3
<1>6. PortsAccounted'
  BY SameAccounts, FreeAccounts
<1> QED
  BY <1>1, <1>2, <1>3, <1>4, <1>5, <1>6 DEF Pool

LEMMA StartReadyPool ==
    ASSUME Pool, StartReady
    PROVE  Pool'
<1> USE Names DEF Pool, TypeOK, MainPc, WorkerPc, TenantPc, StartReady, Goto,
                  CanBeReady
<1>1. TypeOK'
  BY DEF Launch, HoldsBoth, HoldsNone
<1>2. Launch'
  BY DEF Launch, HoldsBoth, HoldsNone
<1>3. Keepers'
  BY DEF Launch, HoldsBoth, HoldsNone, Keepers, Phases
<1>4. Phases'
  BY DEF Phases
<1>5. NoOrphan'
  BY DEF NoOrphan, Keepers
<1>6. PortsAccounted'
  BY GiveAccounts DEF Launch
<1> QED
  BY <1>1, <1>2, <1>3, <1>4, <1>5, <1>6 DEF Pool

LEMMA StartNotReadyPool ==
    ASSUME Pool, StartNotReady
    PROVE  Pool'
<1> USE Names DEF Pool, TypeOK, MainPc, WorkerPc, TenantPc, StartNotReady,
                  Goto, startVars, DropChild, Stopped, NoProcess, FreeBoth
<1>1. TypeOK'
  <2>1. child[Main] # NoInst
    BY DEF Launch
  <2>2. proc' \in ProcType
    BY <2>1, DropFacts
  <2> QED
    BY <2>2 DEF ProcType, Launch, HoldsBoth, HoldsNone
<1>2. Launch'
  BY DEF Launch, HoldsBoth, HoldsNone
<1>3. Keepers'
  BY DEF Launch, HoldsBoth, HoldsNone, Keepers, Phases
<1>4. Phases'
  BY DEF Phases
<1>5. NoOrphan'
  <2>1. child[Main] # NoInst
    BY DEF Launch
  <2> QED
    BY <2>1, DropFacts
<1>6. PortsAccounted'
  <2>1. child[Main] # NoInst
    BY DEF Launch
  <2>2. \A x \in pool \cup started : proc'[x] = proc[x]
    BY <2>1, DropFacts
  <2> QED
    BY <2>2, FreeAccounts
<1> QED
  BY <1>1, <1>2, <1>3, <1>4, <1>5, <1>6 DEF Pool

LEMMA StartCommitPool ==
    ASSUME Pool, StartCommit
    PROVE  Pool'
<1> USE Names DEF Pool, TypeOK, MainPc, WorkerPc, TenantPc, StartCommit, Goto,
                  launchVars, StopCalls
<1>1. TypeOK'
  BY DEF Launch, HoldsBoth, HoldsNone
<1>2. Launch'
  BY DEF Launch, HoldsBoth, HoldsNone
<1>3. Keepers'
  BY DEF Launch, HoldsBoth, HoldsNone, Keepers, Phases
<1>4. Phases'
  BY DEF Phases
<1>5. NoOrphan'
  BY DEF NoOrphan, Keepers
<1>6. PortsAccounted'
  BY SameAccounts
<1> QED
  BY <1>1, <1>2, <1>3, <1>4, <1>5, <1>6 DEF Pool

LEMMA EndPool ==
    ASSUME Pool, End
    PROVE  Pool'
<1> USE Names DEF Pool, TypeOK, MainPc, WorkerPc, TenantPc, End, Goto,
                  launchVars, startVars
<1>1. TypeOK'
  BY DEF Launch, HoldsBoth, HoldsNone
<1>2. Launch'
  BY DEF Launch, HoldsBoth, HoldsNone
<1>3. Keepers'
  BY DEF Launch, HoldsBoth, HoldsNone, Keepers, Phases
<1>4. Phases'
  BY DEF Phases
<1>5. NoOrphan'
  BY DEF NoOrphan, Keepers
<1>6. PortsAccounted'
  BY SameAccounts
<1> QED
  BY <1>1, <1>2, <1>3, <1>4, <1>5, <1>6 DEF Pool

LEMMA MainStopAllPool ==
    ASSUME Pool, MainStopAll
    PROVE  Pool'
<1> USE Names DEF Pool, TypeOK, MainPc, WorkerPc, TenantPc, MainStopAll,
                  StopAll, Stopped, NoProcess, AfterStopAll, Goto, launchVars
<1>1. TypeOK'
  <2>1. proc' \in ProcType
    BY StoppedTyped
  <2>2. torn' \subseteq Port
    BY HeldTyped DEF Held, Holding
  <2>3. slot' \in Nat
    BY DEF Phases
  <2> QED
    BY <2>1, <2>2, <2>3 DEF ProcType
<1>2. Launch'
  BY DEF Launch, HoldsBoth, HoldsNone
<1>3. Keepers'
  BY DEF Launch, HoldsBoth, HoldsNone, Keepers, Phases
<1>4. Phases'
  BY DEF Phases
<1>5. NoOrphan'
  BY DEF NoOrphan, Keepers
<1>6. PortsAccounted'
  BY TearAccounts
<1> QED
  BY <1>1, <1>2, <1>3, <1>4, <1>5, <1>6 DEF Pool

LEMMA CtrlCPool ==
    ASSUME Pool, CtrlC
    PROVE  Pool'
<1> USE Names DEF Pool, TypeOK, MainPc, WorkerPc, TenantPc, CtrlC, StopAll,
                  Stopped, NoProcess, launchVars, startVars
<1>1. TypeOK'
  <2>1. proc' \in ProcType
    BY StoppedTyped
  <2>2. torn' \subseteq Port
    BY HeldTyped DEF Held, Holding
  <2>3. slot' \in Nat
    BY DEF Phases
  <2> QED
    BY <2>1, <2>2, <2>3 DEF ProcType
<1>2. Launch'
  BY DEF Launch, HoldsBoth, HoldsNone
<1>3. Keepers'
  BY DEF Launch, HoldsBoth, HoldsNone, Keepers, Phases
<1>4. Phases'
  BY DEF Phases
<1>5. NoOrphan'
  BY DEF NoOrphan, Keepers
<1>6. PortsAccounted'
  BY TearAccounts
<1> QED
  BY <1>1, <1>2, <1>3, <1>4, <1>5, <1>6 DEF Pool

LEMMA ReportPool ==
    ASSUME Pool, NEW w \in Worker, Report(w)
    PROVE  Pool'
<1> USE Names DEF Pool, TypeOK, MainPc, WorkerPc, TenantPc, Report, Goto,
                  launchVars, startVars
<1>1. TypeOK'
  BY DEF Launch, HoldsBoth, HoldsNone
<1>2. Launch'
  BY DEF Launch, HoldsBoth, HoldsNone
<1>3. Keepers'
  BY DEF Launch, HoldsBoth, HoldsNone, Keepers, Phases
<1>4. Phases'
  BY DEF Phases
<1>5. NoOrphan'
  BY DEF NoOrphan, Keepers
<1>6. PortsAccounted'
  BY SameAccounts
<1> QED
  BY <1>1, <1>2, <1>3, <1>4, <1>5, <1>6 DEF Pool

LEMMA StampPool ==
    ASSUME Pool, NEW w \in Worker, Stamp(w)
    PROVE  Pool'
<1> USE Names DEF Pool, TypeOK, MainPc, WorkerPc, TenantPc, Stamp, Goto,
                  launchVars, startVars
<1>1. TypeOK'
  BY DEF Launch, HoldsBoth, HoldsNone
<1>2. Launch'
  BY DEF Launch, HoldsBoth, HoldsNone
<1>3. Keepers'
  BY DEF Launch, HoldsBoth, HoldsNone, Keepers, Phases
<1>4. Phases'
  BY DEF Phases
<1>5. NoOrphan'
  BY DEF NoOrphan, Keepers
<1>6. PortsAccounted'
  BY SameAccounts
<1> QED
  BY <1>1, <1>2, <1>3, <1>4, <1>5, <1>6 DEF Pool

LEMMA NothingToReplacePool ==
    ASSUME Pool, NEW w \in Worker, NothingToReplace(w)
    PROVE  Pool'
<1> USE Names DEF Pool, TypeOK, MainPc, WorkerPc, TenantPc, NothingToReplace,
                  Goto, launchVars, startVars
<1>1. TypeOK'
  BY DEF Launch, HoldsBoth, HoldsNone
<1>2. Launch'
  BY DEF Launch, HoldsBoth, HoldsNone
<1>3. Keepers'
  BY DEF Launch, HoldsBoth, HoldsNone, Keepers, Phases
<1>4. Phases'
  BY DEF Phases
<1>5. NoOrphan'
  BY DEF NoOrphan, Keepers
<1>6. PortsAccounted'
  BY SameAccounts
<1> QED
  BY <1>1, <1>2, <1>3, <1>4, <1>5, <1>6 DEF Pool

LEMMA DetachPool ==
    ASSUME Pool, NEW w \in Worker, Detach(w)
    PROVE  Pool'
<1> USE Names DEF Pool, TypeOK, MainPc, WorkerPc, TenantPc, Detach, Goto,
                  startVars
<1>1. TypeOK'
  BY DEF Launch, HoldsBoth, HoldsNone
<1>2. Launch'
  BY DEF Launch, HoldsBoth, HoldsNone
<1>3. Keepers'
  BY DEF Launch, HoldsBoth, HoldsNone, Keepers, Phases
<1>4. Phases'
  BY DEF Phases
<1>5. NoOrphan'
  <2>1. child[w] = NoInst
    BY DEF Launch
  <2>2. PICK x \in pool : pool' = pool \ {x} /\ child' = [child EXCEPT ![w] = x]
    OBVIOUS
  <2>3. child'[w] = x /\ \A u \in Thread : u # w => child'[u] = child[u]
    BY <2>2
  <2>4. ASSUME NEW y \in Inst, proc'[y].st # "none"
        PROVE  y \in pool' \cup started' \/ \E u \in Thread : child'[u] = y
    <3>1. y \in pool \cup started \/ \E u \in Thread : child[u] = y
      BY <2>4 DEF NoOrphan
    <3> QED
      BY <2>1, <2>2, <2>3, <3>1
  <2> QED
    BY <2>4 DEF NoOrphan
<1>6. PortsAccounted'
  <2>1. PICK x \in pool :
           /\ pool' = pool \ {x}
           /\ socks' = [socks EXCEPT ![w] = proc[x].socks]
           /\ api' = [api EXCEPT ![w] = proc[x].api]
    OBVIOUS
  <2>2. HoldsNone(w)
    BY DEF Launch
  <2> QED
    BY <2>1, <2>2, TakeAccounts
<1> QED
  BY <1>1, <1>2, <1>3, <1>4, <1>5, <1>6 DEF Pool

LEMMA StopStalePool ==
    ASSUME Pool, NEW w \in Worker, StopStale(w)
    PROVE  Pool'
<1> USE Names DEF Pool, TypeOK, MainPc, WorkerPc, TenantPc, StopStale, Goto,
                  startVars, DropChild, Stopped, NoProcess
<1>1. TypeOK'
  <2>1. child[w] # NoInst
    BY DEF Launch
  <2>2. proc' \in ProcType
    BY <2>1, DropFacts
  <2> QED
    BY <2>2 DEF ProcType, Launch, HoldsBoth, HoldsNone
<1>2. Launch'
  BY DEF Launch, HoldsBoth, HoldsNone
<1>3. Keepers'
  BY DEF Launch, HoldsBoth, HoldsNone, Keepers, Phases
<1>4. Phases'
  BY DEF Phases
<1>5. NoOrphan'
  <2>1. child[w] # NoInst
    BY DEF Launch
  <2> QED
    BY <2>1, DropFacts
<1>6. PortsAccounted'
  <2>1. child[w] # NoInst
    BY DEF Launch
  <2>2. \A x \in pool \cup started : proc'[x] = proc[x]
    BY <2>1, DropFacts
  <2> QED
    BY <2>2, SameAccounts
<1> QED
  BY <1>1, <1>2, <1>3, <1>4, <1>5, <1>6 DEF Pool

LEMMA RespawnPool ==
    ASSUME Pool, NEW w \in Worker, Respawn(w)
    PROVE  Pool'
<1> USE Names DEF Pool, TypeOK, MainPc, WorkerPc, TenantPc, Respawn, Goto,
                  startVars, SpawnChild, Fresh, FreeBoth
<1>1. TypeOK'
  <2>1. child[w] = NoInst /\ HoldsBoth(w)
    BY DEF Launch
  <2>2. proc' \in ProcType
    <3>1. CASE SpawnChild(w)
      BY <2>1, <3>1, SpawnFacts
    <3>2. CASE UNCHANGED proc
      BY <3>2 DEF ProcType
    <3> QED
      BY <3>1, <3>2
  <2>3. UNCHANGED child \/ child' \in [Thread -> Inst \cup {NoInst}]
    OBVIOUS
  <2>4. used' \subseteq Port /\ torn' \subseteq Port
    OBVIOUS
  <2>5. /\ socks' \in [Thread -> Port \cup {NoPort}]
        /\ api' \in [Thread -> Port \cup {NoPort}]
    OBVIOUS
  <2> QED
    BY <2>2, <2>3, <2>4, <2>5 DEF ProcType
<1>2. Launch'
  BY DEF Launch, HoldsBoth, HoldsNone
<1>3. Keepers'
  BY DEF Launch, HoldsBoth, HoldsNone, Keepers, Phases
<1>4. Phases'
  BY DEF Phases
<1>5. NoOrphan'
  <2>1. child[w] = NoInst /\ HoldsBoth(w)
    BY DEF Launch
  <2>2. CASE SpawnChild(w)
    BY <2>1, <2>2, SpawnFacts
  <2>3. CASE UNCHANGED <<proc, child>>
    BY <2>3 DEF NoOrphan
  <2> QED
    BY <2>2, <2>3
<1>6. PortsAccounted'
  BY SameAccounts, FreeAccounts
<1> QED
  BY <1>1, <1>2, <1>3, <1>4, <1>5, <1>6 DEF Pool

LEMMA RespawnReadyPool ==
    ASSUME Pool, NEW w \in Worker, RespawnReady(w)
    PROVE  Pool'
<1> USE Names DEF Pool, TypeOK, MainPc, WorkerPc, TenantPc, RespawnReady, Goto,
                  startVars, CanBeReady
<1>1. TypeOK'
  BY DEF Launch, HoldsBoth, HoldsNone
<1>2. Launch'
  BY DEF Launch, HoldsBoth, HoldsNone
<1>3. Keepers'
  BY DEF Launch, HoldsBoth, HoldsNone, Keepers, Phases
<1>4. Phases'
  BY DEF Phases
<1>5. NoOrphan'
  BY DEF NoOrphan, Keepers
<1>6. PortsAccounted'
  BY GiveAccounts DEF Launch
<1> QED
  BY <1>1, <1>2, <1>3, <1>4, <1>5, <1>6 DEF Pool

LEMMA RespawnNotReadyPool ==
    ASSUME Pool, NEW w \in Worker, RespawnNotReady(w)
    PROVE  Pool'
<1> USE Names DEF Pool, TypeOK, MainPc, WorkerPc, TenantPc, RespawnNotReady,
                  Goto, startVars, DropChild, Stopped, NoProcess, FreeBoth
<1>1. TypeOK'
  <2>1. child[w] # NoInst
    BY DEF Launch
  <2>2. proc' \in ProcType
    BY <2>1, DropFacts
  <2> QED
    BY <2>2 DEF ProcType, Launch, HoldsBoth, HoldsNone
<1>2. Launch'
  BY DEF Launch, HoldsBoth, HoldsNone
<1>3. Keepers'
  BY DEF Launch, HoldsBoth, HoldsNone, Keepers, Phases
<1>4. Phases'
  BY DEF Phases
<1>5. NoOrphan'
  <2>1. child[w] # NoInst
    BY DEF Launch
  <2> QED
    BY <2>1, DropFacts
<1>6. PortsAccounted'
  <2>1. child[w] # NoInst
    BY DEF Launch
  <2>2. \A x \in pool \cup started : proc'[x] = proc[x]
    BY <2>1, DropFacts
  <2> QED
    BY <2>2, FreeAccounts
<1> QED
  BY <1>1, <1>2, <1>3, <1>4, <1>5, <1>6 DEF Pool

LEMMA TenantFindSocksPool ==
    ASSUME Pool, TenantFindSocks
    PROVE  Pool'
<1> USE Names DEF Pool, TypeOK, MainPc, WorkerPc, TenantPc, TenantFindSocks,
                  Goto, Reserve, NextAttempt
<1>1. TypeOK'
  BY DEF Launch, HoldsBoth, HoldsNone
<1>2. Launch'
  BY DEF Launch, HoldsBoth, HoldsNone
<1>3. Keepers'
  BY DEF Launch, HoldsBoth, HoldsNone, Keepers, Phases
<1>4. Phases'
  BY DEF Phases
<1>5. NoOrphan'
  BY DEF NoOrphan, Keepers
<1>6. PortsAccounted'
  <2>1. PICK p \in Port \cup {NoPort} :
           /\ Found((TenantSocks + attempt) % (LastPort + 1), p)
           /\ Reserve(p) /\ socks' = [socks EXCEPT ![Tenant] = p]
    OBVIOUS
  <2>2. HoldsNone(Tenant)
    BY DEF Launch
  <2> QED
    BY <2>1, <2>2, SocksAccounts
<1> QED
  BY <1>1, <1>2, <1>3, <1>4, <1>5, <1>6 DEF Pool

LEMMA TenantFindApiPool ==
    ASSUME Pool, TenantFindApi
    PROVE  Pool'
<1> USE Names DEF Pool, TypeOK, MainPc, WorkerPc, TenantPc, TenantFindApi,
                  Goto, Reserve, NextAttempt, FreeBoth
<1>1. TypeOK'
  BY DEF Launch, HoldsBoth, HoldsNone
<1>2. Launch'
  BY DEF Launch, HoldsBoth, HoldsNone
<1>3. Keepers'
  BY DEF Launch, HoldsBoth, HoldsNone, Keepers, Phases
<1>4. Phases'
  BY DEF Phases
<1>5. NoOrphan'
  BY DEF NoOrphan, Keepers
<1>6. PortsAccounted'
  <2>1. CASE FreeBoth(Tenant)
    BY <2>1, FreeAccounts
  <2>2. CASE ~FreeBoth(Tenant)
    <3>1. PICK p \in Port \cup {NoPort} :
             /\ Found((TenantApi + attempt) % (LastPort + 1), p)
             /\ Reserve(p) /\ api' = [api EXCEPT ![Tenant] = p]
             /\ UNCHANGED <<socks, torn>>
      BY <2>2
    <3>2. api[Tenant] = NoPort
      BY DEF Launch
    <3> QED
      BY <3>1, <3>2, ApiAccounts
  <2> QED
    BY <2>1, <2>2
<1> QED
  BY <1>1, <1>2, <1>3, <1>4, <1>5, <1>6 DEF Pool

LEMMA TenantSpawnPool ==
    ASSUME Pool, TenantSpawn
    PROVE  Pool'
<1> USE Names DEF Pool, TypeOK, MainPc, WorkerPc, TenantPc, TenantSpawn, Goto,
                  NextAttempt, SpawnChild, Fresh, FreeBoth
<1>1. TypeOK'
  <2>1. child[Tenant] = NoInst /\ HoldsBoth(Tenant)
    BY DEF Launch
  <2>2. proc' \in ProcType
    <3>1. CASE SpawnChild(Tenant)
      BY <2>1, <3>1, SpawnFacts
    <3>2. CASE UNCHANGED proc
      BY <3>2 DEF ProcType
    <3> QED
      BY <3>1, <3>2
  <2>3. UNCHANGED child \/ child' \in [Thread -> Inst \cup {NoInst}]
    OBVIOUS
  <2>4. used' \subseteq Port /\ torn' \subseteq Port
    OBVIOUS
  <2>5. /\ socks' \in [Thread -> Port \cup {NoPort}]
        /\ api' \in [Thread -> Port \cup {NoPort}]
    OBVIOUS
  <2> QED
    BY <2>2, <2>3, <2>4, <2>5 DEF ProcType
<1>2. Launch'
  BY DEF Launch, HoldsBoth, HoldsNone
<1>3. Keepers'
  <2>1. child[Tenant] = NoInst /\ HoldsBoth(Tenant)
    BY DEF Launch
  <2>2. CASE SpawnChild(Tenant) /\ UNCHANGED <<socks, api>>
    BY <2>1, <2>2, SpawnKeepers
  <2>3. CASE UNCHANGED <<proc, child>>
    BY <2>1, <2>3 DEF Keepers
  <2> QED
    BY <2>2, <2>3
<1>4. Phases'
  BY DEF Phases
<1>5. NoOrphan'
  <2>1. child[Tenant] = NoInst /\ HoldsBoth(Tenant)
    BY DEF Launch
  <2>2. CASE SpawnChild(Tenant)
    BY <2>1, <2>2, SpawnFacts
  <2>3. CASE UNCHANGED <<proc, child>>
    BY <2>3 DEF NoOrphan
  <2> QED
    BY <2>2, <2>3
<1>6. PortsAccounted'
  BY SameAccounts, FreeAccounts
<1> QED
  BY <1>1, <1>2, <1>3, <1>4, <1>5, <1>6 DEF Pool

LEMMA TenantRelaunchPool ==
    ASSUME Pool, TenantRelaunch
    PROVE  Pool'
<1> USE Names DEF Pool, TypeOK, MainPc, WorkerPc, TenantPc, TenantRelaunch,
                  launchVars, startVars
<1>1. TypeOK'
  BY DEF Launch, HoldsBoth, HoldsNone
<1>2. Launch'
  BY DEF Launch, HoldsBoth, HoldsNone
<1>3. Keepers'
  BY DEF Launch, HoldsBoth, HoldsNone, Keepers, Phases
<1>4. Phases'
  BY DEF Phases
<1>5. NoOrphan'
  BY DEF NoOrphan, Keepers
<1>6. PortsAccounted'
  BY SameAccounts
<1> QED
  BY <1>1, <1>2, <1>3, <1>4, <1>5, <1>6 DEF Pool

LEMMA TenantStopPool ==
    ASSUME Pool, TenantStop
    PROVE  Pool'
<1> USE Names DEF Pool, TypeOK, MainPc, WorkerPc, TenantPc, TenantStop, Goto,
                  startVars, DropChild, Stopped, NoProcess
<1>1. TypeOK'
  <2>1. child[Tenant] # NoInst
    BY DEF Launch
  <2>2. proc' \in ProcType
    BY <2>1, DropFacts
  <2> QED
    BY <2>2 DEF ProcType, Launch, HoldsBoth, HoldsNone
<1>2. Launch'
  BY DEF Launch, HoldsBoth, HoldsNone
<1>3. Keepers'
  BY DEF Launch, HoldsBoth, HoldsNone, Keepers, Phases
<1>4. Phases'
  BY DEF Phases
<1>5. NoOrphan'
  <2>1. child[Tenant] # NoInst
    BY DEF Launch
  <2> QED
    BY <2>1, DropFacts
<1>6. PortsAccounted'
  <2>1. child[Tenant] # NoInst
    BY DEF Launch
  <2>2. \A x \in pool \cup started : proc'[x] = proc[x]
    BY <2>1, DropFacts
  <2> QED
    BY <2>2, SameAccounts
<1> QED
  BY <1>1, <1>2, <1>3, <1>4, <1>5, <1>6 DEF Pool

LEMMA TenantFreePool ==
    ASSUME Pool, TenantFree
    PROVE  Pool'
<1> USE Names DEF Pool, TypeOK, MainPc, WorkerPc, TenantPc, TenantFree, Goto,
                  startVars, FreeBoth
<1>1. TypeOK'
  BY DEF Launch, HoldsBoth, HoldsNone
<1>2. Launch'
  BY DEF Launch, HoldsBoth, HoldsNone
<1>3. Keepers'
  BY DEF Launch, HoldsBoth, HoldsNone, Keepers, Phases
<1>4. Phases'
  BY DEF Phases
<1>5. NoOrphan'
  BY DEF NoOrphan, Keepers
<1>6. PortsAccounted'
  BY FreeAccounts
<1> QED
  BY <1>1, <1>2, <1>3, <1>4, <1>5, <1>6 DEF Pool

LEMMA BindPool ==
    ASSUME Pool, NEW x \in Inst, Bind(x)
    PROVE  Pool'
<1> USE Names DEF Pool, TypeOK, MainPc, WorkerPc, TenantPc, Bind, launchVars,
                  startVars
<1>1. TypeOK'
  BY DEF Launch, HoldsBoth, HoldsNone
<1>2. Launch'
  BY DEF Launch, HoldsBoth, HoldsNone
<1>3. Keepers'
  BY DEF Launch, HoldsBoth, HoldsNone, Keepers, Phases
<1>4. Phases'
  BY DEF Phases
<1>5. NoOrphan'
  BY DEF NoOrphan, Keepers
<1>6. PortsAccounted'
  BY SameAccounts
<1> QED
  BY <1>1, <1>2, <1>3, <1>4, <1>5, <1>6 DEF Pool

LEMMA CrashPool ==
    ASSUME Pool, NEW x \in Inst, Crash(x)
    PROVE  Pool'
<1> USE Names DEF Pool, TypeOK, MainPc, WorkerPc, TenantPc, Crash, Alive,
                  launchVars, startVars
<1>1. TypeOK'
  BY DEF Launch, HoldsBoth, HoldsNone
<1>2. Launch'
  BY DEF Launch, HoldsBoth, HoldsNone
<1>3. Keepers'
  BY DEF Launch, HoldsBoth, HoldsNone, Keepers, Phases
<1>4. Phases'
  BY DEF Phases
<1>5. NoOrphan'
  BY DEF NoOrphan, Keepers
<1>6. PortsAccounted'
  BY SameAccounts
<1> QED
  BY <1>1, <1>2, <1>3, <1>4, <1>5, <1>6 DEF Pool

LEMMA StutterPool ==
    ASSUME Pool, UNCHANGED vars
    PROVE  Pool'
<1> USE DEF Pool, vars, launchVars, startVars
<1>1. TypeOK'
  BY DEF TypeOK
<1>2. Launch' /\ Keepers' /\ Phases' /\ NoOrphan'
  BY DEF Launch, HoldsBoth, HoldsNone, Keepers, Phases, NoOrphan
<1>3. PortsAccounted'
  BY SameAccounts
<1> QED
  BY <1>1, <1>2, <1>3

LEMMA PoolNext == Pool /\ [Next]_vars => Pool'
<1> SUFFICES ASSUME Pool, [Next]_vars PROVE Pool'
  OBVIOUS
<1>1. CASE MainStep
  BY <1>1, StartCallPool, ReuseInstancePool, StartFindSocksPool,
     StartFindApiPool, StartSpawnPool, StartReadyPool, StartNotReadyPool,
     StartCommitPool, EndPool, MainStopAllPool DEF MainStep
<1>2. CASE CtrlC
  BY <1>2, CtrlCPool
<1>3. ASSUME NEW w \in Worker, WorkerStep(w)
      PROVE  Pool'
  BY <1>3, ReportPool, StampPool, DetachPool, NothingToReplacePool,
     StopStalePool, RespawnPool, RespawnReadyPool, RespawnNotReadyPool DEF WorkerStep
<1>4. CASE TenantStep
  BY <1>4, TenantFindSocksPool, TenantFindApiPool,
     TenantSpawnPool, TenantRelaunchPool, TenantStopPool,
     TenantFreePool DEF TenantStep
<1>5. CASE Environment
  BY <1>5, BindPool, CrashPool DEF Environment
<1>6. CASE UNCHANGED vars
  BY <1>6, StutterPool
<1> QED
  BY <1>1, <1>2, <1>3, <1>4, <1>5, <1>6 DEF Next, Terminated

LEMMA PoolAlways == Spec => []Pool
BY PoolInit, PoolNext, PTL DEF Spec

-----------------------------------------------------------------------------
(* The theorems.                                                            *)

\* Every variable of the pool keeps its type.
THEOREM PoolTypeCorrect == Spec => []TypeOK
<1>1. Pool => TypeOK
  BY DEF Pool
<1> QED
  BY <1>1, PoolAlways, PTL

\* Two users of PortManager never own the same port, unless a stopAll() of
\* somebody else dropped the reservation of one of them.
THEOREM PortsHaveOneOwner == Spec => []PortsExclusive
<1>1. Pool => PortsExclusive
  BY DEF Pool, PortsAccounted, Accounts, Held, PortsExclusive
<1> QED
  BY <1>1, PoolAlways, PTL

\* usedPorts_ is what the users of PortManager own and what start() leaked; the
\* ports that lost their reservation apart.
THEOREM ReservationsMatch == Spec => []ReservationsAccounted
<1>1. ASSUME Pool
      PROVE  ReservationsAccounted
  <2>1. /\ used \subseteq Port /\ leaked \subseteq Port
        /\ \A k \in Owner : Owned(k) \subseteq Port /\ Held[k] = Owned(k)
    BY <1>1, HeldTyped DEF Pool, TypeOK, Held, Holding
  <2>2. \A q \in Port : q \notin torn =>
           (q \in used <=> q \in leaked \/ \E k \in Owner : q \in Owned(k))
    BY <1>1, <2>1 DEF Pool, PortsAccounted, Accounts
  <2> DEFINE All == UNION {Owned(k) : k \in Owner}
  <2>3. \A q : q \in All <=> \E k \in Owner : q \in Owned(k)
    OBVIOUS
  <2>4. All \subseteq Port
    BY <2>1, <2>3
  <2>5. used \ torn = (leaked \cup All) \ torn
    <3> HIDE DEF All
    <3> QED
      BY <2>1, <2>2, <2>3, <2>4
  <2> QED
    BY <2>5 DEF ReservationsAccounted
<1> QED
  BY <1>1, PoolAlways, PTL

\* A process that runs is in the pool or in the hands of a thread.
THEOREM NoProcessIsLost == Spec => []NoOrphan
<1>1. Pool => NoOrphan
  BY DEF Pool
<1> QED
  BY <1>1, PoolAlways, PTL

\* An operation leaves no worker and no instance behind, the command line
\* program neither a process nor a reservation, whenever Ctrl+C was pressed.
THEOREM OperationsEndClean == Spec => []ShutdownIsClean
<1>1. ASSUME Pool
      PROVE  ShutdownIsClean
  <2>1. pc[Main] \in {"idle", "over"} =>
           (\A w \in Worker : pc[w] = "idle")
           /\ (op \in {"batch", "update"} => pool = {})
    BY <1>1 DEF Pool, Phases
  <2>2. ASSUME pc[Main] = "over"
        PROVE  used = {} /\ \A x \in Inst : proc[x].st = "none"
    <3>1. pool = {} /\ started = {} /\ used = {} /\ pc[Tenant] = "idle"
      BY <1>1, <2>2 DEF Pool, Phases
    <3>2. \A w \in Worker : pc[w] = "idle"
      BY <1>1, <2>1, <2>2
    <3>3. \A t \in Thread : child[t] = NoInst
      BY <1>1, <2>2, <3>1, <3>2 DEF Pool, Launch, Thread
    <3> QED
      BY <1>1, <3>1, <3>3, Names DEF Pool, NoOrphan
  <2> QED
    BY <2>1, <2>2 DEF ShutdownIsClean
<1> QED
  BY <1>1, PoolAlways, PTL

=============================================================================
