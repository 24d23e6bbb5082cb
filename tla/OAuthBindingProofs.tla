-------------------------- MODULE OAuthBindingProofs --------------------------
(***************************************************************************)
(* What the generations of OAuthBinding protect, for any set of calls and  *)
(* chat contexts and any bounds: a claim names one authorization, every    *)
(* version of a refresh token is stored at most once and under one         *)
(* generation, so the stored one is the one the provider accepts and a     *)
(* retry never presents the token that was rejected.                       *)
(***************************************************************************)
EXTENDS OAuthBinding, TLAPS

-----------------------------------------------------------------------------
(* The inductive invariant.                                                *)

None == <<0, 0>>

(* What a call remembers in each phase.                                    *)
Memory(c) ==
  LET k == call[c] IN
  /\ k.pc = "idle" => k = NoCall
  /\ k.pc \in Exchanging => /\ k.gen \in 1..count.links /\ k.link \in 1..count.links
                            /\ k.code \in Link /\ k.rejected = None
  /\ k.pc \in {"commit", "save"} => k.code = k.link
  /\ k.pc \in Refreshing \cup Holding => k.gen > 0 /\ k.link \in Link /\ k.ver \in Ver
  /\ k.pc = "cas" => k.ver + 1 \in Ver
  /\ k.pc = "retry" => k.rejected = <<k.link, k.ver>>
  /\ k.rejected = None \/ k.rejected \in Link \X Ver

(* The rows and the bounds.                                                *)
Rows ==
  /\ count.links <= MaxLinks /\ count.rotations <= MaxRefresh
  /\ auth.gen <= count.links /\ auth.link <= count.links
  /\ auth.gen # 0 => auth.link # 0
  /\ poke.gen <= count.links /\ (poke.gen # 0 => poke.link \in Link)
  /\ token.gen # 0 => token.link \in Link /\ token.ver \in Ver
  /\ \A l \in Link : provider[l] <= count.rotations + 1

(* The claims: two calls never work on one generation.                     *)
ClaimInv ==
  ~restarted => \A c \in Call : InFlight(c, Exchanging) =>
    /\ call[c].gen <= auth.gen
    /\ call[c].gen = auth.gen => auth.link = call[c].link /\ auth.status = "exchanging"
    /\ \A d \in Call \ {c} : InFlight(d, Exchanging) => call[d].gen # call[c].gen

(* Version v of link l was read from the token row by call c.              *)
Knows(c, l, v) ==
  \/ InFlight(c, Refreshing \cup Holding) /\ call[c].link = l /\ call[c].ver = v
  \/ call[c].rejected = <<l, v>> /\ l # 0
Stored(l) == token.gen # 0 /\ token.link = l

(* Whoever carries a version of l that was never stored: the first one in  *)
(* a call or a pending confirmation, a later one in a call that rotated.   *)
CarriesFirst(c, l) == InFlight(c, {"commit", "save"}) /\ call[c].link = l
CarriesNext(c, l)  == InFlight(c, {"cas"}) /\ call[c].link = l
Poked(l) == poke.gen # 0 /\ poke.link = l

Unknown(l) == provider[l] = 1 /\ ~Stored(l) /\ \A c \in Call, v \in Ver : ~Knows(c, l, v)

(* Every version has one carrier and is stored at most once.               *)
CarrierInv ==
  \A l \in Link :
    /\ Poked(l) => Unknown(l) /\ \A c \in Call : ~CarriesFirst(c, l)
    /\ \A c \in Call : CarriesFirst(c, l) =>
         Unknown(l) /\ \A d \in Call \ {c} : ~CarriesFirst(d, l)
    /\ \A c \in Call : CarriesNext(c, l) =>
         /\ \A d \in Call \ {c} : ~CarriesNext(d, l)
         /\ provider[l] = call[c].ver + 1
         /\ Stored(l) => token.ver <= call[c].ver
         /\ \A d \in Call, v \in Ver : Knows(d, l, v) => v <= call[c].ver

(* The stored version is the newest that anybody knows; nobody knows one   *)
(* that was not issued.                                                    *)
VersionInv ==
  \A l \in Link :
    /\ Stored(l) => token.ver <= provider[l]
    /\ \A c \in Call, v \in Ver : Knows(c, l, v) =>
         v <= provider[l] /\ (Stored(l) => v <= token.ver)

(* A version that a call names was stored under one generation only.       *)
GenerationInv ==
  \A c \in Call :
    LET k == call[c]
        stored == <<token.link, token.ver>> IN
    token.gen # 0 =>
      /\ InFlight(c, Refreshing \cup Holding) /\ stored = <<k.link, k.ver>> => token.gen = k.gen
      /\ InFlight(c, Refreshing) /\ stored = k.rejected => token.gen = k.gen
      /\ InFlight(c, {"conflict"}) => stored # k.rejected

CallRecord == [pc : {"idle"} \cup Exchanging \cup Refreshing \cup Holding,
               kind : {"bind", "prepare"}, gen : Nat, link : {0} \cup Link,
               code : {0} \cup Link, ctx : Context \cup {Private},
               ver : {0} \cup Ver, rejected : ({0} \cup Link) \X ({0} \cup Ver)]

(* TypeOK with what its preservation rests on. *)
Ground ==
  /\ auth \in [gen : 0..MaxLinks, link : {0} \cup Link, ctx : Context \cup {Private},
               status : {"pending", "exchanging"}, live : BOOLEAN]
  /\ poke \in [gen : 0..MaxLinks, link : {0} \cup Link, ctx : Context \cup {Private},
               live : BOOLEAN]
  /\ token \in [gen : Nat, link : {0} \cup Link, ver : {0} \cup Ver, fresh : BOOLEAN]
  /\ provider \in [Link -> {0} \cup Ver]
  /\ call \in [Call -> CallRecord]
  /\ restarted \in BOOLEAN /\ unbound \in {0} \cup Link /\ lost \subseteq Link
  /\ count \in [{"links", "rotations", "faults", "crashes"} -> Nat]
  /\ Rows /\ \A c \in Call : Memory(c)

BindingInv ==
  /\ CarrierInv /\ VersionInv /\ GenerationInv
  /\ StoredTokenIsCurrent /\ RejectedTokenNotReused

-----------------------------------------------------------------------------
(* Types.                                                                  *)

(* What the three ways to move a call leave in its record. *)
LEMMA CallUpdates ==
  ASSUME call \in [Call -> CallRecord], NEW c \in Call
  PROVE  /\ \A pc : To(c, pc) =>
              /\ call'[c].pc = pc /\ call'[c].kind = call[c].kind /\ call'[c].gen = call[c].gen
              /\ call'[c].link = call[c].link /\ call'[c].code = call[c].code
              /\ call'[c].ver = call[c].ver /\ call'[c].rejected = call[c].rejected
              /\ \A d \in Call \ {c} : call'[d] = call[d]
         /\ Leave(c) =>
              call'[c] = NoCall /\ \A d \in Call \ {c} : call'[d] = call[d]
         /\ \A pc, row : Grant(c, pc, row) =>
              /\ call'[c].pc = pc /\ call'[c].gen = row.gen /\ call'[c].link = row.link
              /\ call'[c].ver = row.ver /\ call'[c].rejected = call[c].rejected
              /\ \A d \in Call \ {c} : call'[d] = call[d]
<1>0. call \in [Call -> CallRecord] /\ call[c] \in CallRecord
  OBVIOUS
<1>1. \A x : call' = [call EXCEPT ![c] = x] => call'[c] = x /\ \A d \in Call \ {c} : call'[d] = call[d]
  BY <1>0
<1>2. ASSUME NEW pc, To(c, pc)
      PROVE  /\ call'[c].pc = pc /\ call'[c].kind = call[c].kind /\ call'[c].gen = call[c].gen
             /\ call'[c].link = call[c].link /\ call'[c].code = call[c].code
             /\ call'[c].ver = call[c].ver /\ call'[c].rejected = call[c].rejected
             /\ \A d \in Call \ {c} : call'[d] = call[d]
  <2>1. call' = [call EXCEPT ![c] = [call[c] EXCEPT !.pc = pc]]
    BY <1>2 DEF To
  <2>2. QED
    BY <1>0, <1>1, <2>1 DEF CallRecord
<1>3. ASSUME NEW pc, NEW row, Grant(c, pc, row)
      PROVE  /\ call'[c].pc = pc /\ call'[c].gen = row.gen /\ call'[c].link = row.link
             /\ call'[c].ver = row.ver /\ call'[c].rejected = call[c].rejected
             /\ \A d \in Call \ {c} : call'[d] = call[d]
  <2> DEFINE x == [call[c] EXCEPT !.pc = pc, !.gen = row.gen, !.link = row.link, !.ver = row.ver]
  <2>1. call' = [call EXCEPT ![c] = x]
    BY <1>0, <1>3 DEF Grant
  <2>2. x.pc = pc /\ x.gen = row.gen /\ x.link = row.link /\ x.ver = row.ver /\ x.rejected = call[c].rejected
    BY <1>0 DEF CallRecord
  <2>3. QED
    BY <1>1, <2>1, <2>2
<1>4. QED
  BY <1>1, <1>2, <1>3 DEF Leave

(* Calls stay records of their kind. *)
LEMMA CallTypes ==
  ASSUME call \in [Call -> CallRecord], NEW c \in Call
  PROVE  /\ \A pc \in {"idle"} \cup Exchanging \cup Refreshing \cup Holding :
              To(c, pc) => call' \in [Call -> CallRecord]
         /\ Leave(c) => call' \in [Call -> CallRecord]
         /\ \A pc \in Holding \cup Refreshing : \A row :
              Grant(c, pc, row) /\ row.gen \in Nat /\ row.link \in {0} \cup Link /\ row.ver \in {0} \cup Ver
                => call' \in [Call -> CallRecord]
<1>0. call \in [Call -> CallRecord] /\ call[c] \in CallRecord /\ NoCall \in CallRecord
  BY DEF CallRecord, NoCall
<1>1. ASSUME NEW x \in CallRecord, call' = [call EXCEPT ![c] = x] PROVE call' \in [Call -> CallRecord]
  BY <1>0, <1>1
<1>2. ASSUME NEW pc \in {"idle"} \cup Exchanging \cup Refreshing \cup Holding, To(c, pc)
      PROVE  call' \in [Call -> CallRecord]
  <2>1. call' = [call EXCEPT ![c] = [call[c] EXCEPT !.pc = pc]] /\ [call[c] EXCEPT !.pc = pc] \in CallRecord
    BY <1>0, <1>2 DEF To, CallRecord
  <2>2. QED
    BY <1>1, <2>1
<1>3. ASSUME NEW pc \in Holding \cup Refreshing, NEW row, Grant(c, pc, row), row.gen \in Nat,
             row.link \in {0} \cup Link, row.ver \in {0} \cup Ver
      PROVE  call' \in [Call -> CallRecord]
  <2> DEFINE x == [call[c] EXCEPT !.pc = pc, !.gen = row.gen, !.link = row.link, !.ver = row.ver]
  <2>1. call' = [call EXCEPT ![c] = x] /\ x \in CallRecord
    BY <1>0, <1>3 DEF Grant, CallRecord
  <2>2. QED
    BY <1>1, <2>1
<1>4. QED
  BY <1>0, <1>1, <1>2, <1>3 DEF Leave

(* The ground invariant contains the type invariant. *)
LEMMA GroundTypes == Ground => TypeOK
  BY DEF Ground, TypeOK, Memory, InFlight, CallRecord, Ver

(* The records in the rows and the memory of the calls stay what they are. *)
LEMMA StepKeepsGround ==
  ASSUME Ground, Next
  PROVE  Ground'
<1> USE DEF Ground, Rows, Fine, Kept, history, rows
<1>n. MaxLinks \in Nat /\ MaxRefresh \in Nat
  BY MaxLinksAssumption, MaxRefreshAssumption
<1>none. /\ NoAuth \in [gen : 0..MaxLinks, link : {0} \cup Link, ctx : Context \cup {Private},
                        status : {"pending", "exchanging"}, live : BOOLEAN] /\ NoAuth.gen = 0 /\ NoAuth.link = 0
         /\ NoPoke \in [gen : 0..MaxLinks, link : {0} \cup Link, ctx : Context \cup {Private}, live : BOOLEAN] /\ NoPoke.gen = 0
         /\ NoToken \in [gen : Nat, link : {0} \cup Link, ver : {0} \cup Ver, fresh : BOOLEAN] /\ NoToken.gen = 0
  BY <1>n DEF NoAuth, NoPoke, NoToken
<1>spend. ASSUME NEW what \in {"links", "rotations", "faults", "crashes"}, Spend(what)
          PROVE  /\ count' \in [{"links", "rotations", "faults", "crashes"} -> Nat] /\ count'[what] = count[what] + 1
                 /\ \A w \in {"links", "rotations", "faults", "crashes"} \ {what} : count'[w] = count[w]
  BY <1>spend DEF Spend
<1>fault. Fault => /\ count' \in [{"links", "rotations", "faults", "crashes"} -> Nat]
                   /\ count'.links = count.links /\ count'.rotations = count.rotations
  BY <1>spend DEF Fault
<1>idle. \A c : call'[c] = NoCall => Memory(c)'
  BY DEF Memory, NoCall, None, Exchanging, Refreshing, Holding
<1>url. ASSUME NEW ctx \in Context \cup {Private}, AuthorizationUrl(ctx) PROVE Ground'
  <2>1. count'.links = count.links + 1 /\ count'.links <= MaxLinks /\ count'.rotations = count.rotations
        /\ count' \in [{"links", "rotations", "faults", "crashes"} -> Nat]
    BY <1>n, <1>url, <1>spend DEF AuthorizationUrl
  <2>2. auth'.gen = auth.gen + 1 /\ auth'.link = count.links + 1
        /\ auth' \in [gen : 0..MaxLinks, link : {0} \cup Link, ctx : Context \cup {Private},
                      status : {"pending", "exchanging"}, live : BOOLEAN]
    <3>1. auth.gen + 1 \in 0..MaxLinks /\ count.links + 1 \in {0} \cup Link
      <4>1. auth.gen \in Nat /\ count.links \in Nat /\ auth.gen <= count.links /\ count.links + 1 <= MaxLinks
        BY <1>n, <2>1
      <4> HIDE DEF Ground, Rows
      <4>2. QED
        BY <1>n, <4>1 DEF Link
    <3>2. auth' = [gen |-> auth.gen + 1, link |-> count.links + 1, ctx |-> ctx, status |-> "pending", live |-> TRUE]
      BY <1>url DEF AuthorizationUrl
    <3>3. QED
      BY <3>1, <3>2
  <2>3. \A c \in Call : Memory(c)'
    BY <1>url, <2>1 DEF AuthorizationUrl, Memory
  <2>4. QED
    BY <1>n, <1>url, <1>none, <2>1, <2>2, <2>3 DEF AuthorizationUrl
<1>claim. ASSUME NEW c \in Call, NEW kind \in {"bind", "prepare"}, NEW code \in Link, NEW ctx \in Context \cup {Private},
                 Claim(c, kind, code, ctx)
          PROVE  Ground'
  <2>1. CASE auth.live
    <3> DEFINE x == [NoCall EXCEPT !.pc = "exchange", !.kind = kind, !.gen = auth.gen, !.link = auth.link,
                                   !.code = code, !.ctx = ctx]
    <3>1. call' = [call EXCEPT ![c] = x] /\ auth' = [auth EXCEPT !.status = "exchanging"]
          /\ UNCHANGED <<poke, token, provider, lost, history, count>> /\ auth.gen # 0
      BY <1>claim, <2>1 DEF Claim
    <3>2. x.pc = "exchange" /\ x.gen = auth.gen /\ x.link = auth.link /\ x.code = code /\ x.rejected = None /\ x \in CallRecord
      <4>1. auth.gen \in Nat /\ auth.link \in {0} \cup Link /\ NoCall \in CallRecord /\ NoCall.rejected = None
        BY <1>n DEF NoCall, None, CallRecord
      <4>2. QED
        BY <4>1 DEF CallRecord, Exchanging
    <3>3. auth'.gen = auth.gen /\ auth'.link = auth.link
          /\ auth' \in [gen : 0..MaxLinks, link : {0} \cup Link, ctx : Context \cup {Private},
                        status : {"pending", "exchanging"}, live : BOOLEAN]
      BY <3>1
    <3>4. call'[c] = x /\ \A d \in Call \ {c} : call'[d] = call[d]
      BY <3>1
    <3>5. Memory(c)'
      <4>1. auth.gen \in 1..count.links /\ auth.link \in 1..count.links
        BY <1>n, <3>1 DEF Link
      <4>2. /\ call'[c].pc = "exchange" /\ call'[c].gen = auth.gen /\ call'[c].link = auth.link
            /\ call'[c].code = code /\ call'[c].rejected = None /\ UNCHANGED count
        BY <3>1, <3>2, <3>4
      <4>3. QED
        BY <4>1, <4>2 DEF Memory, Exchanging, Refreshing, Holding
    <3> HIDE DEF x
    <3>6. \A d \in Call \ {c} : Memory(d)'
      BY <3>1, <3>4 DEF Memory
    <3>7. call' \in [Call -> CallRecord]
      BY <3>1, <3>2
    <3>8. QED
      BY <3>1, <3>3, <3>5, <3>6, <3>7
  <2>2. CASE ~auth.live
    <3>1. auth' = NoAuth /\ UNCHANGED <<call, poke, token, provider, lost, unbound, count>> /\ restarted' \in BOOLEAN
      BY <1>claim, <2>2 DEF Claim, Deleted
    <3>2. \A d \in Call : Memory(d)'
      BY <3>1 DEF Memory
    <3>3. QED
      BY <1>none, <3>1, <3>2
  <2>3. QED
    BY <2>1, <2>2
(* A call that moves within its phase, or leaves. *)
<1>move. ASSUME NEW c \in Call, count'.links = count.links,
                \/ Leave(c)
                \/ To(c, "release") /\ call[c].pc \in Exchanging
                \/ \E pc \in {"commit", "save"} : To(c, pc) /\ call[c].pc \in Exchanging /\ call[c].code = call[c].link
                \/ \E pc \in {"reread", "conflict"} : To(c, pc) /\ call[c].pc \in Refreshing
         PROVE  call' \in [Call -> CallRecord] /\ \A d \in Call : Memory(d)'
  <2>1. \A d \in Call \ {c} : call'[d] = call[d]
    BY <1>move, CallUpdates
  <2>2. \A d \in Call \ {c} : Memory(d)'
    BY <1>move, <2>1 DEF Memory
  <2>3. Memory(c)'
    <3>1. CASE Leave(c)
      BY <3>1, <1>idle, CallUpdates
    <3>2. ASSUME NEW pc \in {"release", "commit", "save", "reread", "conflict"}, To(c, pc)
          PROVE  /\ call'[c].pc = pc /\ call'[c].gen = call[c].gen
                 /\ call'[c].link = call[c].link /\ call'[c].code = call[c].code
                 /\ call'[c].ver = call[c].ver /\ call'[c].rejected = call[c].rejected
      BY <3>2, CallUpdates
    <3>3. CASE To(c, "release") /\ call[c].pc \in Exchanging
      BY <1>move, <3>2, <3>3 DEF Memory, Exchanging, Refreshing, Holding
    <3>4. CASE \E pc \in {"commit", "save"} : To(c, pc) /\ call[c].pc \in Exchanging /\ call[c].code = call[c].link
      BY <1>move, <3>2, <3>4 DEF Memory, Exchanging, Refreshing, Holding
    <3>5. CASE \E pc \in {"reread", "conflict"} : To(c, pc) /\ call[c].pc \in Refreshing
      BY <1>move, <3>2, <3>5 DEF Memory, Exchanging, Refreshing, Holding
    <3>6. QED
      BY <1>move, <3>1, <3>3, <3>4, <3>5
  <2>4. call' \in [Call -> CallRecord]
    BY <1>move, CallTypes DEF Exchanging, Refreshing
  <2>5. QED
    BY <2>2, <2>3, <2>4
<1>exchange. ASSUME NEW c \in Call, Exchange(c) PROVE Ground'
  <2> DEFINE k == call[c]
  <2>1. k.pc \in Exchanging /\ k.code \in Link
    BY <1>exchange DEF Exchange, Exchanging, Memory
  <2>2. count'.links = count.links /\ count'.rotations = count.rotations
        /\ count' \in [{"links", "rotations", "faults", "crashes"} -> Nat]
    BY <1>exchange, <1>fault DEF Exchange
  <2>3. call' \in [Call -> CallRecord] /\ \A d \in Call : Memory(d)'
    <3>1. \/ Leave(c) \/ To(c, "release")
          \/ k.code = k.link /\ (To(c, "commit") \/ To(c, "save"))
      BY <1>exchange DEF Exchange
    <3>2. QED
      BY <1>move, <2>1, <2>2, <3>1
  <2>4. provider' \in [Link -> {0} \cup Ver] /\ \A l \in Link : provider'[l] <= count.rotations + 1
    <3>1. provider' = provider \/ provider' = [provider EXCEPT ![k.code] = 1]
      BY <1>exchange DEF Exchange
    <3>2. QED
      BY <1>n, <2>1, <3>1 DEF Ver
  <2>5. QED
    BY <1>exchange, <2>2, <2>3, <2>4 DEF Exchange
<1>release. ASSUME NEW c \in Call, Release(c) PROVE Ground'
  <2>1. count'.links = count.links /\ count'.rotations = count.rotations
        /\ count' \in [{"links", "rotations", "faults", "crashes"} -> Nat]
    BY <1>release, <1>fault DEF Release
  <2>2. auth' = auth \/ auth' = [auth EXCEPT !.status = "pending"]
    BY <1>release DEF Release
  <2>3. QED
    BY <1>release, <1>move, <2>1, <2>2 DEF Release
<1>upsert. ASSUME NEW link \in Link, NEW ver \in Ver, NEW fresh \in BOOLEAN, token' = Upserted(link, ver, fresh)
           PROVE  /\ token' \in [gen : Nat, link : {0} \cup Link, ver : {0} \cup Ver, fresh : BOOLEAN]
                  /\ token'.gen = token.gen + 1 /\ token'.link = link /\ token'.ver = ver
  BY <1>upsert DEF Upserted
<1>first. 1 \in Ver
  BY <1>n DEF Ver
<1>commit. ASSUME NEW c \in Call, Commit(c) PROVE Ground'
  <2>1. call[c].pc \in Exchanging /\ call[c].link \in Link
    BY <1>n, <1>commit DEF Commit, Exchanging, Memory, Link
  <2>2. count'.links = count.links /\ count'.rotations = count.rotations
        /\ count' \in [{"links", "rotations", "faults", "crashes"} -> Nat]
    BY <1>commit, <1>fault DEF Commit
  <2>3. call' \in [Call -> CallRecord] /\ \A d \in Call : Memory(d)'
    BY <1>commit, <1>move, <2>1, <2>2 DEF Commit
  <2>4. /\ token' \in [gen : Nat, link : {0} \cup Link, ver : {0} \cup Ver, fresh : BOOLEAN]
        /\ token'.gen # 0 => token'.link \in Link /\ token'.ver \in Ver
    BY <1>commit, <1>upsert, <1>first, <2>1 DEF Commit
  <2>5. auth' \in {auth, NoAuth} /\ poke' \in {poke, NoPoke} /\ UNCHANGED <<provider, lost>>
        /\ restarted' \in BOOLEAN /\ UNCHANGED unbound
    BY <1>commit DEF Commit, Deleted
  <2>6. QED
    BY <1>none, <2>2, <2>3, <2>4, <2>5
<1>save. ASSUME NEW c \in Call, SavePoke(c) PROVE Ground'
  <2>1. call[c].pc \in Exchanging /\ call[c].link \in Link /\ call[c].gen \in 1..count.links /\ call[c] \in CallRecord
    BY <1>n, <1>save DEF SavePoke, Exchanging, Memory, Link
  <2>2. count'.links = count.links /\ count'.rotations = count.rotations
        /\ count' \in [{"links", "rotations", "faults", "crashes"} -> Nat]
    BY <1>save, <1>fault DEF SavePoke
  <2>3. call' \in [Call -> CallRecord] /\ \A d \in Call : Memory(d)'
    BY <1>save, <1>move, <2>1, <2>2 DEF SavePoke
  <2>4. /\ poke' \in [gen : 0..MaxLinks, link : {0} \cup Link, ctx : Context \cup {Private}, live : BOOLEAN]
        /\ poke'.gen <= count.links /\ (poke'.gen # 0 => poke'.link \in Link)
    <3>1. poke' = poke \/ poke' = [gen |-> call[c].gen, link |-> call[c].link, ctx |-> call[c].ctx, live |-> TRUE]
      BY <1>save DEF SavePoke
    <3>2. QED
      <4>1. call[c].gen \in 0..MaxLinks /\ call[c].link \in {0} \cup Link /\ call[c].ctx \in Context \cup {Private}
        BY <1>n, <2>1 DEF CallRecord
      <4>2. QED
        <5>1. CASE poke' = [gen |-> call[c].gen, link |-> call[c].link, ctx |-> call[c].ctx, live |-> TRUE]
          <6>1. poke' \in [gen : 0..MaxLinks, link : {0} \cup Link, ctx : Context \cup {Private}, live : BOOLEAN]
            BY <4>1, <5>1
          <6>2. poke'.gen = call[c].gen /\ poke'.link = call[c].link
            BY <5>1
          <6>3. QED
            BY <2>1, <6>1, <6>2
        <5>2. QED
          BY <3>1, <5>1
  <2>5. QED
    BY <1>save, <2>2, <2>3, <2>4 DEF SavePoke
<1>drop. CASE DropExpiredPoke
  <2>1. auth' \in {auth, NoAuth} /\ poke' = NoPoke /\ UNCHANGED <<provider, lost, token, call, count>>
        /\ restarted' \in BOOLEAN /\ UNCHANGED unbound
    BY <1>drop DEF DropExpiredPoke, Deleted, Tokens
  <2>2. \A d \in Call : Memory(d)'
    BY <2>1 DEF Memory
  <2>3. QED
    BY <1>none, <2>1, <2>2
<1>confirm. ASSUME NEW ctx \in Context, Confirm(ctx) PROVE Ground'
  <2>1. auth' \in {auth, NoAuth} /\ poke' = NoPoke /\ UNCHANGED <<provider, lost, call, count>>
        /\ restarted' \in BOOLEAN /\ UNCHANGED unbound /\ poke.link \in Link
    BY <1>confirm DEF Confirm, Deleted, Tokens
  <2>2. /\ token' \in [gen : Nat, link : {0} \cup Link, ver : {0} \cup Ver, fresh : BOOLEAN]
        /\ token'.gen # 0 => token'.link \in Link /\ token'.ver \in Ver
    BY <1>confirm, <1>upsert, <1>first, <2>1 DEF Confirm
  <2>3. \A d \in Call : Memory(d)'
    BY <2>1 DEF Memory
  <2>4. QED
    BY <1>none, <2>1, <2>2, <2>3
<1>unbind. CASE Unbind
  <2>1. \A d \in Call : Memory(d)'
    BY <1>unbind DEF Unbind, Tokens, Memory
  <2>2. QED
    BY <1>n, <1>none, <1>unbind, <2>1 DEF Unbind, Tokens, Link
<1>read. ASSUME NEW c \in Call, NEW pc \in {"granted", "refresh"}, Read(c, pc), token.gen # 0, UNCHANGED count
         PROVE  call' \in [Call -> CallRecord] /\ \A d \in Call : Memory(d)'
  <2>1. /\ call'[c].pc = pc /\ call'[c].gen = token.gen /\ call'[c].link = token.link
        /\ call'[c].ver = token.ver /\ call'[c].rejected = call[c].rejected
        /\ \A d \in Call \ {c} : call'[d] = call[d]
    BY <1>read, CallUpdates DEF Read
  <2>2. Memory(c)'
    BY <1>read, <2>1 DEF Memory, Exchanging, Refreshing, Holding
  <2>3. \A d \in Call \ {c} : Memory(d)'
    BY <1>read, <2>1 DEF Memory
  <2>4. call' \in [Call -> CallRecord]
    BY <1>read, CallTypes DEF Read, Refreshing, Holding
  <2>5. QED
    BY <2>2, <2>3, <2>4
<1>use. ASSUME NEW c \in Call, UseGrant(c) PROVE Ground'
  <2>1. ASSUME call' = [call EXCEPT ![c].pc = "retry", ![c].rejected = <<call[c].link, call[c].ver>>]
        PROVE  call' \in [Call -> CallRecord] /\ \A d \in Call : Memory(d)'
    <3> DEFINE x == [call[c] EXCEPT !.pc = "retry", !.rejected = <<call[c].link, call[c].ver>>]
    <3>1. call' = [call EXCEPT ![c] = x]
      BY <2>1
    <3>2. call[c].gen > 0 /\ call[c].link \in Link /\ call[c].ver \in Ver /\ call[c] \in CallRecord
      BY <1>use DEF UseGrant, Memory, Holding
    <3>3. /\ x.pc = "retry" /\ x.gen = call[c].gen /\ x.link = call[c].link /\ x.ver = call[c].ver
          /\ x.rejected = <<call[c].link, call[c].ver>> /\ x.rejected \in Link \X Ver /\ x \in CallRecord
      BY <3>2 DEF CallRecord, Holding
    <3> HIDE DEF x
    <3>4. call'[c] = x /\ (\A d \in Call \ {c} : call'[d] = call[d]) /\ call' \in [Call -> CallRecord]
      BY <3>1, <3>3
    <3>5. Memory(c)'
      BY <3>2, <3>3, <3>4 DEF Memory, Exchanging, Refreshing, Holding
    <3>6. \A d \in Call \ {c} : Memory(d)'
      BY <1>use, <3>4 DEF UseGrant, Reading, Memory
    <3>7. QED
      BY <3>4, <3>5, <3>6
  <2>2. call' \in [Call -> CallRecord] /\ \A d \in Call : Memory(d)'
    BY <1>use, <1>move, <2>1 DEF UseGrant, Reading
  <2>3. QED
    BY <1>use, <2>2 DEF UseGrant, Reading
<1>access. ASSUME NEW c \in Call, AccessToken(c) \/ RetryAfterUnauthorized(c) \/ Reread(c) \/ Conflict(c) PROVE Ground'
  <2>1. \/ Leave(c)
        \/ token.gen # 0 /\ (Read(c, "granted") \/ Read(c, "refresh"))
    BY <1>access DEF AccessToken, RetryAfterUnauthorized, Reread, Conflict
  <2>2. UNCHANGED <<rows, provider, lost, count, history>>
    BY <1>access DEF AccessToken, RetryAfterUnauthorized, Reread, Conflict, Reading
  <2>3. call' \in [Call -> CallRecord] /\ \A d \in Call : Memory(d)'
    BY <1>move, <1>read, <2>1, <2>2
  <2>4. QED
    BY <2>2, <2>3
<1>refresh. ASSUME NEW c \in Call, RefreshToken(c) PROVE Ground'
  <2> DEFINE k == call[c]
  <2>1. k.pc = "refresh" /\ k.pc \in Refreshing /\ k.gen > 0 /\ k.link \in Link /\ k.ver \in Ver
    BY <1>refresh DEF RefreshToken, Refreshing, Memory
  <2>2. CASE k.ver # provider[k.link] /\ Fine /\ To(c, "reread") /\ UNCHANGED <<provider, lost>>
    BY <1>refresh, <1>move, <2>1, <2>2 DEF RefreshToken
  <2>3. CASE Fine /\ Leave(c) /\ UNCHANGED <<provider, lost>>
    BY <1>refresh, <1>move, <2>1, <2>3 DEF RefreshToken
  <2>4. ASSUME k.ver = provider[k.link], count.rotations < MaxRefresh, provider' = [provider EXCEPT ![k.link] = @ + 1],
               count'.links = count.links, count'.rotations = count.rotations + 1,
               count' \in [{"links", "rotations", "faults", "crashes"} -> Nat],
               To(c, "cas") \/ Leave(c), lost' \subseteq Link
        PROVE  Ground'
    <3>1. k.ver + 1 \in Ver
      BY <1>n, <2>1, <2>4 DEF Ver
    <3>2. provider' \in [Link -> {0} \cup Ver] /\ \A l \in Link : provider'[l] <= count'.rotations + 1
      BY <1>n, <2>1, <2>4, <3>1 DEF Ver
    <3>3. call' \in [Call -> CallRecord] /\ \A d \in Call : Memory(d)'
      <4>1. CASE Leave(c)
        BY <1>move, <2>4, <4>1
      <4>2. CASE To(c, "cas")
        <5>1. /\ call'[c].pc = "cas" /\ call'[c].gen = k.gen /\ call'[c].link = k.link
              /\ call'[c].ver = k.ver /\ call'[c].rejected = k.rejected
              /\ \A d \in Call \ {c} : call'[d] = call[d]
          BY <4>2, CallUpdates
        <5>2. call' \in [Call -> CallRecord]
          BY <4>2, CallTypes DEF Refreshing
        <5>3. Memory(c)'
          BY <2>1, <3>1, <5>1 DEF Memory, Exchanging, Refreshing, Holding
        <5>4. \A d \in Call \ {c} : Memory(d)'
          BY <2>4, <5>1 DEF Memory
        <5>5. QED
          BY <5>2, <5>3, <5>4
      <4>3. QED
        BY <2>4, <4>1, <4>2
    <3>4. QED
      BY <1>n, <1>refresh, <2>4, <3>2, <3>3 DEF RefreshToken
  <2>5. count' = [count EXCEPT !.faults = @ + 1, !.rotations = @ + 1] =>
          /\ count'.links = count.links /\ count'.rotations = count.rotations + 1
          /\ count' \in [{"links", "rotations", "faults", "crashes"} -> Nat]
    <3> DEFINE mid == [count EXCEPT !.faults = @ + 1]
    <3>1. mid \in [{"links", "rotations", "faults", "crashes"} -> Nat] /\ mid.links = count.links
          /\ mid.rotations = count.rotations
      OBVIOUS
    <3>2. [count EXCEPT !.faults = @ + 1, !.rotations = @ + 1] = [mid EXCEPT !.rotations = @ + 1]
      OBVIOUS
    <3> HIDE DEF mid
    <3>3. QED
      BY <3>1, <3>2
  <2>6. QED
    BY <1>refresh, <1>spend, <2>1, <2>2, <2>3, <2>4, <2>5 DEF RefreshToken
<1>cas. ASSUME NEW c \in Call, CompareAndSwap(c) PROVE Ground'
  <2> DEFINE k == call[c]
  <2>1. k.pc = "cas" /\ k.pc \in Refreshing /\ k.gen > 0 /\ k.link \in Link /\ k.ver + 1 \in Ver
    BY <1>cas DEF CompareAndSwap, Refreshing, Memory
  <2>2. ASSUME NEW fresh \in BOOLEAN, token' = Upserted(k.link, k.ver + 1, fresh), Grant(c, "granted", token'), UNCHANGED <<lost, count>>
        PROVE  Ground'
    <3>1. /\ token' \in [gen : Nat, link : {0} \cup Link, ver : {0} \cup Ver, fresh : BOOLEAN]
          /\ token'.gen = token.gen + 1 /\ token'.link = k.link /\ token'.ver = k.ver + 1
      BY <1>upsert, <2>1, <2>2
    <3>2. /\ call'[c].pc = "granted" /\ call'[c].gen = token.gen + 1 /\ call'[c].link = k.link
          /\ call'[c].ver = k.ver + 1 /\ call'[c].rejected = k.rejected
          /\ \A d \in Call \ {c} : call'[d] = call[d]
      BY <2>2, <3>1, CallUpdates
    <3>3. call' \in [Call -> CallRecord]
      BY <2>2, <3>1, CallTypes DEF Holding
    <3>4. Memory(c)'
      BY <2>1, <3>2 DEF Memory, Exchanging, Refreshing, Holding
    <3>5. \A d \in Call \ {c} : Memory(d)'
      BY <2>2, <3>2 DEF Memory
    <3>6. QED
      BY <1>cas, <2>1, <2>2, <3>1, <3>3, <3>4, <3>5 DEF CompareAndSwap
  <2>3. CASE Fine /\ To(c, "conflict") /\ UNCHANGED <<token, lost>>
    BY <1>cas, <1>move, <2>1, <2>3 DEF CompareAndSwap
  <2>4. CASE Fault /\ Leave(c) /\ lost' = lost \cup {k.link} /\ UNCHANGED token
    BY <1>cas, <1>move, <1>fault, <2>1, <2>4 DEF CompareAndSwap
  <2>5. QED
    BY <1>cas, <2>2, <2>3, <2>4 DEF CompareAndSwap
<1>age. CASE Age
  <2>1. \A d \in Call : Memory(d)'
    BY <1>age DEF Age, Memory
  <2>2. QED
    <3>1. CASE auth' = [auth EXCEPT !.live = FALSE] /\ UNCHANGED <<poke, token>>
      BY <1>age, <2>1, <3>1 DEF Age
    <3>2. CASE poke' = [poke EXCEPT !.live = FALSE] /\ UNCHANGED <<auth, token>>
      <4>1. poke'.gen = poke.gen /\ poke'.link = poke.link
            /\ poke' \in [gen : 0..MaxLinks, link : {0} \cup Link, ctx : Context \cup {Private}, live : BOOLEAN]
        BY <3>2
      <4>2. QED
        BY <1>age, <2>1, <3>2, <4>1 DEF Age
    <3>3. CASE token' = [token EXCEPT !.fresh = FALSE] /\ UNCHANGED <<auth, poke>>
      <4>1. token'.gen = token.gen /\ token'.link = token.link /\ token'.ver = token.ver
            /\ token' \in [gen : Nat, link : {0} \cup Link, ver : {0} \cup Ver, fresh : BOOLEAN]
        BY <3>3
      <4>2. QED
        BY <1>age, <2>1, <3>3, <4>1 DEF Age
    <3>4. QED
      BY <1>age, <3>1, <3>2, <3>3 DEF Age
<1>crash. CASE Crash
  <2>1. count'.links = count.links /\ count'.rotations = count.rotations
        /\ count' \in [{"links", "rotations", "faults", "crashes"} -> Nat]
    BY <1>crash, <1>spend DEF Crash
  <2>2. call' \in [Call -> CallRecord] /\ \A d \in Call : Memory(d)'
    BY <1>crash, <1>idle, CallTypes DEF Crash, CallRecord, NoCall
  <2>3. lost' \subseteq Link
    BY <1>crash DEF Crash, Memory, Refreshing
  <2>4. QED
    BY <1>crash, <2>1, <2>2, <2>3 DEF Crash
<1>quiet. CASE Quiet
  <2>1. \A d \in Call : Memory(d)'
    BY <1>quiet DEF Quiet, vars, Memory
  <2>2. QED
    BY <1>quiet, <2>1 DEF Quiet, vars
<1>q. QED
  BY <1>url, <1>claim, <1>exchange, <1>release, <1>commit, <1>save, <1>drop, <1>confirm, <1>unbind, <1>use,
     <1>access, <1>refresh, <1>cas, <1>age, <1>crash, <1>quiet DEF Next, Binding, Access

(* The ground invariant: types, and what is never reused. *)
LEMMA GroundHolds == Spec => []Ground
<1>1. Init => Ground
  <2>1. MaxLinks \in Nat /\ MaxRefresh \in Nat
    BY MaxLinksAssumption, MaxRefreshAssumption
  <2>2. NoCall \in CallRecord
    BY DEF NoCall, CallRecord
  <2>3. /\ NoAuth \in [gen : 0..MaxLinks, link : {0} \cup Link, ctx : Context \cup {Private},
                      status : {"pending", "exchanging"}, live : BOOLEAN]
        /\ NoPoke \in [gen : 0..MaxLinks, link : {0} \cup Link, ctx : Context \cup {Private}, live : BOOLEAN]
        /\ NoToken \in [gen : Nat, link : {0} \cup Link, ver : {0} \cup Ver, fresh : BOOLEAN]
        /\ NoAuth.gen = 0 /\ NoAuth.link = 0 /\ NoPoke.gen = 0 /\ NoToken.gen = 0
    BY <2>1 DEF NoAuth, NoPoke, NoToken
  <2>4. \A c \in Call : Init => Memory(c)
    BY DEF Init, Memory, NoCall, None, Exchanging, Refreshing, Holding
  <2>5. Init => Rows
    BY <2>1, <2>3 DEF Init, Rows
  <2>6. Init => /\ provider \in [Link -> {0} \cup Ver] /\ call \in [Call -> CallRecord]
                /\ count \in [{"links", "rotations", "faults", "crashes"} -> Nat]
    BY <2>2 DEF Init
  <2>7. QED
    BY <2>3, <2>4, <2>5, <2>6 DEF Init, Ground
<1>2. Ground /\ [Next]_vars => Ground'
  <2>1. Ground /\ Next => Ground'
    BY StepKeepsGround
  <2>2. Ground /\ UNCHANGED vars => Ground'
    <3> SUFFICES ASSUME Ground, UNCHANGED vars PROVE Ground'
      OBVIOUS
    <3>1. \A c \in Call : Memory(c)'
      BY DEF Ground, Memory, vars
    <3>2. QED
      BY <3>1 DEF Ground, Rows, vars, rows, history
  <2>3. QED
    BY <2>1, <2>2
<1>3. QED
  BY <1>1, <1>2, PTL DEF Spec

(* TypeOK holds for all bounds, and with it the shape of what every call   *)
(* remembers between its requests.                                         *)
THEOREM TypeCorrect == Spec => []TypeOK
  BY GroundHolds, GroundTypes, PTL

-----------------------------------------------------------------------------
(* Claims.                                                                 *)

(* Every step keeps a claim with one exchange at most. *)
LEMMA StepKeepsClaims ==
  ASSUME Ground, ClaimInv, Next
  PROVE  ClaimInv'
<1> USE DEF Fine, Kept, history, rows, InFlight
<1>calls. call \in [Call -> CallRecord]
  BY DEF Ground
<1>busy. \A c \in Call : call[c].pc \in Exchanging => call[c].gen \in Nat /\ call[c].gen > 0
  BY MaxLinksAssumption DEF Ground, Memory, CallRecord
<1>gen. auth.gen \in Nat
  BY DEF Ground
<1>idle. NoCall.pc \notin Exchanging
  BY DEF NoCall, Exchanging
(* A step after which no call holds a claim it did not hold before.        *)
<1>keep. ASSUME restarted' = restarted, auth'.gen \in Nat, auth'.gen >= auth.gen,
                auth'.gen = auth.gen => auth'.link = auth.link /\ auth'.status = auth.status,
                \A d \in Call : call'[d].pc \in Exchanging =>
                  call[d].pc \in Exchanging /\ call'[d].gen = call[d].gen /\ call'[d].link = call[d].link
         PROVE  ClaimInv'
  BY <1>keep, <1>busy, <1>gen DEF ClaimInv
(* A step that deletes the row under no call that names it.                *)
<1>gone. ASSUME ~restarted' => \A d \in Call : call'[d].pc \notin Exchanging PROVE ClaimInv'
  BY <1>gone DEF ClaimInv
<1>deletes. ASSUME Deleted(Call, Exchanging), UNCHANGED call PROVE ClaimInv'
  BY <1>deletes, <1>gone DEF Deleted
<1>moves. ASSUME NEW c \in Call, Leave(c) \/ \E pc : To(c, pc) /\ (pc \in Exchanging => call[c].pc \in Exchanging)
          PROVE  \A d \in Call : call'[d].pc \in Exchanging =>
                   call[d].pc \in Exchanging /\ call'[d].gen = call[d].gen /\ call'[d].link = call[d].link
  BY <1>moves, <1>idle, <1>calls, CallUpdates
<1>url. ASSUME NEW ctx \in Context \cup {Private}, AuthorizationUrl(ctx) PROVE ClaimInv'
  BY <1>url, <1>keep, <1>gen DEF AuthorizationUrl
<1>claim. ASSUME NEW c \in Call, NEW kind \in {"bind", "prepare"}, NEW code \in Link, NEW ctx \in Context \cup {Private},
                 Claim(c, kind, code, ctx)
          PROVE  ClaimInv'
  <2>1. CASE auth.live
    <3> DEFINE x == [NoCall EXCEPT !.pc = "exchange", !.kind = kind, !.gen = auth.gen, !.link = auth.link,
                                   !.code = code, !.ctx = ctx]
    <3>1. call' = [call EXCEPT ![c] = x] /\ auth' = [auth EXCEPT !.status = "exchanging"] /\ auth.status = "pending"
          /\ restarted' = restarted
      BY <1>claim, <2>1 DEF Claim
    <3>2. x.pc = "exchange" /\ x.gen = auth.gen /\ x.link = auth.link
      BY DEF NoCall
    <3> HIDE DEF x
    <3>3. call'[c] = x /\ \A d \in Call \ {c} : call'[d] = call[d]
      BY <1>calls, <3>1
    <3>4. auth'.gen = auth.gen /\ auth'.link = auth.link /\ auth'.status = "exchanging"
      BY <3>1 DEF Ground
    <3>5. QED
      BY <1>busy, <1>gen, <3>1, <3>2, <3>3, <3>4 DEF ClaimInv
  <2>2. CASE ~auth.live
    <3>1. UNCHANGED call /\ restarted' = (restarted \/ \E d \in Call \ {c} : call[d].pc \in Exchanging) /\ call[c].pc = "idle"
      BY <1>claim, <2>2 DEF Claim, Deleted
    <3>2. QED
      BY <1>gone, <3>1 DEF Exchanging
  <2>3. QED
    BY <2>1, <2>2
<1>exchange. ASSUME NEW c \in Call, Exchange(c) PROVE ClaimInv'
  <2>1. Leave(c) \/ \E pc : To(c, pc) /\ (pc \in Exchanging => call[c].pc \in Exchanging)
    BY <1>exchange DEF Exchange, Exchanging
  <2>2. QED
    BY <1>exchange, <1>keep, <1>moves, <1>gen, <2>1 DEF Exchange
<1>release. ASSUME NEW c \in Call, Release(c) PROVE ClaimInv'
  <2>1. Leave(c) /\ restarted' = restarted /\ call[c].pc \in Exchanging
    BY <1>release DEF Release, Exchanging
  <2>2. CASE UNCHANGED auth
    BY <1>keep, <1>moves, <1>gen, <2>1, <2>2
  <2>3. CASE OwnClaim(c) /\ auth' = [auth EXCEPT !.status = "pending"]
    <3>1. auth'.gen = auth.gen /\ auth'.link = auth.link
      BY <2>3 DEF Ground
    <3>2. call'[c] = NoCall /\ \A d \in Call \ {c} : call'[d] = call[d]
      BY <1>calls, <2>1, CallUpdates
    <3>3. QED
      BY <1>idle, <2>1, <2>3, <3>1, <3>2 DEF ClaimInv, OwnClaim
  <2>4. QED
    BY <1>release, <2>2, <2>3 DEF Release
<1>commit. ASSUME NEW c \in Call, Commit(c) PROVE ClaimInv'
  <2>1. CASE Leave(c) /\ Deleted(Call \ {c}, Exchanging)
    <3>1. call'[c] = NoCall /\ \A d \in Call \ {c} : call'[d] = call[d]
      BY <1>calls, <2>1, CallUpdates
    <3>2. QED
      BY <1>gone, <1>idle, <2>1, <3>1 DEF Deleted
  <2>2. CASE (Leave(c) \/ To(c, "release")) /\ Kept /\ UNCHANGED rows
    <3>1. call[c].pc \in Exchanging
      BY <1>commit DEF Commit, Exchanging
    <3>2. QED
      BY <1>keep, <1>moves, <1>gen, <2>2, <3>1
  <2>3. QED
    BY <1>commit, <2>1, <2>2 DEF Commit
<1>save. ASSUME NEW c \in Call, SavePoke(c) PROVE ClaimInv'
  <2>1. call[c].pc \in Exchanging
    BY <1>save DEF SavePoke, Exchanging
  <2>2. QED
    BY <1>save, <1>keep, <1>moves, <1>gen, <2>1 DEF SavePoke
<1>drop. CASE DropExpiredPoke
  BY <1>drop, <1>deletes, <1>keep, <1>gen DEF DropExpiredPoke, Tokens
<1>confirm. ASSUME NEW ctx \in Context, Confirm(ctx) PROVE ClaimInv'
  BY <1>confirm, <1>deletes, <1>keep, <1>gen DEF Confirm, Tokens
<1>unbind. CASE Unbind
  BY <1>unbind, <1>gone DEF Unbind, Tokens, Exchanging
<1>access. ASSUME NEW c \in Call, Access(c) PROVE ClaimInv'
  <2>1. restarted' = restarted /\ UNCHANGED auth
    BY <1>access DEF Access, AccessToken, UseGrant, RetryAfterUnauthorized, RefreshToken, Reread, CompareAndSwap, Conflict, Reading
  <2>2. (\E x : call' = [call EXCEPT ![c].pc = "retry", ![c].rejected = x])
        \/ Leave(c) \/ (\E pc \in Holding \cup Refreshing : To(c, pc))
        \/ (\E pc \in Holding \cup Refreshing : \E row : Grant(c, pc, row))
    BY <1>access DEF Access, AccessToken, UseGrant, RetryAfterUnauthorized, RefreshToken, Reread, CompareAndSwap, Conflict,
       Read, Holding, Refreshing
  <2>3. ASSUME NEW x, call' = [call EXCEPT ![c].pc = "retry", ![c].rejected = x]
        PROVE  call'[c].pc = "retry" /\ \A d \in Call \ {c} : call'[d] = call[d]
    BY <1>calls, <2>3 DEF CallRecord
  <2>4. call'[c].pc \notin Exchanging /\ \A d \in Call \ {c} : call'[d] = call[d]
    BY <1>calls, <1>idle, <2>2, <2>3, CallUpdates DEF Exchanging, Holding, Refreshing
  <2>5. QED
    BY <1>keep, <1>gen, <2>1, <2>4
<1>age. CASE Age
  <2>1. auth'.gen = auth.gen /\ auth'.link = auth.link /\ auth'.status = auth.status
    BY <1>age DEF Age, Ground
  <2>2. QED
    BY <1>age, <1>keep, <1>gen, <2>1 DEF Age
<1>crash. CASE Crash
  BY <1>crash, <1>gone, <1>idle DEF Crash
<1>quiet. CASE Quiet
  BY <1>quiet, <1>keep, <1>gen DEF Quiet, vars
<1>q. QED
  BY <1>url, <1>claim, <1>exchange, <1>release, <1>commit, <1>save, <1>drop, <1>confirm, <1>unbind,
     <1>access, <1>age, <1>crash, <1>quiet DEF Next, Binding

(* As long as no row was deleted under a call that names it, a claim is    *)
(* one call's and the authorization it names is the one it claimed.        *)
THEOREM ClaimIsExclusiveHolds == Spec => []ClaimIsExclusive
<1>1. Init => ClaimInv
  BY DEF Init, ClaimInv, InFlight, NoCall, Exchanging
<1>2. Ground /\ ClaimInv /\ [Next]_vars => ClaimInv'
  <2>1. Ground /\ ClaimInv /\ Next => ClaimInv'
    BY StepKeepsClaims
  <2>2. ClaimInv /\ UNCHANGED vars => ClaimInv'
    BY DEF ClaimInv, InFlight, vars, rows, history
  <2>3. QED
    BY <2>1, <2>2
<1>3. ClaimInv => ClaimIsExclusive
  BY DEF ClaimInv, ClaimIsExclusive, InFlight
<1>4. QED
  BY <1>1, <1>2, <1>3, GroundHolds, PTL DEF Spec

-----------------------------------------------------------------------------
(* Versions.                                                               *)

(* A step that stores nothing and tells nobody anything. *)
LEMMA NothingLearnt ==
  ASSUME Ground, CarrierInv, VersionInv, UNCHANGED provider,
         token'.gen # 0 => token'.gen = token.gen /\ token'.link = token.link /\ token'.ver = token.ver,
         poke'.gen # 0 => poke.gen # 0 /\ poke'.link = poke.link,
         \A d \in Call, l \in Link, v \in Ver : (Knows(d, l, v))' => Knows(d, l, v),
         \A d \in Call, l \in Link : (CarriesFirst(d, l))' => CarriesFirst(d, l),
         \A d \in Call, l \in Link : (CarriesNext(d, l))' => CarriesNext(d, l) /\ call'[d].ver = call[d].ver
  PROVE  CarrierInv' /\ VersionInv'
<1>1. \A l \in Link : (Stored(l))' => Stored(l) /\ token'.ver = token.ver
  BY DEF Stored
<1>2. \A l \in Link : (Poked(l))' => Poked(l)
  BY DEF Poked
<1>3. \A l \in Link : Unknown(l) => (Unknown(l))'
  BY <1>1 DEF Unknown
<1>4. CarrierInv'
  BY <1>1, <1>2, <1>3 DEF CarrierInv
<1>5. VersionInv'
  BY <1>1 DEF VersionInv
<1>6. QED
  BY <1>4, <1>5

(* A call reads the token row. *)
LEMMA RowRead ==
  ASSUME Ground, CarrierInv, VersionInv, UNCHANGED <<rows, provider>>, NEW c \in Call, token.gen # 0,
         NEW pc \in {"granted", "refresh"}, Read(c, pc)
  PROVE  CarrierInv' /\ VersionInv'
<1>c. /\ call'[c].pc = pc /\ call'[c].link = token.link /\ call'[c].ver = token.ver
      /\ call'[c].rejected = call[c].rejected /\ \A d \in Call \ {c} : call'[d] = call[d]
  BY CallUpdates DEF Read, Ground
<1>t. token.link \in Link /\ token.ver \in Ver /\ Ver \subseteq Nat /\ Stored(token.link)
  BY MaxRefreshAssumption DEF Ground, Rows, Ver, Stored
<1>1. \A d \in Call, l \in Link, v \in Ver : (Knows(d, l, v))' => Knows(d, l, v) \/ (l = token.link /\ v = token.ver)
  BY <1>c DEF Knows, InFlight, Refreshing, Holding
<1>2. \A d \in Call, l \in Link : /\ (CarriesFirst(d, l))' => CarriesFirst(d, l)
                                  /\ (CarriesNext(d, l))' => CarriesNext(d, l) /\ call'[d].ver = call[d].ver
  BY <1>c DEF CarriesFirst, CarriesNext, InFlight
<1>3. \A l \in Link : /\ (Stored(l))' = Stored(l) /\ (Poked(l))' = Poked(l) /\ (Unknown(l) => (Unknown(l))')
                      /\ token' = token
  BY <1>1, <1>t DEF Stored, Poked, Unknown, rows
<1>4. CarrierInv'
  BY <1>1, <1>2, <1>3, <1>t DEF CarrierInv
<1>5. VersionInv'
  <2>1. ASSUME NEW l \in Link, (Stored(l))' PROVE token'.ver <= provider'[l]
    BY <1>3, <2>1 DEF VersionInv
  <2>2. ASSUME NEW l \in Link, NEW d \in Call, NEW v \in Ver, (Knows(d, l, v))'
        PROVE  v <= provider'[l] /\ ((Stored(l))' => v <= token'.ver)
    <3>1. CASE Knows(d, l, v)
      BY <1>3, <3>1 DEF VersionInv
    <3>2. CASE l = token.link /\ v = token.ver
      BY <1>t, <1>3, <3>2 DEF VersionInv
    <3>3. QED
      BY <1>1, <2>2, <3>1, <3>2
  <2>3. QED
    BY <2>1, <2>2 DEF VersionInv
<1>6. QED
  BY <1>4, <1>5

(* A version that nobody knows and whose carrier gives it up is stored. *)
LEMMA FirstStored ==
  ASSUME Ground, CarrierInv, VersionInv, UNCHANGED provider, NEW l \in Link, Unknown(l),
         token'.gen # 0, token'.link = l, token'.ver = 1,
         poke'.gen # 0 => poke.gen # 0 /\ poke'.link = poke.link,
         ~(Poked(l))', \A d \in Call : ~(CarriesFirst(d, l))',
         \A d \in Call, m \in Link, v \in Ver : (Knows(d, m, v))' => Knows(d, m, v),
         \A d \in Call, m \in Link : (CarriesFirst(d, m))' => CarriesFirst(d, m),
         \A d \in Call, m \in Link : (CarriesNext(d, m))' => CarriesNext(d, m) /\ call'[d].ver = call[d].ver
  PROVE  CarrierInv' /\ VersionInv'
<1>1. \A m \in Link : (Stored(m))' <=> m = l
  BY DEF Stored
<1>2. \A m \in Link : (Poked(m))' => Poked(m) /\ m # l
  BY DEF Poked
<1>3. \A m \in Link : m # l /\ Unknown(m) => (Unknown(m))'
  BY <1>1 DEF Unknown
<1>4. \A d \in Call : ~(CarriesNext(d, l))'
  <2>1. ASSUME NEW d \in Call, CarriesNext(d, l) PROVE FALSE
    <3>1. Knows(d, l, call[d].ver) /\ call[d].ver \in Ver
      BY <2>1 DEF CarriesNext, Knows, InFlight, Refreshing, Ground, Memory
    <3>2. QED
      BY <3>1 DEF Unknown
  <2>2. QED
    BY <2>1
<1>5. CarrierInv'
  BY <1>1, <1>2, <1>3, <1>4 DEF CarrierInv
<1>6. VersionInv'
  BY <1>1 DEF VersionInv, Unknown
<1>7. QED
  BY <1>5, <1>6

(* A step in which calls only leave, claim or give a claim back, and a row *)
(* only goes or ages, keeps everything that is said about versions.        *)
LEMMA CalmStep ==
  ASSUME Ground, Ground', BindingInv, UNCHANGED provider, lost \subseteq lost',
         token'.gen # 0 => token'.gen = token.gen /\ token'.link = token.link /\ token'.ver = token.ver,
         poke'.gen # 0 => poke.gen # 0 /\ poke'.link = poke.link,
         \A d \in Call : \/ call'[d] = call[d]
                         \/ call'[d] = NoCall \/ (call'[d].rejected = None /\ call'[d].pc \in {"exchange", "release"}),
         \A d \in Call : call[d].pc = "cas" /\ call'[d] # call[d] => call[d].link \in lost'
  PROVE  BindingInv'
<1> USE DEF BindingInv
<1>0. NoCall.pc = "idle" /\ NoCall.rejected = None
  BY DEF NoCall, None
<1>1. \A d \in Call : call'[d] # call[d] => call'[d].pc \in {"idle", "exchange", "release"} /\ call'[d].rejected = None
  BY <1>0
<1>2. \A d \in Call, l \in Link, v \in Ver : (Knows(d, l, v))' => Knows(d, l, v)
  <2>1. \A l \in Link, v \in Ver : <<l, v>> # None
    BY DEF None, Link
  <2>2. QED
    BY <1>1, <2>1 DEF Knows, InFlight, Refreshing, Holding
<1>3. \A d \in Call, l \in Link : /\ (CarriesFirst(d, l))' => CarriesFirst(d, l)
                                  /\ (CarriesNext(d, l))' => CarriesNext(d, l) /\ call'[d].ver = call[d].ver
  BY <1>1 DEF CarriesFirst, CarriesNext, InFlight
<1>4. CarrierInv' /\ VersionInv'
  BY <1>2, <1>3, NothingLearnt
<1>5. GenerationInv'
  BY <1>1 DEF GenerationInv, InFlight, Refreshing, Holding
<1>6. StoredTokenIsCurrent'
  <2>1. SUFFICES ASSUME token'.gen # 0, token'.link \notin lost' 
                 PROVE  \/ token'.ver = provider[token'.link]
                        \/ \E c \in Call : call'[c].pc = "cas" /\ call'[c].link = token'.link
    BY DEF StoredTokenIsCurrent
  <2>2. token.gen # 0 /\ token.link \notin lost
    BY <2>1 DEF Ground, Rows
  <2>3. QED
    BY <2>1, <2>2 DEF StoredTokenIsCurrent
<1>7. RejectedTokenNotReused'
  BY <1>1 DEF RejectedTokenNotReused
<1>8. QED
  BY <1>4, <1>5, <1>6, <1>7

(* The provider takes a code: the first version of its link has a carrier, *)
(* or is lost at once.                                                     *)
LEMMA CodeTaken ==
  ASSUME Ground, Ground', BindingInv, NEW c \in Call, NEW l \in Link, call[c].link = l, Exchange(c),
         provider[l] = 0, provider' = [provider EXCEPT ![l] = 1]
  PROVE  BindingInv'
<1> USE DEF BindingInv
<1>c. /\ call[c].pc = "exchange" /\ call[c].rejected = None /\ call[c].pc \in Exchanging
      /\ UNCHANGED <<auth, poke, token, lost>>
  BY DEF Exchange, Ground, Memory, Exchanging, rows
<1>calls. call \in [Call -> CallRecord]
  BY DEF Ground
<1>1. /\ \/ call'[c].pc \in {"commit", "save", "release"} /\ call'[c].link = l /\ call'[c].rejected = None
         \/ call'[c] = NoCall
      /\ \A d \in Call \ {c} : call'[d] = call[d]
  BY <1>c, <1>calls, CallUpdates DEF Exchange
<1>2. provider'[l] = 1 /\ provider[l] = 0 /\ \A m \in Link : m # l => provider'[m] = provider[m]
  BY <1>c DEF Ground
<1>none. NoCall.pc = "idle" /\ NoCall.rejected = None /\ \A m \in Link, v \in Ver : <<m, v>> # None
  BY DEF NoCall, None, Link
<1>3. \A d \in Call, m \in Link, v \in Ver : (Knows(d, m, v))' <=> Knows(d, m, v)
  BY <1>c, <1>1, <1>none DEF Knows, InFlight, Refreshing, Holding
(* Nobody has seen or carries anything of a link without a version.        *)
<1>4. /\ ~Stored(l) /\ ~Poked(l) /\ \A d \in Call, v \in Ver : ~Knows(d, l, v)
      /\ \A d \in Call : ~CarriesFirst(d, l) /\ ~CarriesNext(d, l)
  <2>1. \A v \in Ver : v \in Nat /\ v > 0
    BY MaxRefreshAssumption DEF Ver
  <2>2. \A d \in Call, v \in Ver : ~Knows(d, l, v)
    BY <1>c, <1>2, <2>1 DEF VersionInv
  <2>3. ~Stored(l)
    <3>1. Stored(l) => token.ver \in Ver /\ token.ver <= 0
      BY <1>c, <1>2 DEF VersionInv, Stored, Ground, Rows
    <3>2. QED
      BY <2>1, <3>1
  <2>4. ~Poked(l) /\ \A d \in Call : ~CarriesFirst(d, l)
    BY <1>c, <1>2 DEF CarrierInv, Unknown
  <2>5. \A d \in Call : CarriesNext(d, l) => call[d].ver \in Ver /\ provider[l] = call[d].ver + 1
    BY <1>c DEF CarrierInv, CarriesNext, InFlight, Ground, Memory, Refreshing
  <2>6. QED
    BY <1>2, <2>1, <2>2, <2>3, <2>4, <2>5
<1>5. \A d \in Call, m \in Link : /\ (CarriesFirst(d, m))' => CarriesFirst(d, m) \/ (d = c /\ m = l)
                                  /\ (CarriesNext(d, m))' => CarriesNext(d, m) /\ call'[d] = call[d]
  BY <1>c, <1>1, <1>none DEF CarriesFirst, CarriesNext, InFlight
<1>6. \A m \in Link : /\ (Stored(m))' <=> Stored(m) 
                      /\ (Poked(m))' <=> Poked(m)
                      /\ m # l /\ Unknown(m) => (Unknown(m))'
  BY <1>c, <1>2, <1>3 DEF Stored, Poked, Unknown
<1>7. (Unknown(l))'
  BY <1>2, <1>3, <1>4, <1>6, <1>c DEF Unknown
<1>8. CarrierInv'
  <2>1. ASSUME NEW m \in Link, m # l
        PROVE  /\ (Poked(m))' => (Unknown(m))' /\ \A d \in Call : ~(CarriesFirst(d, m))'
               /\ \A d \in Call : (CarriesFirst(d, m))' =>
                    (Unknown(m))' /\ \A e \in Call \ {d} : ~(CarriesFirst(e, m))'
               /\ \A d \in Call : (CarriesNext(d, m))' =>
                    /\ \A e \in Call \ {d} : ~(CarriesNext(e, m))'
                    /\ provider'[m] = call'[d].ver + 1
                    /\ (Stored(m))' => token'.ver <= call'[d].ver
                    /\ \A e \in Call, v \in Ver : (Knows(e, m, v))' => v <= call'[d].ver
    BY <2>1, <1>c, <1>2, <1>3, <1>5, <1>6 DEF CarrierInv
  <2>2. /\ ~(Poked(l))' /\ \A d \in Call \ {c} : ~(CarriesFirst(d, l))'
        /\ \A d \in Call : ~(CarriesNext(d, l))'
    BY <1>c, <1>4, <1>5, <1>6
  <2>3. QED
    BY <1>7, <2>1, <2>2 DEF CarrierInv
<1>9. VersionInv'
  BY <1>c, <1>2, <1>3, <1>4, <1>6 DEF VersionInv
<1>10. GenerationInv'
  BY <1>c, <1>1, <1>none DEF GenerationInv, InFlight, Refreshing, Holding
<1>11. StoredTokenIsCurrent'
  <2>1. \A d \in Call : call[d].pc = "cas" => call'[d] = call[d]
    BY <1>c, <1>1
  <2>2. token.gen # 0 => token.link \in Link /\ token.link # l
    BY <1>4, <1>c DEF Stored, Ground, Rows
  <2>3. QED
    BY <1>c, <1>2, <2>1, <2>2 DEF StoredTokenIsCurrent
<1>12. RejectedTokenNotReused'
  BY <1>1, <1>none DEF RejectedTokenNotReused
<1>13. QED
  BY <1>8, <1>9, <1>10, <1>11, <1>12

(* The first version goes from its call to the pending confirmation. *)
LEMMA PokeSaved ==
  ASSUME Ground, Ground', BindingInv, NEW c \in Call, call[c].pc = "save", Leave(c), UNCHANGED <<token, provider, lost>>,
         poke'.gen # 0, poke'.link = call[c].link
  PROVE  BindingInv'
<1> USE DEF BindingInv
<1> DEFINE l == call[c].link
<1>0. NoCall.pc = "idle" /\ NoCall.rejected = None /\ \A m \in Link, v \in Ver : <<m, v>> # None
  BY DEF NoCall, None, Link
<1>1. call'[c] = NoCall /\ (\A d \in Call \ {c} : call'[d] = call[d]) /\ l \in Link /\ call[c].rejected = None
  BY CallUpdates DEF Ground, Rows, Memory, Exchanging
<1>2. \A d \in Call, m \in Link, v \in Ver : (Knows(d, m, v))' <=> Knows(d, m, v)
  BY <1>0, <1>1 DEF Knows, InFlight, Refreshing, Holding
<1>3. \A d \in Call, m \in Link : /\ (CarriesFirst(d, m))' <=> CarriesFirst(d, m) /\ d # c
                                  /\ (CarriesNext(d, m))' => CarriesNext(d, m) /\ call'[d] = call[d]
  BY <1>0, <1>1 DEF CarriesFirst, CarriesNext, InFlight
<1>4. \A m \in Link : /\ (Stored(m))' <=> Stored(m)
                      /\ (Poked(m))' <=> m = l
                      /\ Unknown(m) => (Unknown(m))'
  BY <1>2 DEF Stored, Poked, Unknown
<1>5. CarriesFirst(c, l)
  BY DEF CarriesFirst, InFlight
<1>6. CarrierInv'
  BY <1>1, <1>2, <1>3, <1>4, <1>5 DEF CarrierInv
<1>7. VersionInv'
  BY <1>2, <1>4 DEF VersionInv
<1>8. GenerationInv'
  BY <1>0, <1>1 DEF GenerationInv, InFlight, Refreshing, Holding
<1>9. StoredTokenIsCurrent'
  BY <1>1 DEF StoredTokenIsCurrent
<1>10. RejectedTokenNotReused'
  BY <1>0, <1>1 DEF RejectedTokenNotReused
<1>11. QED
  BY <1>6, <1>7, <1>8, <1>9, <1>10

(* The first version of a link is stored, by the call or the confirmation  *)
(* that carried it.                                                        *)
LEMMA FirstIsCurrent ==
  ASSUME Ground, Ground', BindingInv, UNCHANGED <<provider, lost>>, NEW l \in Link, Unknown(l),
         token'.gen # 0, token'.link = l, token'.ver = 1, poke' = NoPoke,
         \A d \in Call : ~(CarriesFirst(d, l))',
         \A d \in Call : call'[d] = call[d] \/ (call[d].pc = "commit" /\ call'[d] = NoCall)
  PROVE  BindingInv'
<1> USE DEF BindingInv
<1>0. NoCall.pc = "idle" /\ NoCall.rejected = None /\ NoPoke.gen = 0 /\ \A m \in Link, v \in Ver : <<m, v>> # None
  BY DEF NoCall, None, NoPoke, Link
<1>1. \A d \in Call, m \in Link, v \in Ver : (Knows(d, m, v))' => Knows(d, m, v)
  BY <1>0 DEF Knows, InFlight, Refreshing, Holding
<1>2. \A d \in Call, m \in Link : /\ (CarriesFirst(d, m))' => CarriesFirst(d, m)
                                  /\ (CarriesNext(d, m))' => CarriesNext(d, m) /\ call'[d].ver = call[d].ver
  BY <1>0 DEF CarriesFirst, CarriesNext, InFlight
<1>3. poke'.gen = 0 /\ ~(Poked(l))'
  BY <1>0 DEF Poked
<1>4. CarrierInv' /\ VersionInv'
  BY <1>1, <1>2, <1>3, FirstStored
<1>5. GenerationInv'
  <2>1. ASSUME NEW d \in Call, call'[d].pc \in Refreshing \cup Holding
        PROVE  <<token'.link, token'.ver>> # <<call'[d].link, call'[d].ver>>
    <3>1. call'[d] = call[d] /\ call[d].link \in Link /\ call[d].ver \in Ver
      BY <1>0, <2>1 DEF Refreshing, Holding, Ground, Memory
    <3>2. Knows(d, call[d].link, call[d].ver)
      BY <2>1, <3>1 DEF Knows, InFlight
    <3>3. QED
      BY <3>1, <3>2 DEF Unknown
  <2>2. ASSUME NEW d \in Call PROVE <<token'.link, token'.ver>> # call'[d].rejected
    <3>1. call'[d].rejected = None \/ (call'[d] = call[d] /\ call[d].rejected \in Link \X Ver)
      BY <1>0 DEF Ground, Memory
    <3>2. 1 \in Ver /\ l # 0
      BY MaxRefreshAssumption DEF Ver, Link
    <3>3. QED
      BY <1>0, <3>1, <3>2 DEF Unknown, Knows
  <2>3. QED
    BY <2>1, <2>2 DEF GenerationInv, InFlight, Refreshing
<1>6. StoredTokenIsCurrent'
  BY DEF StoredTokenIsCurrent, Unknown
<1>7. RejectedTokenNotReused'
  BY <1>0 DEF RejectedTokenNotReused
<1>8. QED
  BY <1>4, <1>5, <1>6, <1>7

(* A call that moves on without learning anything.                         *)
LEMMA CallMoves ==
  ASSUME Ground, Ground', BindingInv, UNCHANGED <<rows, provider, lost>>, NEW c \in Call,
         call'[c].gen = call[c].gen, call'[c].link = call[c].link, call'[c].ver = call[c].ver,
         \A d \in Call \ {c} : call'[d] = call[d],
         \/ /\ call[c].pc = "granted" /\ call'[c].pc = "retry" /\ call'[c].rejected = <<call[c].link, call[c].ver>>
         \/ /\ call[c].pc = "refresh" /\ call'[c].pc = "reread" /\ call'[c].rejected = call[c].rejected
         \/ /\ call[c].pc = "cas" /\ call'[c].pc = "conflict" /\ call'[c].rejected = call[c].rejected
            /\ token.gen # call[c].gen
  PROVE  BindingInv'
<1> USE DEF BindingInv, rows
<1>c. /\ call[c].link \in Link /\ call[c].ver \in Ver /\ call[c].pc \in Refreshing \cup Holding
      /\ call'[c].pc \in Refreshing \cup Holding
  BY DEF Ground, Memory, Refreshing, Holding
<1>v. \A v \in Ver : v \in Nat /\ v > 0
  BY MaxRefreshAssumption DEF Ver
<1>1. \A d \in Call, m \in Link, v \in Ver : (Knows(d, m, v))' => Knows(d, m, v)
  BY <1>c DEF Knows, InFlight
<1>2. \A d \in Call, m \in Link : /\ (CarriesFirst(d, m))' => CarriesFirst(d, m)
                                  /\ (CarriesNext(d, m))' => CarriesNext(d, m) /\ call'[d].ver = call[d].ver
  BY DEF CarriesFirst, CarriesNext, InFlight
<1>3. CarrierInv' /\ VersionInv'
  BY <1>1, <1>2, NothingLearnt
<1>4. GenerationInv'
  <2>1. ASSUME NEW d \in Call, d # c, token.gen # 0
        PROVE  LET k == call'[d]
                   stored == <<token'.link, token'.ver>> IN
               /\ k.pc \in Refreshing \cup Holding /\ stored = <<k.link, k.ver>> => token'.gen = k.gen
               /\ k.pc \in Refreshing /\ stored = k.rejected => token'.gen = k.gen
               /\ k.pc = "conflict" => stored # k.rejected
    BY <2>1 DEF GenerationInv, InFlight
  <2>2. ASSUME token.gen # 0
        PROVE  LET k == call'[c]
                   stored == <<token'.link, token'.ver>> IN
               /\ k.pc \in Refreshing \cup Holding /\ stored = <<k.link, k.ver>> => token'.gen = k.gen
               /\ k.pc \in Refreshing /\ stored = k.rejected => token'.gen = k.gen
               /\ k.pc = "conflict" => stored # k.rejected
    BY <1>c, <2>2 DEF GenerationInv, InFlight, Refreshing, Holding
  <2>3. QED
    BY <2>1, <2>2 DEF GenerationInv, InFlight
<1>5. StoredTokenIsCurrent'
  <2>1. SUFFICES ASSUME token.gen # 0, token.link \notin lost
                 PROVE  \/ token.ver = provider[token.link]
                        \/ \E d \in Call : call'[d].pc = "cas" /\ call'[d].link = token.link
    BY DEF StoredTokenIsCurrent
  <2>2. PICK d \in Call : token.ver = provider[token.link] \/ (call[d].pc = "cas" /\ call[d].link = token.link)
    BY <2>1 DEF StoredTokenIsCurrent
  <2>3. CASE d = c /\ call[c].pc = "cas" /\ call[c].link = token.link
    <3> DEFINE l == call[c].link
    <3>1. Stored(l) /\ CarriesNext(c, l) /\ Knows(c, l, call[c].ver)
      BY <2>1, <2>3, <1>c DEF Stored, CarriesNext, Knows, InFlight
    <3>2. token.ver <= call[c].ver /\ call[c].ver <= token.ver /\ token.ver \in Ver
      BY <1>c, <2>1, <3>1 DEF CarrierInv, VersionInv, Ground, Rows
    <3>3. token.ver = call[c].ver
      BY <1>c, <1>v, <3>2
    <3>4. token.gen = call[c].gen
      BY <1>c, <2>1, <2>3, <3>3 DEF GenerationInv, InFlight
    <3>5. QED
      BY <2>3, <3>4
  <2>4. QED
    BY <2>2, <2>3
<1>6. RejectedTokenNotReused'
  BY DEF RejectedTokenNotReused
<1>7. QED
  BY <1>3, <1>4, <1>5, <1>6

(* What a call reads from the row is never what it saw rejected, unless it *)
(* is about to refresh it.                                                 *)
LEMMA ReadIsAccepted ==
  ASSUME Ground, Ground', BindingInv, UNCHANGED <<rows, provider, lost>>, NEW c \in Call, token.gen # 0,
         NEW pc \in {"granted", "refresh"}, Read(c, pc), call[c].pc # "cas",
         pc = "granted" => <<token.link, token.ver>> # call[c].rejected
  PROVE  BindingInv'
<1> USE DEF BindingInv
<1>1. CarrierInv' /\ VersionInv'
  BY RowRead
<1>2. /\ call'[c].pc = pc /\ call'[c].gen = token.gen /\ call'[c].link = token.link /\ call'[c].ver = token.ver
      /\ call'[c].rejected = call[c].rejected /\ \A d \in Call \ {c} : call'[d] = call[d]
  BY CallUpdates DEF Read, Ground
<1>3. token' = token
  BY DEF rows
<1>4. GenerationInv'
  BY <1>2, <1>3 DEF GenerationInv, InFlight, Refreshing, Holding
<1>5. StoredTokenIsCurrent'
  <2>1. \A d \in Call : call[d].pc = "cas" => call'[d] = call[d]
    BY <1>2
  <2>2. QED
    BY <1>3, <2>1 DEF StoredTokenIsCurrent
<1>6. RejectedTokenNotReused'
  BY <1>2 DEF RejectedTokenNotReused
<1>7. QED
  BY <1>1, <1>4, <1>5, <1>6

(* The provider rotates: the next version has one carrier, or is lost.     *)
LEMMA Rotated ==
  ASSUME Ground, Ground', BindingInv, NEW c \in Call, call[c].pc = "refresh", UNCHANGED rows,
         NEW l \in Link, call[c].link = l, call[c].ver = provider[l], provider' = [provider EXCEPT ![l] = @ + 1],
         \/ To(c, "cas") /\ lost' = lost
         \/ Leave(c) /\ lost' = lost \cup {l}
  PROVE  BindingInv'
<1> USE DEF BindingInv, rows
<1> DEFINE n == provider[l]
<1>v. \A v \in Ver : v \in Nat /\ v > 0
  BY MaxRefreshAssumption DEF Ver
<1>calls. call \in [Call -> CallRecord]
  BY DEF Ground
<1>none. NoCall.pc = "idle" /\ NoCall.rejected = None /\ \A m \in Link, v \in Ver : <<m, v>> # None
  BY DEF NoCall, None, Link
<1>c. call[c].ver \in Ver /\ n \in Ver /\ call[c].pc \in Refreshing
  BY DEF Ground, Memory, Refreshing
<1>1. /\ \/ /\ call'[c].pc = "cas" /\ call'[c].gen = call[c].gen /\ call'[c].link = l /\ call'[c].ver = call[c].ver
            /\ call'[c].rejected = call[c].rejected /\ lost' = lost
         \/ call'[c] = NoCall /\ lost' = lost \cup {l}
      /\ \A d \in Call \ {c} : call'[d] = call[d]
  BY <1>calls, CallUpdates
<1>2. provider'[l] = n + 1 /\ \A m \in Link : m # l => provider'[m] = provider[m]
  BY DEF Ground
<1>3. \A d \in Call, m \in Link, v \in Ver : (Knows(d, m, v))' => Knows(d, m, v)
  BY <1>1, <1>c, <1>none DEF Knows, InFlight, Refreshing, Holding
<1>4. Knows(c, l, n)
  BY <1>c DEF Knows, InFlight
<1>5. /\ ~Poked(l) /\ \A d \in Call : ~CarriesFirst(d, l) /\ ~CarriesNext(d, l)
  <2>1. ~Unknown(l)
    BY <1>4, <1>c DEF Unknown
  <2>2. \A d \in Call : ~CarriesNext(d, l)
    <3>1. ASSUME NEW d \in Call, CarriesNext(d, l) PROVE FALSE
      <4>1. n = call[d].ver + 1 /\ n <= call[d].ver /\ call[d].ver \in Ver
        BY <1>4, <1>c, <3>1 DEF CarrierInv, CarriesNext, InFlight, Ground, Memory, Refreshing
      <4>2. QED
        BY <1>v, <4>1
    <3>2. QED
      BY <3>1
  <2>3. QED
    BY <2>1, <2>2 DEF CarrierInv
<1>6. \A d \in Call, m \in Link : /\ (CarriesFirst(d, m))' => CarriesFirst(d, m) /\ m # l
                                  /\ (CarriesNext(d, m))' =>
                                       \/ CarriesNext(d, m) /\ call'[d] = call[d] /\ m # l
                                       \/ d = c /\ m = l /\ call'[d].ver = n
  BY <1>1, <1>5, <1>none DEF CarriesFirst, CarriesNext, InFlight
<1>7. \A m \in Link : /\ (Stored(m))' <=> Stored(m)
                      /\ (Poked(m))' <=> Poked(m)
                      /\ m # l /\ Unknown(m) => (Unknown(m))'
  BY <1>2, <1>3 DEF Stored, Poked, Unknown
<1>8. \A v \in Ver, d \in Call : Knows(d, l, v) => v <= n
  BY DEF VersionInv
<1>9. Stored(l) => token.ver <= n /\ token.ver \in Ver
  BY DEF VersionInv, Stored, Ground, Rows
<1>10. CarrierInv'
  <2>1. ASSUME NEW m \in Link, m # l
        PROVE  /\ (Poked(m))' => (Unknown(m))' /\ \A d \in Call : ~(CarriesFirst(d, m))'
               /\ \A d \in Call : (CarriesFirst(d, m))' =>
                    (Unknown(m))' /\ \A e \in Call \ {d} : ~(CarriesFirst(e, m))'
               /\ \A d \in Call : (CarriesNext(d, m))' =>
                    /\ \A e \in Call \ {d} : ~(CarriesNext(e, m))'
                    /\ provider'[m] = call'[d].ver + 1
                    /\ (Stored(m))' => token'.ver <= call'[d].ver
                    /\ \A e \in Call, v \in Ver : (Knows(e, m, v))' => v <= call'[d].ver
    BY <2>1, <1>2, <1>3, <1>6, <1>7 DEF CarrierInv
  <2>2. /\ ~(Poked(l))' /\ \A d \in Call : ~(CarriesFirst(d, l))'
        /\ \A d \in Call : (CarriesNext(d, l))' =>
             /\ \A e \in Call \ {d} : ~(CarriesNext(e, l))'
             /\ provider'[l] = call'[d].ver + 1
             /\ (Stored(l))' => token'.ver <= call'[d].ver
             /\ \A e \in Call, v \in Ver : (Knows(e, l, v))' => v <= call'[d].ver
    BY <1>2, <1>3, <1>5, <1>6, <1>7, <1>8, <1>9
  <2>3. QED
    BY <2>1, <2>2 DEF CarrierInv
<1>11. VersionInv'
  BY <1>c, <1>v, <1>2, <1>3, <1>7, <1>9 DEF VersionInv
<1>12. GenerationInv'
  BY <1>1, <1>c, <1>none DEF GenerationInv, InFlight, Refreshing, Holding
<1>13. StoredTokenIsCurrent'
  <2>1. \A d \in Call : call[d].pc = "cas" => call'[d] = call[d]
    BY <1>1
  <2>2. token.gen # 0 => token.link \in Link
    BY DEF Ground, Rows
  <2>3. QED
    BY <1>1, <1>2, <2>1, <2>2 DEF StoredTokenIsCurrent
<1>14. RejectedTokenNotReused'
  BY <1>1, <1>none DEF RejectedTokenNotReused
<1>15. QED
  BY <1>10, <1>11, <1>12, <1>13, <1>14

(* The next version of a link is stored by the call that rotated it, under *)
(* a new generation.                                                       *)
LEMMA NextIsCurrent ==
  ASSUME Ground, Ground', BindingInv, NEW c \in Call, call[c].pc = "cas", UNCHANGED <<poke, provider, lost>>,
         NEW l \in Link, call[c].link = l, token'.gen # 0, token'.link = l, token'.ver = call[c].ver + 1,
         Grant(c, "granted", token')
  PROVE  BindingInv'
<1> USE DEF BindingInv
<1> DEFINE n == call[c].ver
<1>v. \A v \in Ver : v \in Nat /\ v > 0
  BY MaxRefreshAssumption DEF Ver
<1>c. n \in Ver /\ n + 1 \in Ver /\ call[c].pc \in Refreshing /\ call \in [Call -> CallRecord]
  BY DEF Ground, Memory, Refreshing
<1>1. /\ call'[c].pc = "granted" /\ call'[c].gen = token'.gen /\ call'[c].link = l /\ call'[c].ver = n + 1
      /\ call'[c].rejected = call[c].rejected /\ \A d \in Call \ {c} : call'[d] = call[d]
  BY <1>c, CallUpdates
<1>2. CarriesNext(c, l) /\ Knows(c, l, n)
  BY <1>c DEF CarriesNext, Knows, InFlight
<1>3. provider[l] = n + 1 /\ \A d \in Call, v \in Ver : Knows(d, l, v) => v <= n
  BY <1>2 DEF CarrierInv
<1>4. \A d \in Call, m \in Link, v \in Ver : (Knows(d, m, v))' => Knows(d, m, v) \/ (m = l /\ v = n + 1)
  BY <1>1, <1>c DEF Knows, InFlight, Holding
<1>5. ~Poked(l) /\ (\A d \in Call : ~CarriesFirst(d, l)) /\ \A d \in Call \ {c} : ~CarriesNext(d, l)
  <2>1. ~Unknown(l)
    BY <1>2, <1>c DEF Unknown
  <2>2. QED
    BY <1>2, <2>1 DEF CarrierInv
<1>6. \A d \in Call, m \in Link : /\ (CarriesFirst(d, m))' => CarriesFirst(d, m) /\ m # l
                                  /\ (CarriesNext(d, m))' => CarriesNext(d, m) /\ call'[d] = call[d] /\ m # l
  BY <1>1, <1>5 DEF CarriesFirst, CarriesNext, InFlight
<1>7. \A m \in Link : /\ (Stored(m))' <=> m = l
                      /\ (Poked(m))' <=> Poked(m)
                      /\ m # l /\ Unknown(m) => (Unknown(m))'
  BY <1>4 DEF Stored, Poked, Unknown
<1>8. CarrierInv'
  BY <1>4, <1>5, <1>6, <1>7 DEF CarrierInv
<1>9. VersionInv'
  <2>1. \A d \in Call, v \in Ver : (Knows(d, l, v))' => v <= n + 1
    BY <1>3, <1>4, <1>c, <1>v
  <2>2. ASSUME NEW m \in Link, m # l
        PROVE  ~(Stored(m))' /\ \A d \in Call, v \in Ver : (Knows(d, m, v))' => v <= provider[m]
    BY <2>2, <1>4, <1>7 DEF VersionInv
  <2>3. token'.ver = provider'[l] /\ provider'[l] = n + 1
    BY <1>3
  <2>4. n + 1 <= n + 1
    BY <1>c, <1>v
  <2>5. QED
    BY <2>1, <2>2, <2>3, <2>4 DEF VersionInv
(* Nobody names the version that is stored now, except the call itself.    *)
<1>10. /\ \A d \in Call \ {c} : call[d].pc \in Refreshing \cup Holding => <<l, n + 1>> # <<call[d].link, call[d].ver>>
       /\ \A d \in Call : <<l, n + 1>> # call[d].rejected
  <2>1. \A d \in Call : ~Knows(d, l, n + 1)
    BY <1>3, <1>c, <1>v
  <2>2. l # 0
    BY DEF Link
  <2>3. QED
    BY <2>1, <2>2 DEF Knows, InFlight
<1>11. GenerationInv'
  BY <1>1, <1>10 DEF GenerationInv, InFlight, Refreshing, Holding
<1>12. StoredTokenIsCurrent'
  BY <1>3 DEF StoredTokenIsCurrent
<1>13. RejectedTokenNotReused'
  BY <1>1, <1>10 DEF RejectedTokenNotReused
<1>14. QED
  BY <1>8, <1>9, <1>11, <1>12, <1>13

(* Every step keeps what is known of stored and rejected tokens. *)
LEMMA StepKeepsBinding ==
  ASSUME Ground, Ground', BindingInv, Next
  PROVE  BindingInv'
<1> USE DEF Fine, Kept, history, rows
<1>calls. call \in [Call -> CallRecord]
  BY DEF Ground
<1>none. /\ NoCall.pc = "idle" /\ NoCall.rejected = None /\ NoPoke.gen = 0 /\ NoToken.gen = 0
  BY DEF NoCall, None, NoPoke, NoToken
(* A call that leaves, or gives its claim back, with nothing else changed. *)
<1>ends. ASSUME NEW c \in Call, UNCHANGED provider, lost \subseteq lost', UNCHANGED token,
                poke'.gen # 0 => poke.gen # 0 /\ poke'.link = poke.link,
                Leave(c) \/ (To(c, "release") /\ call[c].pc \in Exchanging),
                call[c].pc = "cas" => call[c].link \in lost'
         PROVE  BindingInv'
  <2>1. /\ call'[c] = NoCall \/ (call'[c].pc = "release" /\ call'[c].rejected = None)
        /\ \A d \in Call \ {c} : call'[d] = call[d]
    BY <1>ends, <1>calls, CallUpdates DEF Ground, Memory
  <2>2. QED
    BY <1>ends, <2>1, CalmStep
<1>url. ASSUME NEW ctx \in Context \cup {Private}, AuthorizationUrl(ctx) PROVE BindingInv'
  BY <1>url, <1>none, CalmStep DEF AuthorizationUrl
<1>claim. ASSUME NEW c \in Call, NEW kind \in {"bind", "prepare"}, NEW code \in Link, NEW ctx \in Context \cup {Private},
                 Claim(c, kind, code, ctx)
          PROVE  BindingInv'
  <2>1. CASE auth.live
    <3> DEFINE x == [NoCall EXCEPT !.pc = "exchange", !.kind = kind, !.gen = auth.gen, !.link = auth.link,
                                   !.code = code, !.ctx = ctx]
    <3>1. call' = [call EXCEPT ![c] = x] /\ call[c].pc = "idle" /\ UNCHANGED <<poke, token, provider, lost>>
      BY <1>claim, <2>1 DEF Claim
    <3>2. x.pc = "exchange" /\ x.rejected = None
      BY DEF NoCall, None
    <3> HIDE DEF x
    <3>3. call'[c] = x /\ \A d \in Call \ {c} : call'[d] = call[d]
      BY <1>calls, <3>1
    <3>4. QED
      BY <3>1, <3>2, <3>3, CalmStep
  <2>2. CASE ~auth.live
    BY <1>claim, <2>2, CalmStep DEF Claim
  <2>3. QED
    BY <2>1, <2>2
<1>exchange. ASSUME NEW c \in Call, Exchange(c) PROVE BindingInv'
  <2>1. CASE UNCHANGED provider
    <3>1. call[c].pc \in Exchanging /\ call[c].pc # "cas" /\ UNCHANGED <<token, poke, lost>>
      BY <1>exchange DEF Exchange, Exchanging
    <3>2. CASE To(c, "release") \/ Leave(c)
      BY <1>ends, <2>1, <3>1, <3>2
    <3>3. CASE ~(To(c, "release") \/ Leave(c))
      <4>1. provider' = [provider EXCEPT ![call[c].code] = 1] /\ provider[call[c].code] = 0 /\ call[c].code \in Link
        BY <1>exchange, <3>1, <3>3 DEF Exchange, Ground, Memory
      <4>2. provider'[call[c].code] = 1
        BY <4>1 DEF Ground
      <4>3. QED
        BY <2>1, <4>1, <4>2
    <3>4. QED
      BY <3>2, <3>3
  <2>2. CASE provider' # provider
    <3>1. provider' = [provider EXCEPT ![call[c].code] = 1] /\ provider[call[c].code] = 0 /\ call[c].code = call[c].link
          /\ call[c].code \in Link
      BY <1>exchange, <2>2 DEF Exchange, Ground, Memory, Exchanging
    <3>2. QED
      BY <1>exchange, <3>1, CodeTaken
  <2>3. QED
    BY <2>1, <2>2
<1>release. ASSUME NEW c \in Call, Release(c) PROVE BindingInv'
  BY <1>release, <1>ends DEF Release
<1>commit. ASSUME NEW c \in Call, Commit(c) PROVE BindingInv'
  <2>1. CASE ~\E fresh \in BOOLEAN : token' = Upserted(call[c].link, 1, fresh)
    BY <1>commit, <1>ends, <2>1 DEF Commit, Exchanging
  <2>2. ASSUME NEW fresh \in BOOLEAN, token' = Upserted(call[c].link, 1, fresh), Leave(c), poke' = NoPoke
        PROVE  BindingInv'
    <3>1. PICK l \in Link : call[c].link = l
      BY <1>commit DEF Commit, Ground, Rows, Memory, Exchanging, Link
    <3>2. CarriesFirst(c, l)
      BY <1>commit, <3>1 DEF Commit, CarriesFirst, InFlight
    <3>3. Unknown(l) /\ \A d \in Call \ {c} : ~CarriesFirst(d, l)
      BY <3>2 DEF BindingInv, CarrierInv
    <3>4. call'[c] = NoCall /\ \A d \in Call \ {c} : call'[d] = call[d]
      BY <1>calls, <2>2, CallUpdates
    <3>5. \A d \in Call : ~(CarriesFirst(d, l))'
      BY <1>none, <3>3, <3>4 DEF CarriesFirst, InFlight
    <3>6. token'.gen # 0 /\ token'.link = l /\ token'.ver = 1
      BY <2>2, <3>1 DEF Upserted, Ground
    <3>7. call[c].pc = "commit" /\ UNCHANGED <<provider, lost>>
      BY <1>commit DEF Commit
    <3>8. QED
      BY <2>2, <3>3, <3>4, <3>5, <3>6, <3>7, FirstIsCurrent
  <2>3. CASE UNCHANGED rows /\ (Leave(c) \/ To(c, "release"))
    BY <1>commit, <1>ends, <2>3 DEF Commit, Exchanging
  <2>4. QED
    BY <1>commit, <2>2, <2>3 DEF Commit
<1>save. ASSUME NEW c \in Call, SavePoke(c) PROVE BindingInv'
  <2>1. CASE To(c, "release") /\ UNCHANGED poke
    BY <1>save, <1>ends, <2>1 DEF SavePoke, Exchanging
  <2>2. CASE poke' = [gen |-> call[c].gen, link |-> call[c].link, ctx |-> call[c].ctx, live |-> TRUE] /\ Leave(c)
    <3>1. poke'.gen = call[c].gen /\ poke'.link = call[c].link /\ call[c].pc = "save" /\ UNCHANGED <<token, provider, lost>>
      BY <1>save, <2>2 DEF SavePoke
    <3>2. call[c].gen # 0
      BY <3>1 DEF Ground, Memory, Exchanging
    <3>3. QED
      BY <2>2, <3>1, <3>2, PokeSaved
  <2>3. QED
    BY <1>save, <2>1, <2>2 DEF SavePoke
<1>drop. CASE DropExpiredPoke
  BY <1>drop, <1>none, CalmStep DEF DropExpiredPoke, Tokens
<1>confirm. ASSUME NEW ctx \in Context, Confirm(ctx) PROVE BindingInv'
  <2>1. poke' = NoPoke /\ UNCHANGED <<provider, call, lost>> /\ poke.gen # 0
    BY <1>confirm DEF Confirm, Tokens
  <2>2. CASE UNCHANGED token
    BY <1>none, <2>1, <2>2, CalmStep
  <2>3. ASSUME NEW fresh \in BOOLEAN, token' = Upserted(poke.link, 1, fresh) PROVE BindingInv'
    <3>1. PICK l \in Link : poke.link = l
      BY <2>1 DEF Ground, Rows
    <3>2. Unknown(l) /\ \A d \in Call : ~CarriesFirst(d, l)
      BY <2>1, <3>1 DEF BindingInv, CarrierInv, Poked
    <3>3. \A d \in Call : ~(CarriesFirst(d, l))'
      BY <2>1, <3>2 DEF CarriesFirst, InFlight
    <3>4. token'.gen # 0 /\ token'.link = l /\ token'.ver = 1
      BY <2>3, <3>1 DEF Upserted, Ground
    <3>5. QED
      BY <2>1, <3>2, <3>3, <3>4, FirstIsCurrent
  <2>4. QED
    BY <1>confirm, <2>2, <2>3 DEF Confirm
<1>unbind. CASE Unbind
  BY <1>unbind, <1>none, CalmStep DEF Unbind, Tokens
<1>use. ASSUME NEW c \in Call, UseGrant(c) PROVE BindingInv'
  <2>1. CASE Leave(c)
    BY <1>use, <1>ends, <2>1 DEF UseGrant, Reading
  <2>2. CASE call' = [call EXCEPT ![c].pc = "retry", ![c].rejected = <<call[c].link, call[c].ver>>]
    <3>1. /\ call'[c].pc = "retry" /\ call'[c].gen = call[c].gen /\ call'[c].link = call[c].link
          /\ call'[c].ver = call[c].ver /\ call'[c].rejected = <<call[c].link, call[c].ver>>
          /\ \A d \in Call \ {c} : call'[d] = call[d]
      <4>1. call' = [call EXCEPT ![c] = [call[c] EXCEPT !.pc = "retry", !.rejected = <<call[c].link, call[c].ver>>]]
        BY <1>calls, <2>2
      <4>2. QED
        BY <1>calls, <4>1 DEF CallRecord
    <3>2. call[c].pc = "granted" /\ UNCHANGED <<rows, provider, lost>>
      BY <1>use DEF UseGrant, Reading
    <3>3. QED
      BY <3>1, <3>2, CallMoves
  <2>3. QED
    BY <1>use, <2>1, <2>2 DEF UseGrant
<1>access. ASSUME NEW c \in Call, AccessToken(c) \/ RetryAfterUnauthorized(c) \/ Reread(c) \/ Conflict(c)
           PROVE  BindingInv'
  <2>1. UNCHANGED <<rows, provider, lost>> /\ call[c].pc # "cas"
    BY <1>access DEF AccessToken, RetryAfterUnauthorized, Reread, Conflict, Reading
  <2>2. CASE Leave(c)
    BY <1>ends, <2>1, <2>2
  <2>3. CASE token.gen # 0 /\ Read(c, "refresh")
    BY <2>1, <2>3, ReadIsAccepted
  <2>4. CASE token.gen # 0 /\ Read(c, "granted")
    <3>1. <<token.link, token.ver>> # call[c].rejected
      <4>1. Memory(c) /\ token.link \in Link /\ (token.gen # 0 => token.link # 0)
        BY <2>4 DEF Ground, Rows, Link
      <4>2. CASE AccessToken(c)
        BY <2>4, <4>1, <4>2, <1>none DEF AccessToken, Memory, None
      <4>3. CASE RetryAfterUnauthorized(c) /\ token.gen # call[c].gen
        BY <2>4, <4>1, <4>3 DEF RetryAfterUnauthorized, Memory, BindingInv, GenerationInv, InFlight, Holding
      <4>4. CASE Reread(c) /\ token.gen # call[c].gen
        BY <2>4, <4>4 DEF Reread, BindingInv, GenerationInv, InFlight, Refreshing
      <4>8. CASE Reread(c) /\ token.gen = call[c].gen
        <5>1. call'[c].pc = "idle" /\ call'[c].pc = "granted"
          BY <1>calls, <2>4, <4>8, CallUpdates DEF Reread, Read, Leave, NoCall
        <5>2. QED
          BY <5>1
      <4>5. CASE Conflict(c)
        BY <2>4, <4>5 DEF Conflict, BindingInv, GenerationInv, InFlight
      <4>6. CASE RetryAfterUnauthorized(c) /\ token.gen = call[c].gen
        <5>1. call'[c].pc = "refresh" /\ call'[c].pc = "granted"
          BY <1>calls, <2>4, <4>6, CallUpdates DEF RetryAfterUnauthorized, Read
        <5>2. QED
          BY <5>1
      <4>7. QED
        BY <1>access, <4>2, <4>3, <4>4, <4>5, <4>6, <4>8
    <3>2. QED
      BY <2>1, <2>4, <3>1, ReadIsAccepted
  <2>5. QED
    BY <1>access, <2>2, <2>3, <2>4 DEF AccessToken, RetryAfterUnauthorized, Reread, Conflict
<1>refresh. ASSUME NEW c \in Call, RefreshToken(c) PROVE BindingInv'
  <2>1. call[c].pc = "refresh" /\ UNCHANGED rows /\ call[c].link \in Link
    BY <1>refresh DEF RefreshToken, Ground, Memory, Refreshing
  <2>2. CASE To(c, "reread") /\ UNCHANGED <<provider, lost>>
    <3>1. /\ call'[c].pc = "reread" /\ call'[c].gen = call[c].gen /\ call'[c].link = call[c].link
          /\ call'[c].ver = call[c].ver /\ call'[c].rejected = call[c].rejected
          /\ \A d \in Call \ {c} : call'[d] = call[d]
      BY <1>calls, <2>2, CallUpdates
    <3>2. QED
      BY <2>1, <2>2, <3>1, CallMoves
  <2>3. CASE Leave(c) /\ UNCHANGED <<provider, lost>>
    BY <1>ends, <2>1, <2>3
  <2>4. CASE /\ call[c].ver = provider[call[c].link]
             /\ provider' = [provider EXCEPT ![call[c].link] = @ + 1]
             /\ \/ To(c, "cas") /\ lost' = lost
                \/ Leave(c) /\ lost' = lost \cup {call[c].link}
    BY <2>1, <2>4, Rotated
  <2>5. QED
    BY <1>refresh, <2>2, <2>3, <2>4 DEF RefreshToken
<1>cas. ASSUME NEW c \in Call, CompareAndSwap(c) PROVE BindingInv'
  <2>1. call[c].pc = "cas" /\ UNCHANGED <<auth, poke, provider>> /\ call[c].link \in Link
    BY <1>cas DEF CompareAndSwap, Ground, Memory, Refreshing
  <2>2. ASSUME NEW fresh \in BOOLEAN, token' = Upserted(call[c].link, call[c].ver + 1, fresh), Grant(c, "granted", token'),
               UNCHANGED lost
        PROVE  BindingInv'
    <3>1. token'.gen # 0 /\ token'.link = call[c].link /\ token'.ver = call[c].ver + 1
      BY <2>2 DEF Upserted, Ground
    <3>2. QED
      BY <2>1, <2>2, <3>1, NextIsCurrent
  <2>3. CASE token.gen # call[c].gen /\ To(c, "conflict") /\ UNCHANGED <<token, lost>>
    <3>1. /\ call'[c].pc = "conflict" /\ call'[c].gen = call[c].gen /\ call'[c].link = call[c].link
          /\ call'[c].ver = call[c].ver /\ call'[c].rejected = call[c].rejected
          /\ \A d \in Call \ {c} : call'[d] = call[d]
      BY <1>calls, <2>3, CallUpdates
    <3>2. QED
      BY <2>1, <2>3, <3>1, CallMoves
  <2>4. CASE Leave(c) /\ lost' = lost \cup {call[c].link} /\ UNCHANGED token
    BY <1>ends, <2>1, <2>4
  <2>5. QED
    BY <1>cas, <2>2, <2>3, <2>4 DEF CompareAndSwap
<1>age. CASE Age
  <2>1. /\ token'.gen = token.gen /\ token'.link = token.link /\ token'.ver = token.ver
        /\ poke'.gen = poke.gen /\ poke'.link = poke.link
    BY <1>age DEF Age, Ground
  <2>2. QED
    BY <1>age, <2>1, CalmStep DEF Age
<1>crash. CASE Crash
  <2>1. \A d \in Call : call'[d] = NoCall
    BY <1>crash DEF Crash
  <2>2. \A d \in Call : call[d].pc = "cas" => call[d].link \in lost'
    BY <1>crash DEF Crash
  <2>3. UNCHANGED <<poke, token, provider>> /\ lost \subseteq lost'
    BY <1>crash DEF Crash
  <2>4. QED
    BY <2>1, <2>2, <2>3, CalmStep
<1>quiet. CASE Quiet
  BY <1>quiet, CalmStep DEF Quiet, vars
<1>q. QED
  BY <1>url, <1>claim, <1>exchange, <1>release, <1>commit, <1>save, <1>drop, <1>confirm, <1>unbind, <1>use,
     <1>access, <1>refresh, <1>cas, <1>age, <1>crash, <1>quiet DEF Next, Binding, Access

(* The invariant of the versions. *)
THEOREM BindingInvariant == Spec => []BindingInv
<1>1. Init => BindingInv
  <2>1. Init => /\ token.gen = 0 /\ poke.gen = 0 /\ \A c \in Call : call[c].pc = "idle" /\ call[c].rejected = None
    BY DEF Init, NoToken, NoPoke, NoCall, None
  <2>2. \A l \in Link, v \in Ver : <<l, v>> # None
    BY DEF None, Link
  <2>3. QED
    BY <2>1, <2>2 DEF BindingInv, CarrierInv, VersionInv, GenerationInv, StoredTokenIsCurrent, RejectedTokenNotReused,
       Stored, Poked, CarriesFirst, CarriesNext, Knows, InFlight, Refreshing, Holding
<1>2. Ground /\ Ground' /\ BindingInv /\ [Next]_vars => BindingInv'
  <2>1. Ground /\ Ground' /\ BindingInv /\ Next => BindingInv'
    BY StepKeepsBinding
  <2>2. Ground /\ Ground' /\ BindingInv /\ UNCHANGED vars => BindingInv'
    BY CalmStep DEF vars, rows
  <2>3. QED
    BY <2>1, <2>2
<1>3. QED
  BY <1>1, <1>2, GroundHolds, PTL DEF Spec

(* Refreshes that race, a rebind, a retry after 401 and a crash never      *)
(* leave a dead refresh token in the database, unless a reply was lost.    *)
THEOREM StoredTokenIsCurrentHolds == Spec => []StoredTokenIsCurrent
  BY BindingInvariant, PTL DEF BindingInv

(* A retry after 401 never presents the rejected access token again, even  *)
(* when the row was deleted and its generations started over meanwhile.    *)
THEOREM RejectedTokenNotReusedHolds == Spec => []RejectedTokenNotReused
  BY BindingInvariant, PTL DEF BindingInv

=============================================================================
