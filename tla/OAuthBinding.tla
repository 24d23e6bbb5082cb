----------------------------- MODULE OAuthBinding -----------------------------
(***************************************************************************)
(* The LXNS OAuth binding of one subject: the authorization, the pending   *)
(* confirmation and the token row of the state database, the tool calls    *)
(* that work on them while they wait for the provider, and the provider,   *)
(* which rotates the refresh token.                                        *)
(*                                                                         *)
(* Every row has a generation, which starts at 1 whenever the row is       *)
(* inserted; calls name a row by it across their awaits.  A statement or   *)
(* a transaction is one step, a provider request is another.               *)
(***************************************************************************)
EXTENDS Naturals

CONSTANTS
  Call,        \* concurrent tool calls
  Context,     \* chat contexts a confirmation may be tied to
  Private,     \* no context
  MaxLinks,    \* bound: authorization links handed out
  MaxRefresh,  \* bound: rotations of a refresh token
  MaxFaults,   \* bound: failing statements, lost or unusable replies
  MaxCrashes   \* bound: kills

ASSUME PrivateAssumption == Private \notin Context
ASSUME MaxLinksAssumption == MaxLinks \in Nat
ASSUME MaxRefreshAssumption == MaxRefresh \in Nat

VARIABLES
  auth,       \* lxns_oauth_authorizations
  poke,       \* lxns_oauth_pending_pokes
  token,      \* lxns_oauth_tokens
  provider,   \* per link: the current refresh token, 0 before its code is used
  call,       \* the calls in flight
  restarted,  \* a row was deleted under a call that names it (history)
  unbound,    \* the links up to this one were unbound (history)
  lost,       \* links whose newest refresh token never arrived (history)
  count       \* what the bounds count

rows == <<auth, poke, token>>
history == <<restarted, unbound>>
vars == <<rows, provider, call, history, lost, count>>

-----------------------------------------------------------------------------
(* Values.  A link stands for an authorization request with its state and  *)
(* PKCE verifier, for its code and for the tokens that descend from it.    *)

Link == 1..MaxLinks
Ver  == 1..MaxRefresh + 1

(* An absent row has generation 0. *)
NoAuth  == [gen |-> 0, link |-> 0, ctx |-> Private, status |-> "pending", live |-> FALSE]
NoPoke  == [gen |-> 0, link |-> 0, ctx |-> Private, live |-> FALSE]
NoToken == [gen |-> 0, link |-> 0, ver |-> 0, fresh |-> FALSE]
NoCall  == [pc |-> "idle", kind |-> "bind", gen |-> 0, link |-> 0, code |-> 0,
            ctx |-> Private, ver |-> 0, rejected |-> <<0, 0>>]

Exchanging == {"exchange", "release", "commit", "save"}   \* names auth.gen
Refreshing == {"refresh", "reread", "cas", "conflict"}     \* names token.gen
Holding    == {"granted", "retry"}                        \* keeps a grant

InFlight(c, phase) == call[c].pc \in phase

(* Every variable holds a value of its kind, and a grant is a stored token. *)
TypeOK ==
  /\ auth \in [gen : 0..MaxLinks, link : {0} \cup Link, ctx : Context \cup {Private},
               status : {"pending", "exchanging"}, live : BOOLEAN]
  /\ poke \in [gen : 0..MaxLinks, link : {0} \cup Link, ctx : Context \cup {Private},
               live : BOOLEAN]
  /\ token \in [gen : Nat, link : {0} \cup Link, ver : {0} \cup Ver, fresh : BOOLEAN]
  /\ provider \in [Link -> {0} \cup Ver]
  /\ call \in [Call -> [pc : {"idle"} \cup Exchanging \cup Refreshing \cup Holding,
                        kind : {"bind", "prepare"}, gen : Nat, link : {0} \cup Link,
                        code : {0} \cup Link, ctx : Context \cup {Private},
                        ver : {0} \cup Ver, rejected : ({0} \cup Link) \X ({0} \cup Ver)]]
  /\ \A c \in Call : InFlight(c, Refreshing \cup Holding) => call[c].gen > 0 /\ call[c].ver > 0
  /\ restarted \in BOOLEAN /\ unbound \in {0} \cup Link
  /\ lost \subseteq Link
  /\ count \in [{"links", "rotations", "faults", "crashes"} -> Nat]

Init ==
  /\ auth = NoAuth /\ poke = NoPoke /\ token = NoToken
  /\ provider = [l \in Link |-> 0]
  /\ call = [c \in Call |-> NoCall]
  /\ restarted = FALSE /\ unbound = 0 /\ lost = {}
  /\ count = [what \in {"links", "rotations", "faults", "crashes"} |-> 0]

Spend(what) == count' = [count EXCEPT ![what] = @ + 1]
Fault == count.faults < MaxFaults /\ Spend("faults")
Fine  == UNCHANGED count

(* A row is deleted under calls that name one by generation.               *)
Deleted(others, phase) ==
  /\ restarted' = (restarted \/ \E d \in others : InFlight(d, phase))
  /\ UNCHANGED unbound
Kept == UNCHANGED history

To(c, pc)  == call' = [call EXCEPT ![c].pc = pc]
Leave(c)   == call' = [call EXCEPT ![c] = NoCall]

-----------------------------------------------------------------------------
(* Mutant: a replaced row keeps its generation. *)
AuthorizationUrlSameGeneration(ctx) ==
  /\ count.links < MaxLinks /\ Spend("links")
  /\ auth' = [gen |-> IF auth.gen = 0 THEN 1 ELSE auth.gen, link |-> count.links + 1,
              ctx |-> ctx, status |-> "pending", live |-> TRUE]
  /\ poke' = NoPoke
  /\ Kept /\ UNCHANGED <<token, provider, call, lost>>

(* authorization_url: the row is inserted, or replaced under the next      *)
(* generation, and a pending confirmation is dropped.                      *)
AuthorizationUrl(ctx) ==
  /\ count.links < MaxLinks /\ Spend("links")
  /\ auth' = [gen |-> auth.gen + 1, link |-> count.links + 1, ctx |-> ctx,
              status |-> "pending", live |-> TRUE]
  /\ poke' = NoPoke
  /\ Kept /\ UNCHANGED <<token, provider, call, lost>>

-----------------------------------------------------------------------------
(* bind_code and prepare_poke.                                             *)

(* claim_oauth_authorization with a code of any link: a wrong state or     *)
(* context is refused, an expired row deleted, a claimed one is busy.      *)
Claim(c, kind, code, ctx) ==
  /\ call[c].pc = "idle"
  /\ auth.gen # 0 /\ auth.ctx = ctx /\ code \in 1..count.links
  /\ kind = "prepare" => ctx \in Context
  /\ IF auth.live
     THEN /\ auth.status = "pending"
          /\ auth' = [auth EXCEPT !.status = "exchanging"]
          /\ call' = [call EXCEPT ![c] = [NoCall EXCEPT !.pc = "exchange", !.kind = kind,
                        !.gen = auth.gen, !.link = auth.link, !.code = code, !.ctx = ctx]]
          /\ Kept
     ELSE auth' = NoAuth /\ Deleted(Call \ {c}, Exchanging) /\ UNCHANGED call
  /\ Fine /\ UNCHANGED <<poke, token, provider, lost>>

(* The provider takes a code once and with the verifier of its own link.   *)
(* An exchange may be refused or time out, also after the provider has     *)
(* taken the code; tokens whose expiry does not fit end the call at once,  *)
(* without releasing the claim.                                            *)
Exchange(c) ==
  LET k == call[c]  good == k.code = k.link /\ provider[k.code] = 0
      taken == provider' = [provider EXCEPT ![k.code] = 1] IN
  /\ k.pc = "exchange"
  /\ \/ good /\ taken /\ Fine /\ To(c, IF k.kind = "bind" THEN "commit" ELSE "save")
     \/ good /\ taken /\ Fault /\ (To(c, "release") \/ Leave(c))
     \/ Fine /\ To(c, "release") /\ UNCHANGED provider
  /\ Kept /\ UNCHANGED <<rows, lost>>

OwnClaim(c) == auth.gen = call[c].gen /\ auth.status = "exchanging"

(* release_oauth_authorization_claim.                                      *)
Release(c) ==
  /\ call[c].pc = "release"
  /\ \/ /\ Fine
        /\ auth' = IF OwnClaim(c) THEN [auth EXCEPT !.status = "pending"] ELSE auth
     \/ Fault /\ UNCHANGED auth
  /\ Leave(c) /\ Kept /\ UNCHANGED <<poke, token, provider, lost>>

(* upsert_token: a first row has generation 1.                             *)
Upserted(link, ver, fresh) == [gen |-> token.gen + 1, link |-> link, ver |-> ver, fresh |-> fresh]

(* commit_oauth_authorization: the claimed row is consumed, or the call    *)
(* ends with AuthorizationLost.                                            *)
Commit(c) ==
  /\ call[c].pc = "commit"
  /\ \/ /\ Fine /\ OwnClaim(c)
        /\ auth' = NoAuth /\ poke' = NoPoke
        /\ \E fresh \in BOOLEAN : token' = Upserted(call[c].link, 1, fresh)
        /\ Leave(c) /\ Deleted(Call \ {c}, Exchanging)
     \/ /\ Fine /\ ~OwnClaim(c)
        /\ Leave(c) /\ Kept /\ UNCHANGED rows
     \/ /\ Fault
        /\ To(c, "release") /\ Kept /\ UNCHANGED rows
  /\ UNCHANGED <<provider, lost>>

(* save_oauth_pending_poke replaces what is there.                         *)
SavePoke(c) ==
  /\ call[c].pc = "save"
  /\ \/ /\ Fine
        /\ poke' = [gen |-> call[c].gen, link |-> call[c].link, ctx |-> call[c].ctx, live |-> TRUE]
        /\ Leave(c)
     \/ /\ Fault
        /\ To(c, "release") /\ UNCHANGED poke
  /\ Kept /\ UNCHANGED <<auth, token, provider, lost>>

-----------------------------------------------------------------------------
(* confirm_poke, status and unbind: one transaction each.                  *)

Tokens == UNCHANGED <<provider, call, lost>>

(* An expired confirmation goes with the authorization of its generation;  *)
(* status and confirm both do it.                                          *)
DropExpiredPoke ==
  /\ poke.gen # 0 /\ ~poke.live /\ Fine
  /\ poke' = NoPoke
  /\ IF auth.gen = poke.gen THEN auth' = NoAuth /\ Deleted(Call, Exchanging)
                            ELSE Kept /\ UNCHANGED auth
  /\ UNCHANGED token /\ Tokens

Confirm(ctx) ==
  /\ poke.gen # 0 /\ poke.ctx = ctx /\ poke.live /\ Fine
  /\ poke' = NoPoke
  /\ IF auth.gen = poke.gen /\ auth.status = "exchanging"
     THEN /\ auth' = NoAuth /\ Deleted(Call, Exchanging)
          /\ \E fresh \in BOOLEAN : token' = Upserted(poke.link, 1, fresh)
     ELSE Kept /\ UNCHANGED <<auth, token>>
  /\ Tokens

Unbind ==
  /\ auth.gen + poke.gen + token.gen > 0 /\ Fine
  /\ auth' = NoAuth /\ poke' = NoPoke /\ token' = NoToken
  /\ restarted' = (restarted \/ \E d \in Call : ~InFlight(d, {"idle"}))
  /\ unbound' = count.links
  /\ Tokens

-----------------------------------------------------------------------------
(* access_token and retry_after_unauthorized.                              *)

Grant(c, pc, row) == call' = [call EXCEPT ![c].pc = pc, ![c].gen = row.gen,
                                          ![c].link = row.link, ![c].ver = row.ver]
Read(c, pc) == Grant(c, pc, token)
Reading == Kept /\ Fine /\ UNCHANGED <<rows, provider, lost>>

(* A fresh token is granted as it is, another one refreshed first.         *)
AccessToken(c) ==
  /\ call[c].pc = "idle" /\ token.gen # 0
  /\ Read(c, IF token.fresh THEN "granted" ELSE "refresh")
  /\ Reading

(* The score request succeeds, or is unauthorized, which is retried once.  *)
UseGrant(c) ==
  /\ call[c].pc = "granted"
  /\ \/ Leave(c)
     \/ /\ call[c].rejected = NoCall.rejected
        /\ call' = [call EXCEPT ![c].pc = "retry", ![c].rejected = <<call[c].link, call[c].ver>>]
  /\ Reading

(* Mutant: what is stored is granted again. *)
RetryStored(c) ==
  /\ call[c].pc = "retry"
  /\ IF token.gen = 0 THEN Leave(c) ELSE Read(c, "granted")
  /\ Reading

(* A token stored since is granted, the rejected one refreshed.            *)
RetryAfterUnauthorized(c) ==
  /\ call[c].pc = "retry"
  /\ IF token.gen = 0 THEN Leave(c)
     ELSE Read(c, IF token.gen # call[c].gen THEN "granted" ELSE "refresh")
  /\ Reading

(* The provider rotates the refresh token it knows and refuses any other;  *)
(* it may fail, and its reply may get lost or not be usable.               *)
RefreshToken(c) ==
  LET k == call[c]  known == k.ver = provider[k.link] /\ count.rotations < MaxRefresh
      rotate == provider' = [provider EXCEPT ![k.link] = @ + 1] IN
  /\ k.pc = "refresh"
  /\ \/ known /\ rotate /\ Spend("rotations") /\ To(c, "cas") /\ UNCHANGED lost
     \/ /\ known /\ rotate /\ count.faults < MaxFaults
        /\ count' = [count EXCEPT !.faults = @ + 1, !.rotations = @ + 1]
        /\ Leave(c) /\ lost' = lost \cup {k.link}
     \/ k.ver # provider[k.link] /\ Fine /\ To(c, "reread") /\ UNCHANGED <<provider, lost>>
     \/ Fine /\ Leave(c) /\ UNCHANGED <<provider, lost>>
  /\ Kept /\ UNCHANGED rows

(* After invalid_grant: somebody else may have stored the next token.      *)
Reread(c) ==
  /\ call[c].pc = "reread"
  /\ IF token.gen \in {0, call[c].gen} THEN Leave(c) ELSE Read(c, "granted")
  /\ Reading

(* Mutant: the refresh token that was just used is kept. *)
CompareAndSwapKeepsRefresh(c) ==
  /\ call[c].pc = "cas" /\ token.gen = call[c].gen /\ Fine
  /\ token' = [token EXCEPT !.gen = @ + 1, !.fresh = TRUE]
  /\ Grant(c, "granted", token')
  /\ Kept /\ UNCHANGED <<auth, poke, provider, lost>>

(* compare_and_swap_oauth_token: when the generation has moved on, what is *)
(* stored then is read by a second statement.                              *)
CompareAndSwap(c) ==
  LET k == call[c] IN
  /\ k.pc = "cas"
  /\ \/ /\ Fine /\ token.gen = k.gen
        /\ \E fresh \in BOOLEAN : token' = Upserted(k.link, k.ver + 1, fresh)
        /\ Grant(c, "granted", token')
        /\ UNCHANGED lost
     \/ /\ Fine /\ token.gen # k.gen
        /\ To(c, "conflict") /\ UNCHANGED <<token, lost>>
     \/ /\ Fault
        /\ Leave(c) /\ lost' = lost \cup {k.link}
        /\ UNCHANGED token
  /\ Kept /\ UNCHANGED <<auth, poke, provider>>

(* A conflict grants what is stored, a missing row nothing.                *)
Conflict(c) ==
  /\ call[c].pc = "conflict"
  /\ IF token.gen = 0 THEN Leave(c) ELSE Read(c, "granted")
  /\ Reading

-----------------------------------------------------------------------------
(* Time and crashes.                                                       *)

Age ==
  /\ \/ auth.live /\ auth' = [auth EXCEPT !.live = FALSE] /\ UNCHANGED <<poke, token>>
     \/ poke.live /\ poke' = [poke EXCEPT !.live = FALSE] /\ UNCHANGED <<auth, token>>
     \/ token.fresh /\ token' = [token EXCEPT !.fresh = FALSE] /\ UNCHANGED <<auth, poke>>
  /\ Kept /\ Fine /\ UNCHANGED <<provider, call, lost>>

Crash ==
  /\ count.crashes < MaxCrashes /\ Spend("crashes")
  /\ call' = [c \in Call |-> NoCall]
  /\ lost' = lost \cup {call[c].link : c \in {d \in Call : call[d].pc = "cas"}}
  /\ Kept /\ UNCHANGED <<rows, provider>>

(* Every link is used up, nothing is stored and nobody is working.         *)
Quiet ==
  /\ count.links = MaxLinks /\ auth.gen + poke.gen + token.gen = 0
  /\ \A c \in Call : call[c].pc = "idle"
  /\ UNCHANGED vars

Binding(c) ==
  \/ \E kind \in {"bind", "prepare"}, code \in Link, ctx \in Context \cup {Private} :
       Claim(c, kind, code, ctx)
  \/ Exchange(c) \/ Release(c) \/ Commit(c) \/ SavePoke(c)
Access(c) == AccessToken(c) \/ UseGrant(c) \/ RetryAfterUnauthorized(c)
               \/ RefreshToken(c) \/ Reread(c) \/ CompareAndSwap(c) \/ Conflict(c)

Next ==
  \/ \E ctx \in Context \cup {Private} : AuthorizationUrl(ctx)
  \/ \E ctx \in Context : Confirm(ctx)
  \/ \E c \in Call : Binding(c) \/ Access(c)
  \/ DropExpiredPoke \/ Unbind \/ Age \/ Crash \/ Quiet
Spec == Init /\ [][Next]_vars

-----------------------------------------------------------------------------
(* Properties.                                                             *)

(* The generation a claim remembers across its exchange names that very    *)
(* authorization, and nobody else claims it or gives it back: as long as   *)
(* no row was deleted under a call, two generations are two links.         *)
ClaimIsExclusive ==
  ~restarted => \A c \in Call :
    InFlight(c, Exchanging) /\ auth.gen = call[c].gen =>
      /\ auth.link = call[c].link /\ auth.status = "exchanging"
      /\ \A d \in Call \ {c} : InFlight(d, Exchanging) => call[d].gen # auth.gen

(* The refresh token in the database is the one the provider accepts,      *)
(* unless a call that just rotated it is about to store the new one or its *)
(* reply was lost: refreshes that race, a rebind and a retry after 401     *)
(* never leave the subject with a dead binding.                            *)
StoredTokenIsCurrent ==
  token.gen # 0 /\ token.link \notin lost =>
    \/ token.ver = provider[token.link]
    \/ \E c \in Call : call[c].pc = "cas" /\ call[c].link = token.link

(* A retry after 401 never presents the rejected access token again.       *)
RejectedTokenNotReused ==
  \A c \in Call : call[c].pc = "granted" => call[c].rejected # <<call[c].link, call[c].ver>>

-----------------------------------------------------------------------------
(* What the repository says and the code does not do.                      *)

(* A refresh or an exchange that ends after unbind finds nothing to write  *)
(* to (AuthRequired "it was unbound", AuthorizationLost): no token of a link handed *)
(* out before unbind is stored after it.                                   *)
UnboundStaysUnbound ==
  token.gen # 0 => token.link > unbound
=============================================================================
