---------------------------- MODULE ServiceTools ----------------------------
(***************************************************************************)
(* The tools that keep something for the player (maimai-mcp oauth_tools,   *)
(* identity_tools and score_settings, with the services of maimai-app that *)
(* they call): binding an LXNS account, the developer token, the preferred *)
(* source of scores, and the QQ identities.                                *)
(*                                                                         *)
(* A session is a sequence of calls, each of which ends before the next    *)
(* begins.  The world they share is what the database keeps: a link that   *)
(* was handed out, a confirmation that is awaited, and a token are each a  *)
(* set of at most one record of a player.  Arguments are a record of those *)
(* that are given.                                                         *)
(***************************************************************************)
EXTENDS RankTools

Arg(a, field) == IF field \in DOMAIN a THEN {a[field]} ELSE {}
PlayerFields == {"qq", "subject"}
PlaceFields == {"adapterId", "adapter", "groupId", "conversation", "botQq", "bot"}
ServiceFields ==
  [maimai_lxns_oauth_url |-> PlayerFields \cup PlaceFields \cup {"state", "scopes", "ttlSeconds"},
   maimai_lxns_bind_code |-> PlayerFields \cup PlaceFields \cup {"state", "code"},
   maimai_lxns_prepare_poke |-> PlayerFields \cup PlaceFields \cup {"state", "code", "ttlSeconds"},
   maimai_lxns_confirm_poke |-> PlayerFields \cup PlaceFields \cup {"state"},
   maimai_lxns_status |-> PlayerFields, maimai_lxns_unbind |-> PlayerFields,
   bind_developer_token |-> {"developerToken"}, developer_token_status |-> {}, clear_developer_token |-> {},
   switch_score_source |-> {"qq", "source"}, switch_b50_source |-> {"qq", "source"},
   refresh_qq_identity_cache |-> {"forceRefresh", "napcatBaseUrl", "noCache", "timeoutMs", "groupDelayMs", "maxGroups"},
   qq_identity_cache_status |-> {}, qq_identity_job_status |-> {},
   resolve_qq_identity |-> {"query", "groupId", "maxResults"}, get_qq_identity |-> {"qq", "groupId"}]
Accepted(tool, a) == DOMAIN a \subseteq ServiceFields[tool]

-----------------------------------------------------------------------------
(* Who, where, and by which link.  Each may be told under two names.       *)

(* Mutant: the second name counts for nothing.                             *)
OnlyPrimary(primary, alias) == Argued(primary, <<>>)
Preferred(primary, alias) == LET said == {t \in primary : Trim(t) # <<>>}
                             IN Argued(IF said # {} THEN said ELSE alias, <<>>)
SubjectOf(a) == Trim(Preferred(Arg(a, "qq"), Arg(a, "subject")))
SubjectFits(a) == CleanText(SubjectOf(a))
ContextOf(a) == <<Trim(Preferred(Arg(a, "adapterId"), Arg(a, "adapter"))),
                  Trim(Preferred(Arg(a, "groupId"), Arg(a, "conversation"))),
                  Trim(Preferred(Arg(a, "botQq"), Arg(a, "bot")))>>
ContextSound(c) == \A i \in 1..3 : -1 \notin ToSet(c[i])
ContextWhole(c) == \A i \in 1..3 : CleanText(c[i])
OptionalContext(c) == IF \A i \in 1..3 : c[i] = <<>> THEN {} ELSE {c}

Opaque(text) == {-1, 0} \cap ToSet(text) = {}
TrustedStates(a) == {Trim(t) : t \in Arg(a, "state")} \ {<<>>}
StateFits(a) == \A s \in TrustedStates(a) :
  /\ Opaque(s)
  /\ Len(SubjectOf(a)) >= 5 => ~ContainsText(s, SubjectOf(a))
(* A code is pasted alone, or with the whole address of the callback; what *)
(* is neither does not fit.                                                *)
CodeGiven(a) == \E code \in Arg(a, "code") : ~code.blank
ParsedCode(code) ==
  LET named(n) == {i \in DOMAIN code.pairs : code.pairs[i][1] = n}
      said(n) == {Trim(code.pairs[i][2]) : i \in named(n)} \ {<<>>}
  IN IF ~code.fits \/ Len(code.pairs) > 8 \/ (\E n \in {"code", "state", "error"} : Cardinality(named(n)) > 1)
     THEN Unusable
     ELSE IF named("error") # {} THEN Fails("OAUTH_REJECTED")
     ELSE IF said("code") = {} \/ ~Opaque(Sole(said("code"))) THEN Unusable
     ELSE IF \E s \in said("state") : ~Opaque(s) THEN Fails("INVALID_STATE")
     ELSE [verdict |-> "code", states |-> said("state")]

-----------------------------------------------------------------------------
(* Binding an account.  A call leaves a world and shows an answer.         *)

Leaves(world, shown) == [world |-> world, shown |-> shown]
RowOf(rows, who) == {r \in rows : r.who = who}
Without(rows, who) == rows \ RowOf(rows, who)
NextRevision(rows, who) == Max({0} \cup {r.revision : r \in RowOf(rows, who)}) + 1
TokenKept(w, who) ==
  [w EXCEPT !.tokens = Without(w.tokens, who) \cup {[who |-> who, revision |-> NextRevision(w.tokens, who)]},
            !.links = Without(w.links, who), !.pokes = Without(w.pokes, who)]
Revision(w, who) == Max({0} \cup {r.revision : r \in RowOf(w.tokens, who)})

(* A link without a state of the caller's own gets one that no other has.  *)
DrawnState(call) == <<31, 100 + call.turn>>
AuthorizationUrlFor(w, call, client) ==
  LET a == call.args
      who == SubjectOf(a)
      ttl == Argued(Arg(a, "ttlSeconds"), 600)
      link == [who |-> who, revision |-> NextRevision(w.links, who), state |-> Argued(TrustedStates(a), DrawnState(call)),
               context |-> OptionalContext(ContextOf(a)), until |-> call.at + ttl, exchanging |-> FALSE]
  IN IF ~SubjectFits(a) THEN Leaves(w, Unusable)
     ELSE IF ~StateFits(a) THEN Leaves(w, Fails("INVALID_STATE"))
     ELSE IF ~ContextSound(ContextOf(a)) \/ ttl \notin 1..3600 THEN Leaves(w, Unusable)
     ELSE IF ~client THEN Leaves(w, Fails("CONFIG_MISSING"))
     ELSE IF Arg(a, "scopes") = {"unfit"} THEN Leaves(w, Unusable)
     ELSE Leaves([w EXCEPT !.links = Without(w.links, who) \cup {link}, !.pokes = Without(w.pokes, who)],
                          [verdict |-> "url", state |-> link.state, until |-> link.until])
(* A claim may find that the link has run out, which removes it.           *)
ClaimLink(w, who, states, context, now) ==
  LET rows == RowOf(w.links, who)
      link == Sole(rows)
  IN IF rows = {} \/ (\E l \in rows : states \ {l.state} # {}) THEN Leaves(w, Fails("INVALID_STATE"))
     ELSE IF link.context # context THEN Leaves(w, Fails("CONTEXT_MISMATCH"))
     ELSE IF link.until <= now THEN Leaves([w EXCEPT !.links = Without(w.links, who)], Fails("STATE_EXPIRED"))
     ELSE IF link.exchanging THEN Leaves(w, Fails("EXCHANGE_BUSY"))
     ELSE Leaves([w EXCEPT !.links = Without(w.links, who) \cup {[link EXCEPT !.exchanging = TRUE]}],
                          [verdict |-> "claimed", revision |-> link.revision])
(* "grant" is what LXNS makes of the code: "fits", "long" when the token   *)
(* would outlast every clock, or the code of an error.  An error gives the *)
(* claim back; a lifetime that overflows does not.                         *)
Exchanged(w, call, context) ==
  Using(call.args, LAMBDA a :
  Using(ParsedCode(Sole(Arg(a, "code"))), LAMBDA code :
  Using(ClaimLink(w, SubjectOf(a), TrustedStates(a) \cup code.states, context, call.at), LAMBDA claim :
    IF code.verdict = "failed" THEN Leaves(w, code)
    ELSE IF claim.shown.verdict = "failed" \/ call.grant = "fits" THEN claim
    ELSE IF call.grant = "long" THEN Leaves(claim.world, Fails("OAUTH_ERROR"))
    ELSE Leaves(w, Fails(call.grant)))))
CodeFault(call, contextFits) ==
  IF ~SubjectFits(call.args) THEN {Unusable}
  ELSE IF ~StateFits(call.args) THEN {Fails("INVALID_STATE")}
  ELSE IF ~CodeGiven(call.args) \/ ~contextFits THEN {Unusable}
  ELSE {}
BindCode(w, call, client) ==
  Using(call.args, LAMBDA a :
  Using(CodeFault(call, ContextSound(ContextOf(a))), LAMBDA fault :
  Using(Exchanged(w, call, OptionalContext(ContextOf(a))), LAMBDA exchange :
  Using(TokenKept(exchange.world, SubjectOf(a)), LAMBDA bound :
    IF fault # {} THEN Leaves(w, Sole(fault))
    ELSE IF ~client THEN Leaves(w, Fails("CONFIG_MISSING"))
    ELSE IF exchange.shown.verdict = "failed" THEN exchange
    ELSE Leaves(bound, [verdict |-> "bound", revision |-> Revision(bound, SubjectOf(a))])))))
PreparePoke(w, call, client) ==
  Using(call.args, LAMBDA a :
  Using(SubjectOf(a), LAMBDA who :
  Using(Argued(Arg(a, "ttlSeconds"), 300), LAMBDA ttl :
  Using(CodeFault(call, ContextWhole(ContextOf(a))), LAMBDA fault :
  Using(Exchanged(w, call, {ContextOf(a)}), LAMBDA exchange :
  Using([who |-> who, revision |-> exchange.shown.revision, context |-> ContextOf(a), until |-> call.at + ttl], LAMBDA poke :
    IF fault # {} THEN Leaves(w, Sole(fault))
    ELSE IF ttl \notin 1..1800 THEN Leaves(w, Unusable)
    ELSE IF ~client THEN Leaves(w, Fails("CONFIG_MISSING"))
    ELSE IF exchange.shown.verdict = "failed" THEN exchange
    ELSE Leaves([exchange.world EXCEPT !.pokes = Without(w.pokes, who) \cup {poke}],
                         [verdict |-> "pending", until |-> poke.until])))))))

(* A confirmation that has run out takes the link it came from with it.    *)
WithoutPoke(w, poke) == [w EXCEPT !.pokes = w.pokes \ {poke},
                                  !.links = {l \in w.links : l.who # poke.who \/ l.revision # poke.revision}]
Confirmation(status) == [verdict |-> "confirmation", status |-> status, revision |-> 0]
(* Whose state is not looked at again.                                     *)
ConfirmPoke(w, call) ==
  LET a == call.args
      who == SubjectOf(a)
      rows == RowOf(w.pokes, who)
      poke == Sole(rows)
      confirmed == TokenKept(w, who)
  IN IF ~SubjectFits(a) \/ ~ContextWhole(ContextOf(a)) THEN Leaves(w, Unusable)
     ELSE IF rows = {} THEN Leaves(w, Confirmation("not_found"))
     ELSE IF poke.context # ContextOf(a) THEN Leaves(w, Confirmation("context_mismatch"))
     ELSE IF poke.until <= call.at THEN Leaves(WithoutPoke(w, poke), Confirmation("expired"))
     ELSE IF ~\E l \in RowOf(w.links, who) : l.revision = poke.revision /\ l.exchanging THEN
            Leaves([w EXCEPT !.pokes = w.pokes \ {poke}], Confirmation("not_found"))
     ELSE Leaves(confirmed, [Confirmation("confirmed") EXCEPT !.revision = Revision(confirmed, who)])
BindingStatus(w, call) ==
  LET who == SubjectOf(call.args)
      expired == {p \in RowOf(w.pokes, who) : p.until <= call.at}
      left == IF expired = {} THEN w ELSE WithoutPoke(w, Sole(expired))
  IN IF ~SubjectFits(call.args) THEN Leaves(w, Unusable)
     ELSE Leaves(left, [verdict |-> "status", bound |-> RowOf(w.tokens, who) # {}, pending |-> RowOf(left.pokes, who) # {},
                        revision |-> Revision(w, who)])
UnbindPlayer(w, call) ==
  LET who == SubjectOf(call.args)
  IN IF ~SubjectFits(call.args) THEN Leaves(w, Unusable)
     ELSE Leaves([w EXCEPT !.links = Without(w.links, who), !.pokes = Without(w.pokes, who), !.tokens = Without(w.tokens, who)],
                 [verdict |-> "unbound", changed |-> RowOf(w.tokens, who) # {}])

-----------------------------------------------------------------------------
(* Settings.                                                               *)

SettingsSources == [sy |-> "diving_fish", divingfish |-> "diving_fish", waterfish |-> "diving_fish", local |-> "local",
                    cache |-> "local", lxns |-> "lxns", luoxue |-> "lxns"]
AllowedSources == {"diving_fish", "local"}
BindToken(w, call) ==
  LET token == Argued(Arg(call.args, "developerToken"), <<>>)
  IN IF ~CleanText(token) THEN Leaves(w, Unusable)
     ELSE Leaves([w EXCEPT !.developer = {[token |-> Trim(token), at |-> call.at]}],
                 [verdict |-> "token", bound |-> TRUE, at |-> call.at])
TokenStatus(w, call) ==
  Leaves(w, [verdict |-> "token", bound |-> w.developer # {}, at |-> Max({0} \cup {t.at : t \in w.developer})])
ClearToken(w, call) == Leaves([w EXCEPT !.developer = {}], [verdict |-> "cleared", cleared |-> w.developer # {}])
SwitchSource(w, call) ==
  LET qq == Trim(Argued(Arg(call.args, "qq"), <<>>))
      name == Argued(Arg(call.args, "source") \ {"blank"}, "sy")
  IN IF ~QqFits(qq) \/ name \notin DOMAIN SettingsSources THEN Leaves(w, Unusable)
     ELSE IF SettingsSources[name] \notin AllowedSources THEN Leaves(w, Fails("SOURCE_NOT_ALLOWED"))
     ELSE Leaves([w EXCEPT !.sources = Without(w.sources, qq) \cup {[who |-> qq, source |-> SettingsSources[name]]}],
                          [verdict |-> "source", source |-> SettingsSources[name]])

-----------------------------------------------------------------------------
(* A session from nothing.                                                 *)

NoWorld == [links |-> {}, pokes |-> {}, tokens |-> {}, developer |-> {}, sources |-> {}]
ServiceCall(w, call, client) ==
  IF ~Accepted(call.tool, call.args) THEN Leaves(w, Unusable)
    ELSE CASE call.tool = "maimai_lxns_oauth_url" -> AuthorizationUrlFor(w, call, client)
    [] call.tool = "maimai_lxns_bind_code" -> BindCode(w, call, client)
    [] call.tool = "maimai_lxns_prepare_poke" -> PreparePoke(w, call, client)
    [] call.tool = "maimai_lxns_confirm_poke" -> ConfirmPoke(w, call)
    [] call.tool = "maimai_lxns_status" -> BindingStatus(w, call)
    [] call.tool = "maimai_lxns_unbind" -> UnbindPlayer(w, call)
    [] call.tool = "bind_developer_token" -> BindToken(w, call)
    [] call.tool = "developer_token_status" -> TokenStatus(w, call)
    [] call.tool = "clear_developer_token" -> ClearToken(w, call)
    [] call.tool \in {"switch_score_source", "switch_b50_source"} -> SwitchSource(w, call)
(* The world after so many calls, and what they showed.                    *)
Session(q) ==
  LET next(past, done) == Leaves(done.world, Append(past.shown, done.shown))
      after[n \in 0..Len(q.calls)] ==
        IF n = 0 THEN Leaves(NoWorld, <<>>)
        ELSE Using(after[n - 1], LAMBDA past :
               next(past, ServiceCall(past.world, q.calls[n] @@ [turn |-> n], q.client)))
  IN [verdict |-> "session", shown |-> after[Len(q.calls)].shown]

-----------------------------------------------------------------------------
(* QQ identities.  Hours are counted from a midnight, and the users are    *)
(* those of the snapshot as it is read for the group that is asked about.  *)

LatestReset(now, hour) == LET today == (now \div 24) * 24 + hour IN IF now < today THEN today - 24 ELSE today
IdentityCache(q) ==
  [exists |-> q.fetched # {}, fresh |-> \E at \in UNION q.fetched : at >= LatestReset(q.now, q.hour),
   fetched |-> UNION q.fetched]
(* Only a job that runs tells how far it is, and only one that has ended   *)
(* when that was.                                                          *)
JobShown(job) == [status |-> job.status, progress |-> IF job.status = "running" THEN job.progress ELSE {}]
RefreshArgsFit(a) ==
  /\ Arg(a, "timeoutMs") \subseteq 1000..60000 /\ Arg(a, "groupDelayMs") \subseteq 0..10000
  /\ 0 \notin Arg(a, "maxGroups") /\ Arg(a, "napcatBaseUrl") \subseteq {"own", "blank"}
GroupOption(a) == \A g \in Arg(a, "groupId") : CleanText(g)
RefreshIdentities(q) ==
  LET cache == IdentityCache(q)
      wanted == Arg(q.args, "forceRefresh") = {TRUE} \/ ~cache.fresh
      running == \E j \in q.job : j.status = "running"
  IN IF ~RefreshArgsFit(q.args) THEN Unusable
     ELSE [verdict |-> "refresh", started |-> wanted /\ ~running, cache |-> cache,
           own |-> Arg(q.args, "timeoutMs") # {}]
ResolveIdentity(q) ==
  LET limit == Argued(Arg(q.args, "maxResults"), 10)
      text == Argued(Arg(q.args, "query"), <<>>)
      resolution == Resolve(q.users, Trim(text), limit)
  IN IF ~CleanText(text) \/ ~GroupOption(q.args) \/ limit \notin 1..20 THEN Unusable
     ELSE [verdict |-> "resolved", cache |-> IdentityCache(q),
           matches |-> [i \in DOMAIN resolution.matches |-> resolution.matches[i].user.qq],
           ambiguous |-> resolution.ambiguous]
GetIdentity(q) ==
  LET qq == Trim(Argued(Arg(q.args, "qq"), <<>>))
  IN IF ~QqFits(qq) \/ ~GroupOption(q.args) THEN Unusable
     ELSE [verdict |-> "identity", found |-> {u.qq : u \in {v \in q.users : v.qq = qq}}]
(* Cache and job are read one after the other, and may be of two moments.  *)
IdentityTool(q) ==
  IF ~Accepted(q.name, q.args) THEN Unusable
    ELSE CASE q.name = "refresh_qq_identity_cache" -> RefreshIdentities(q)
    [] q.name \in {"qq_identity_cache_status", "qq_identity_job_status"} ->
         [verdict |-> "identities", cache |-> IdentityCache(q), job |-> {JobShown(j) : j \in q.job}]
    [] q.name = "resolve_qq_identity" -> ResolveIdentity(q)
    [] q.name = "get_qq_identity" -> GetIdentity(q)

(* The members of a group: of a fresh snapshot that knows any, or as       *)
(* NapCat lists them.                                                      *)
SnapshotMembers(q) ==
  LET known == SelectSeq(q.snapshot, LAMBDA m : q.group \in m.groups)
      shown(list) == SubSeq(list, 1, Min({Len(list)} \cup q.most))
  IN IF IdentityCache(q).fresh /\ known # <<>>
     THEN [verdict |-> "members", from |-> "snapshot", members |-> shown([i \in DOMAIN known |-> known[i].qq])]
     ELSE IF q.remote = {} THEN Fails("NAPCAT")
     ELSE IF \E i \in DOMAIN Sole(q.remote) : ~QqFits(Sole(q.remote)[i]) THEN Unusable
     ELSE [verdict |-> "members", from |-> "napcat", members |-> shown(Sole(q.remote))]
=============================================================================
