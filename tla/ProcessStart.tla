---------------------------- MODULE ProcessStart ----------------------------
(***************************************************************************)
(* How the public server starts and stops (maimai-stdio): its settings are *)
(* read, its services opened one after the other, it serves until its      *)
(* input ends, and is shut down.                                           *)
(*                                                                         *)
(* env[name] is a variable of the environment: "empty", of blanks,         *)
(* "unreadable", with a control character, or it says something, {x}.  A   *)
(* path is the sequence of its components, a url a record, a number -1     *)
(* when it is none.  "dirs" are the directories on the disk, and "failing" *)
(* the steps that fail.                                                    *)
(***************************************************************************)
EXTENDS ToolSurface

EnvText(env, name) == IF name \in DOMAIN env /\ env[name].kind # "empty" THEN {env[name]} ELSE {}
(* The first of several names that says something, be it unusable.         *)
FirstText(env, names) ==
  LET said == SelectSeq(names, LAMBDA n : \E v \in EnvText(env, n) : v.kind # "blank")
  IN IF said = <<>> THEN {} ELSE EnvText(env, said[1])
Faulty(text) == \E v \in text : v.kind # "says"
Stated(text, default) == IF text = {} THEN default ELSE LET v == CHOOSE w \in text : TRUE IN CHOOSE x \in v.says : TRUE

-----------------------------------------------------------------------------
(* Paths.                                                                  *)

ConfiguredPath(env, path) ==
  IF Head(path) = "~" /\ EnvText(env, "HOME") # {} THEN <<"/", "home">> \o Tail(path)
  ELSE IF Head(path) = "/" THEN path
  ELSE <<"/", "cwd">> \o path
(* A path is taken as it is, blanks and all.                               *)
PathOf(env, names, default) ==
  LET given == SelectSeq(names, LAMBDA n : EnvText(env, n) # {})
  IN ConfiguredPath(env, IF given = <<>> THEN default ELSE Stated(EnvText(env, given[1]), default))
DataDir(env) == PathOf(env, <<"MAIMAI_DATA_DIR">>, <<"data">>)
LegacyState(env) == {ConfiguredPath(env, Stated(EnvText(env, n), <<>>)) :
                       n \in {m \in {"MAIMAI_BINDINGS_DB_PATH", "MAIMAI_LOCAL_DB_PATH"} : EnvText(env, m) # {}}}
StateConflict(env) == EnvText(env, "MAIMAI_STATE_DB") = {} /\ Cardinality(LegacyState(env)) > 1
StateDb(env) == IF EnvText(env, "MAIMAI_STATE_DB") # {} THEN PathOf(env, <<"MAIMAI_STATE_DB">>, <<>>)
                ELSE IF LegacyState(env) # {} THEN CHOOSE p \in LegacyState(env) : TRUE
                ELSE DataDir(env) \o <<"maimai-local.db">>
StaticNames == <<"MAIMAIDX_STATIC_DIR", "B50_IMAGE_YUZU_STATIC_DIR", "B50_IMAGE_STATIC_DIR">>
OutputNames == <<"MAIMAIDX_RENDER_OUTPUT_DIR", "B50_IMAGE_OUTPUT_DIR">>
StaticRoot(env) == PathOf(env, StaticNames, <<"maimaidx_render_mcp", "static">>)

-----------------------------------------------------------------------------
(* Endpoints.                                                              *)

HttpUrl(u) == u.scheme \in {"http", "https"} /\ u.host # "none"
NapCatUrlFits(u) == HttpUrl(u) /\ u.parts = {}
ProviderUrlFits(u) == /\ u.scheme = "https" \/ (u.scheme = "http" /\ u.host = "loopback")
                      /\ u.host # "none" /\ u.parts = {}
LxnsUrlFits(u) == HttpUrl(u) /\ "fragment" \notin u.parts
OwnUrl == [scheme |-> "https", host |-> "other", parts |-> {}]
LocalUrl == [scheme |-> "http", host |-> "loopback", parts |-> {}]
UrlFault(env, names, default, Fits(_)) ==
  LET text == FirstText(env, names) IN Faulty(text) \/ ~Fits(Stated(text, default))
TokenNames == <<"NAPCAT_ACCESS_TOKEN", "NAPCAT_TOKEN">>
NapCatFault(env) ==
  LET timeout == FirstText(env, <<"NAPCAT_TIMEOUT_MS">>)
      token == FirstText(env, TokenNames)
  IN \/ UrlFault(env, <<"NAPCAT_BASE_URL">>, LocalUrl, NapCatUrlFits)
     \/ Faulty(timeout) \/ Stated(timeout, 10000) < 1
     \/ Faulty(token) \/ Stated(token, "clean") = "spaced"

(* The texts of the client are looked at whether there is one or not; once *)
(* they are taken its own checks find nothing more.                        *)
ClientNames == <<"LXNS_OAUTH_CLIENT_ID", "LXNS_CLIENT_ID">>
OAuthTexts == {ClientNames, <<"LXNS_OAUTH_CLIENT_SECRET", "LXNS_CLIENT_SECRET">>, <<"LXNS_OAUTH_SCOPES", "LXNS_SCOPES">>}
(* The endpoint of tokens is named itself, or is one of an API that is.    *)
TokenUrl == <<"LXNS_OAUTH_TOKEN_URL", "LXNS_API_BASE_URL">>
OAuthUrls == {<<"LXNS_OAUTH_REDIRECT_URI", "LXNS_REDIRECT_URI">>,
              <<"LXNS_OAUTH_AUTHORIZE_URL", "LXNS_AUTHORIZE_URL">>, TokenUrl}
OAuthFault(env) == \/ \E names \in OAuthTexts : Faulty(FirstText(env, names))
                   \/ \E names \in OAuthUrls : UrlFault(env, names, OwnUrl, LxnsUrlFits)
OffsetNames == <<"MAIMAI_DISPLAY_UTC_OFFSET", "MCP_DISPLAY_TZ", "QQ_IDENTITY_DISPLAY_TZ", "GROUP_B50_DISPLAY_TZ">>
OffsetFits(o) == o.readable /\ o.hours \in -25..25 /\ o.minutes \in -59..59
OffsetFault(env) ==
  LET text == FirstText(env, OffsetNames)
  IN Faulty(text) \/ ~OffsetFits(Stated(text, [readable |-> TRUE, hours |-> 8, minutes |-> 0]))

ConfigFault(env, dirs) ==
  IF DataDir(env) \notin dirs \/ StateConflict(env) THEN "Paths"
  ELSE IF StaticRoot(env) \notin dirs THEN "Directory"
  ELSE IF NapCatFault(env) THEN "NapCat"
  ELSE IF OAuthFault(env) THEN "OAuth"
  ELSE IF UrlFault(env, <<"DIVING_FISH_API_BASE_URL">>, OwnUrl, ProviderUrlFits) THEN "Api"
  ELSE IF UrlFault(env, <<"DIVING_FISH_COVER_BASE_URL">>, OwnUrl, ProviderUrlFits) THEN "Cover"
  ELSE IF OffsetFault(env) THEN "Offset"
  ELSE "none"
Settings(env) ==
  [state |-> StateDb(env), data |-> DataDir(env), static |-> StaticRoot(env),
   output |-> PathOf(env, OutputNames, <<"maimai-images">>),
   style |-> IF EnvText(env, "B50_IMAGE_STYLE_CONFIG") = {} THEN DataDir(env) \o <<"b50-image-style.json">>
             ELSE PathOf(env, <<"B50_IMAGE_STYLE_CONFIG">>, <<>>),
   client |-> FirstText(env, ClientNames) # {},
   token |-> Stated(FirstText(env, TokenNames), "none"),
   offset |-> Stated(FirstText(env, OffsetNames), [readable |-> TRUE, hours |-> 8, minutes |-> 0])]

-----------------------------------------------------------------------------
(* The steps of opening the services; the state is closed again when what  *)
(* follows it and is of the database fails.                                *)

RendererSteps == <<"outputs", "covers", "font", "directories", "style", "completion", "music_info", "music_score",
                   "global_stats", "rating_ranking", "score_list", "rise_score", "cover_root", "overrides">>
OpenSteps == <<"http", "diving_fish", "napcat", "catalog_source">> \o RendererSteps
             \o <<"catalog", "state", "catalog_refresh", "job_store", "jobs">>
Opened(failing) ==
  LET at == {i \in DOMAIN OpenSteps : OpenSteps[i] \in failing}
  IN IF at = {} THEN [fault |-> "none", state |-> "open"]
     ELSE LET step == OpenSteps[Min(at)]
          IN [fault |-> step, state |-> CASE step \in {"job_store", "jobs"} -> "closed"
                                          [] step = "catalog_refresh" -> "dropped"
                                          [] OTHER -> "none"]
(* Every part is asked to stop, whatever the parts before it answer; the   *)
(* first error is the one that is told.                                    *)
StoppedParts == <<"rankings", "identity", "catalog_jobs">>
ShutDown(failing) ==
  LET failed == SelectSeq(StoppedParts, LAMBDA p : p \in failing)
  IN [fault |-> IF failed = <<>> THEN "none" ELSE failed[1], stopped |-> ToSet(StoppedParts)]

(* What the surface is composed of is constant and fits, so that cannot    *)
(* fail.                                                                   *)
RunPublic(q) ==
  LET contract == PublicContract(q.fragments)
      config == ConfigFault(q.env, q.dirs)
      opened == Opened(q.failing)
      stop == ShutDown(q.failing)
      ended(fault, state) == [verdict |-> "ended", fault |-> fault, state |-> state, stopped |-> {}]
  IN IF contract.fault # "none" THEN ended(contract.fault, "none")
     ELSE IF config # "none" THEN ended(config, "none")
     ELSE IF opened.fault # "none" THEN ended(opened.fault, opened.state)
     ELSE [verdict |-> "served", tools |-> contract.tools, settings |-> Settings(q.env),
                    fault |-> IF "stdio" \in q.failing THEN "stdio" ELSE stop.fault,
                    stopped |-> stop.stopped, state |-> "closed"]
=============================================================================
