---------------------------- MODULE ToolSurface ----------------------------
(***************************************************************************)
(* The surface of the public server (maimai-mcp contract and protocol,     *)
(* maimai-stdio surfaces): the fragments of its contract are put together, *)
(* and a call goes to the part whose tool it names.                        *)
(*                                                                         *)
(* The text of a fragment is of blanks, unreadable, or a contract.  A tool *)
(* of it has a name ("" when blank) and may lack a description or a schema *)
(* of an object.  "outcome" is what a part makes of a call that reaches    *)
(* it: "done", "refused" by the tool, or "malformed" arguments.            *)
(***************************************************************************)
EXTENDS SequencesExt, Naturals

-----------------------------------------------------------------------------
(* Contracts.                                                              *)

FaultOfTool(tools, i) ==
  IF tools[i].name = "" \/ ~tools[i].described THEN "EmptyToolField"
  ELSE IF \E j \in 1..(i - 1) : tools[j].name = tools[i].name THEN "DuplicateTool"
  ELSE IF ~tools[i].object THEN "InvalidInputSchema"
  ELSE "none"
ContractFault(contract) ==
  LET faulty == {i \in DOMAIN contract.tools : FaultOfTool(contract.tools, i) # "none"}
  IN IF ~contract.named \/ ~contract.versioned THEN "EmptyServerInfo"
     ELSE IF faulty # {} THEN FaultOfTool(contract.tools, Min(faulty))
     ELSE "none"
FragmentFault(fragment) == CASE fragment.text = "blank" -> "EmptyFragment"
                             [] fragment.text = "unreadable" -> "Json"
                             [] OTHER -> ContractFault(fragment)
(* A fault of one fragment is told before a name that two of them have.    *)
Compose(fragments) ==
  LET parsed == SelectSeq(fragments, LAMBDA f : FragmentFault(f) # "none")
      tools == FlattenSeq([i \in DOMAIN fragments |-> fragments[i].tools])
      whole == [named |-> TRUE, versioned |-> TRUE, tools |-> tools]
      failed(fault) == [fault |-> fault, tools |-> <<>>]
  IN IF fragments = <<>> THEN failed("NoFragments")
     ELSE IF parsed # <<>> THEN failed(FragmentFault(parsed[1]))
     ELSE IF \E i \in DOMAIN fragments : fragments[i].tools = <<>> THEN failed("EmptyFragment")
     ELSE [fault |-> ContractFault(whole),
                    tools |-> IF ContractFault(whole) = "none" THEN [i \in DOMAIN tools |-> tools[i].name] ELSE <<>>]
PublicTools == 60
PublicContract(fragments) ==
  LET composed == Compose(fragments)
  IN IF composed.fault = "none" /\ Len(composed.tools) # PublicTools
     THEN [fault |-> "UnexpectedToolCount", tools |-> <<>>] ELSE composed

-----------------------------------------------------------------------------
(* The parts of the server, and the tools that each of them knows.         *)

CatalogNames ==
  {"search_maimai_songs", "batch_search_maimai_songs", "add_maimai_alias", "delete_maimai_alias", "list_maimai_aliases",
   "refresh_maimai_sources", "refresh_maimai_sources_job_status", "random_maimai_songs", "today_maimai",
   "list_maimai_songs_by_id", "list_maimai_versions", "score_counts", "find_score_combinations"}
IdentityNames ==
  {"refresh_qq_identity_cache", "qq_identity_cache_status", "qq_identity_job_status", "resolve_qq_identity",
   "get_qq_identity"}
OAuthNames ==
  {"maimai_lxns_oauth_url", "maimai_lxns_bind_code", "maimai_lxns_prepare_poke", "maimai_lxns_confirm_poke",
   "maimai_lxns_status", "maimai_lxns_unbind"}
RankingNames ==
  {"group_b50_report", "group_b50_cache_status", "group_b50_job_status", "group_b50_member_rank", "group_b50_rank_at",
   "clear_group_b50_cache", "group_song_score_report", "group_song_score_member_rank",
   "group_song_score_cache_status", "group_song_score_job_status", "clear_group_song_score_cache"}
CompletionNames ==
  {"render_maimai_plate", "render_maimai_plate_batch", "render_maimai_rating", "render_maimai_progress",
   "render_maimai_plate_progress", "render_maimai_plate_progress_batch"}
InfoNames == {"render_maimai_music_info", "render_maimai_music_info_batch"}
RenderNames ==
  {"render_maimai_b50", "render_maimai_plate", "render_maimai_plate_batch", "render_maimai_rating",
   "render_maimai_progress", "render_maimai_music_info", "render_maimai_music_info_batch",
   "render_maimai_music_score", "render_maimai_music_global_stats", "render_maimai_rise_score",
   "render_maimai_score_list", "render_maimai_rating_ranking", "render_maimai_plate_progress",
   "render_maimai_plate_progress_batch"}
QueryNames ==
  {"query_b50", "query_b50_batch", "query_computed_b50", "query_maimai_song_score", "query_maimai_player_records",
   "list_diving_fish_apis", "diving_fish_api"}
SettingsNames ==
  {"bind_developer_token", "developer_token_status", "clear_developer_token", "switch_score_source",
   "switch_b50_source"}
(* The catalogue's part knows one tool that the public server does not     *)
(* list.                                                                   *)
KnownTools ==
  [catalog |-> CatalogNames \cup {"query_chart_history"}, identity |-> IdentityNames, oauth |-> OAuthNames,
   rankings |-> RankingNames, b50 |-> {"render_maimai_b50"}, completion |-> CompletionNames, music_info |-> InfoNames,
   music_score |-> {"render_maimai_music_score"}, global_stats |-> {"render_maimai_music_global_stats"},
   rise_score |-> {"render_maimai_rise_score"}, score_list |-> {"render_maimai_score_list"},
   rating_ranking |-> {"render_maimai_rating_ranking"}, score_by_song |-> {"query_maimai_score_by_song"},
   queries |-> QueryNames, settings |-> SettingsNames]

-----------------------------------------------------------------------------
(* A pair hands a call to its left part if that lists the tool, and else   *)
(* to the right one, which may be a pair again: a chain of pairs is a      *)
(* sequence of parts, and the last takes whatever no other lists.          *)

Pair(names, part) == [names |-> names, part |-> part]
Otherwise(part) == Pair({}, part)
RenderParts ==
  <<Pair({"render_maimai_b50"}, "b50"), Pair(CompletionNames, "completion"), Pair(InfoNames, "music_info"),
    Pair({"render_maimai_music_score"}, "music_score"), Pair({"render_maimai_music_global_stats"}, "global_stats"),
    Pair({"render_maimai_rise_score"}, "rise_score"), Pair({"render_maimai_score_list"}, "score_list"),
    Otherwise("rating_ranking")>>
ScoreParts == <<Pair(QueryNames, "queries"), Otherwise("settings")>>
PublicParts ==
  <<Pair(CatalogNames, "catalog"), Pair(IdentityNames, "identity"), Pair(OAuthNames, "oauth"),
    Pair(RankingNames, "rankings"), Pair(RenderNames, "render"),
    Pair({"query_maimai_score_by_song"}, "score_by_song"), Otherwise("scores")>>
Handed(parts, name) ==
  LET lists == {i \in DOMAIN parts : name \in parts[i].names}
  IN parts[IF lists = {} THEN Len(parts) ELSE Min(lists)].part
Route(name) == LET part == Handed(PublicParts, name)
               IN CASE part = "render" -> Handed(RenderParts, name)
                    [] part = "scores" -> Handed(ScoreParts, name)
                    [] OTHER -> part

(* Some parts leave malformed arguments to the protocol.                   *)
StrictParts == {"b50", "completion", "music_info", "music_score", "global_stats", "rise_score", "score_list",
                "rating_ranking", "score_by_song", "queries"}
Dispatch(part, name, outcome) ==
  IF name \notin KnownTools[part] THEN IF part = "catalog" THEN "tool_error" ELSE "internal_error"
  ELSE IF outcome = "malformed" THEN IF part \in StrictParts THEN "invalid_params" ELSE "tool_error"
  ELSE IF outcome = "refused" THEN "tool_error"
  ELSE "success"
CallTool(listed, name, outcome) ==
  IF name \notin ToSet(listed) THEN [part |-> "none", reply |-> "invalid_params"]
  ELSE [part |-> Route(name), reply |-> Dispatch(Route(name), name, outcome)]
(* A server is only begun with a surface that could be put together.       *)
CallSurface(fragments, name, outcome) ==
  LET contract == PublicContract(fragments)
  IN IF contract.fault # "none" THEN [verdict |-> "unserved", fault |-> contract.fault]
     ELSE [verdict |-> "called"] @@ CallTool(contract.tools, name, outcome)
=============================================================================
