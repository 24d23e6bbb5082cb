----------------------------- MODULE ToolAnswers -----------------------------
(***************************************************************************)
(* The tools that compute their answer from their arguments and the data   *)
(* they were handed, without waiting for anything: a question is put and   *)
(* answered once.                                                          *)
(***************************************************************************)
EXTENDS ScoreSearch, RiseScores, CatalogTools, ScoreTools, ServiceTools, ProcessStart, StateDatabase

CONSTANTS Published,        \* the documents of the catalogues that are asked
          CatalogQuestions, \* bound: what is put to the catalogue
          CompletionQuestions, \* about what is left to play
          CountQuestions,   \* to score_counts
          SearchQuestions, \* to find_score_combinations
          RatingQuestions, \* about a best-50 list
          RiseQuestions,   \* about what to play next
          RankQuestions,   \* about who is ahead of whom
          ProviderQuestions, \* to the providers, with what they reply
          ScoreToolQuestions, \* and about a player, with the providers' replies
          RankToolQuestions, \* about a group's ranking
          Surfaces,        \* the fragments of contracts that a server begins with
          ServiceQuestions, \* to a server as a whole, and about who somebody is
          StateQuestions   \* what processes do to the file of its state

Questions ==
  UNION {CatalogQuestions, CompletionQuestions, CountQuestions, SearchQuestions, RatingQuestions,
         RiseQuestions, RankQuestions, ProviderQuestions, ScoreToolQuestions, RankToolQuestions,
         ServiceQuestions, StateQuestions}

(* The scores that a list is computed from are of charts of the catalogue, *)
(* and no achievement, constant or rating is negative (the types they are  *)
(* parsed into have no negative values).                                   *)
Measured == Nat \cup {None}
ChartData == [constant : Measured, fit : Measured, current : BOOLEAN, utage : BOOLEAN]
ScoreData(catalog) ==
  [chart : DOMAIN catalog, achievement : Measured, dx : Measured, constant : Measured, rating : Measured]
Judgeable(q) ==
  /\ DOMAIN q.catalog \subseteq Int
  /\ q.catalog \in [DOMAIN q.catalog -> ChartData]
  /\ q.scores \subseteq ScoreData(q.catalog) /\ IsFiniteSet(q.scores)
Ratable(q) == Judgeable(q) /\ q.mode \in {"actual", "fit"}
Advisable(q) == Judgeable(q) /\ IsFiniteSet(DOMAIN q.catalog) /\ q.algorithm \in {"legacy", "expected"}
ASSUME RatingAssumption ==
  \A q \in Questions : (q.tool = "b50" => Ratable(q)) /\ (q.tool = "rise" => Advisable(q))

(* A ranking has one entry of every member, and records of finitely many   *)
(* members; the public list has every player once.  Of names, and of fit   *)
(* indexes, only the order matters: they are counted from the first.       *)
WindowData == [limit : Measured, start : Measured, end : Measured]
Rankable(entries) ==
  /\ entries \subseteq [qq : Nat, rating : Measured, fit : Measured, name : Nat]
  /\ IsFiniteSet(entries) /\ \A l, r \in entries : l.qq = r.qq => l = r
SongRankable(members, records) ==
  /\ records \subseteq [qq : Nat, song : Nat, chart : Nat, difficulty : Nat, deluxe : {"yes", "no"},
                         rating : Measured, achievement : Measured, dx : Measured]
  /\ IsFiniteSet(members) /\ IsFiniteSet(records)
ListedOnce(list) ==
  /\ list \in Seq(ToSet(list)) /\ \A i \in DOMAIN list : list[i].rating \in Nat /\ list[i].folded \in Nat
  /\ \A i, k \in DOMAIN list : list[i] = list[k] => i = k
RankOptions(o) == {o.min, o.max} \subseteq Measured /\ o.window \in WindowData
(* What a ranking tool is told: at most one value in every place.          *)
AnyText == Seq(Int)
Users == [qq : AnyText, names : SUBSET AnyText, groups : SUBSET SUBSET AnyText, preferred : SUBSET SUBSET AnyText]
RankValues(a) ==
  /\ OptionFields \cup {"start", "end", "rank"} \subseteq DOMAIN a
  /\ UNION {a.min, a.max, a.fitMin, a.fitMax, a.limit, a.start, a.end, a.rank} \subseteq Nat
  /\ a.rank # {} => a.rank = {Sole(a.rank)}
  /\ a.force \in {{}, {TRUE}, {FALSE}} /\ a.target \subseteq AnyText
RankSituation(q) ==
  /\ q.name \in DOMAIN RankToolFields /\ RankValues(q.args)
  /\ IsFiniteSet(q.users) /\ q.users \subseteq Users /\ IsFiniteSet(q.memberships)
  /\ \A u \in q.users : ToSet(u.qq) \subseteq 20..29
  /\ \A u, v \in q.users : u.qq = v.qq => u = v
  /\ \A i \in 1..2 : \A r \in q.reads[i] :
       /\ q.name \in {"group_b50_report", "group_b50_job_status", "group_b50_member_rank", "group_b50_rank_at"} =>
            Rankable(r.entries)
       /\ q.name \in {"group_song_score_report", "group_song_score_member_rank"} => SongRankable(r.members, r.records)
Arguable(q) ==
  CASE q.tool = "b50_report" -> Rankable(q.entries) /\ RankOptions(q) /\ {q.fitMin, q.fitMax} \subseteq Measured
    [] q.tool = "b50_member" -> Rankable(q.entries) /\ {q.qq, q.size} \subseteq Nat
    [] q.tool = "song_report" -> SongRankable(q.members, q.records) /\ RankOptions(q) /\ q.target.difficulty \in Measured
    [] q.tool = "song_member" -> /\ SongRankable(q.members, q.records) /\ {q.qq, q.size} \subseteq Nat
                                 /\ q.target.difficulty \in Measured
    [] q.tool = "public" -> ListedOnce(q.list) /\ (q.kind = "range" => q.start \in Nat \ {0} /\ q.end \in Nat)
    [] q.tool = "rank_tool" -> RankSituation(q)
    [] OTHER -> TRUE
ASSUME RankAssumption == \A q \in Questions : Arguable(q)

(* A reply says how long its parts are, and is one JSON value or none; in  *)
(* an object of what is read as a whole no name is given to two values.    *)
Node(v) ==
  /\ v.is = "array" => v.items \in Seq(ToSet(v.items))
  /\ IsObject(v) => IsFiniteSet(v.fields)
  /\ v.is = "null" => v = Null
Nodes(v) == Node(v) /\ (IsObject(v) => \A f \in v.fields : Node(f[2]))
ReplyData(reply) ==
  /\ reply.broken \in {"no", "timeout", "network"}
  /\ reply.chunks \in Seq(Nat) /\ reply.declared \subseteq Nat /\ reply.status \in Nat
  /\ \A v \in reply.json : Nodes(v) /\ reply.json = {v}
NamedOnce(reply) == \A v \in reply.json : IsObject(v) => \A f, g \in v.fields : f[1] = g[1] => f = g
WellReplied(q) ==
  CASE q.tool = "operation" -> q.request.operation \in DOMAIN Operations /\ ReplyData(q.reply)
    [] q.tool = "tokens" -> q.request.grant \in {"authorization_code", "refresh_token"} /\ ReplyData(q.reply)
    [] q.tool = "accounts" -> q.list \in {"friends", "groups"} /\ ReplyData(q.reply) /\ NamedOnce(q.reply)
    [] q.tool = "group_members" -> ReplyData(q.reply) /\ NamedOnce(q.reply)
    [] q.tool = "fetch" -> /\ q.source \in DOMAIN SourceParts
                           /\ {"dxdata_proxy", "dxdata_github"} \subseteq DOMAIN q.replies
                           /\ \A part \in ToSet(SourceParts[q.source]) : part[1] \in DOMAIN q.replies
                           /\ \A e \in DOMAIN q.replies : ReplyData(q.replies[e])
    [] OTHER -> TRUE
ASSUME ReplyAssumption == \A q \in Questions : WellReplied(q)

VARIABLES question, loaded, answer

vars == <<question, loaded, answer>>

(* The catalogue that a question is put to, if it is put to one.           *)
Served == {[of |-> i, catalog |-> Load(Published[i])] : i \in DOMAIN Published}
CatalogOf(q) == (CHOOSE s \in Served : s.of = q.of).catalog

NoCatalog == [loaded |-> FALSE]
Unanswered == [verdict |-> "unanswered"]

Init ==
  /\ question \in Questions
  /\ loaded = IF "of" \in DOMAIN question THEN CatalogOf(question) ELSE NoCatalog
  /\ answer = Unanswered

Answering(tool) == answer = Unanswered /\ question.tool = tool /\ UNCHANGED <<question, loaded>>

CountScores ==
  /\ Answering("count")
  /\ answer' = ScoreCounts(question.counts, question.digits, question.includeZero)

SearchScores ==
  /\ Answering("search")
  /\ answer' = FindScoreCombinations(question)

ComputeB50 ==
  /\ Answering("b50")
  /\ answer' = B50(FromScores(question.scores, question.catalog), question.mode)

(* A provider's own list, divided by its reading of the versions.          *)
TakeB50 ==
  /\ Answering("sections")
  /\ LET records == FromScores(question.scores, question.catalog)
     IN answer' = B50FromSections({r \in records : ~r.current}, {r \in records : r.current},
                                  question.upstream)

RecommendRise ==
  /\ Answering("rise")
  /\ answer' \in RiseAnswers(question)

ReportB50 ==
  /\ Answering("b50_report")
  /\ answer' = B50Report(question.entries, question)

RankMember ==
  /\ Answering("b50_member")
  /\ answer' = B50MemberRank(question.entries, question.qq, question.size)

ReportSong ==
  /\ Answering("song_report")
  /\ answer' = SongReport(question.members, question.records, question)

RankOnSong ==
  /\ Answering("song_member")
  /\ answer' = SongMemberRank(question.members, question.records, question.target,
                              question.qq, question.size)

ShowPublicRanking ==
  /\ Answering("public")
  /\ answer' = CASE question.kind = "page" -> PublicPage(question.list, question.page)
                 [] question.kind = "range" -> PublicRange(question.list, question.start, question.end)
                 [] question.kind = "player" -> PublicLookup(question.list, question.folded)

-----------------------------------------------------------------------------
(* A group's ranking, as it is when the call comes and when it is read.    *)

AskRanking ==
  /\ Answering("rank_tool")
  /\ answer' = RankTool(loaded, question, question.args)

-----------------------------------------------------------------------------
(* The catalogue: it is loaded from the documents, and asked.              *)

LoadCatalog ==
  /\ Answering("load")
  /\ answer' = Load(question.docs)

QueryCatalog ==
  /\ Answering("query")
  /\ answer' = Query(loaded, question.query)

(* One search is a batch of one.                                           *)
SearchSongs ==
  /\ Answering("search_songs")
  /\ answer' = BatchTool(loaded, question.items)

ListSongs ==
  /\ Answering("list_songs")
  /\ answer' = ListById(loaded, question.arguments, question.direction, question.limit)

DrawRandom ==
  /\ Answering("random")
  /\ answer' \in RandomTool(loaded, question.arguments, question.count)

ListVersions ==
  /\ Answering("versions")
  /\ answer' = Versions(loaded, question.needles, question.limit)

ShowMusicInfo ==
  /\ Answering("music_info")
  /\ answer' = MusicInfo(loaded, question.request)

FindScoredSong ==
  /\ Answering("score_by_song")
  /\ answer' = ResolveSong(loaded, question.request)

FindRankedSong ==
  /\ Answering("ranked_song")
  /\ answer' = [at |-> RankedSong(loaded, question.request)]

FindChart ==
  /\ Answering("score_chart")
  /\ answer' = [chart |-> ResolveChart(loaded, question.id, question.generations, question.difficulty),
                song |-> CanonicalSong(loaded, question.id)]

FindPlayer ==
  /\ Answering("player")
  /\ answer' = ResolvePlayer(question.users, question.target)

-----------------------------------------------------------------------------
(* What a player has completed.                                            *)

ShowPlates ==
  /\ Answering("plates")
  /\ answer' = TableBatch(loaded, question.records, question.specs, question.allowJp, question.undrawn)

ShowPlateProgress ==
  /\ Answering("plate_progress")
  /\ answer' = ProgressBatch(loaded, question.records, question.specs, question.allowJp, question.undrawn)

ShowLevelProgress ==
  /\ Answering("level_progress")
  /\ answer' = LevelProgress(loaded, question.records, question.request, question.allowJp)

ShowRatingTable ==
  /\ Answering("rating_table")
  /\ answer' = RatingTable(loaded, question.records, question.request, question.allowJp)

-----------------------------------------------------------------------------
(* What a provider is asked, and replies.                                  *)

CallDivingFish ==
  /\ Answering("operation")
  /\ answer' = Execute(question.request, question.reply)

RequestTokens ==
  /\ Answering("tokens")
  /\ answer' = RequestTokensWith(question.request, question.reply)

FetchSource ==
  /\ Answering("fetch")
  /\ answer' = FetchFrom(question.source, question.etag, question.replies)

ListGroupMembers ==
  /\ Answering("group_members")
  /\ answer' = GroupMembers(question.group, question.reply)

ListAccounts ==
  /\ Answering("accounts")
  /\ answer' = PostList(question.list, question.reply)

AskScores ==
  /\ Answering("scores")
  /\ answer' = PlayerScores(question, loaded)

-----------------------------------------------------------------------------
(* What is shown of a player's scores.                                     *)

QueryB50 ==
  /\ Answering("query_b50")
  /\ answer' \in ExecuteB50(loaded, question, question.args)

QueryB50Batch ==
  /\ Answering("b50_batch")
  /\ answer' \in BatchAnswers(loaded, question)

QuerySongScore ==
  /\ Answering("song_score")
  /\ answer' \in SongScore(loaded, question, question.args)

QueryPlayerRecords ==
  /\ Answering("player_records")
  /\ answer' \in PlayerRecords(loaded, question, question.args)

ShowApis ==
  /\ Answering("list_apis")
  /\ answer' = ListApis(question.args)

CallDivingFishApi ==
  /\ Answering("diving_fish_api")
  /\ answer' = CallApi(question)

-----------------------------------------------------------------------------
(* The server as a whole, and what it keeps for the players.               *)

StartServer ==
  /\ Answering("start")
  /\ answer' = RunPublic([fragments |-> Surfaces[question.surface]] @@ question)

CallServer ==
  /\ Answering("surface")
  /\ answer' = CallSurface(Surfaces[question.surface], question.name, question.outcome)

HoldSession ==
  /\ Answering("session")
  /\ answer' = Session(question)

AskIdentity ==
  /\ Answering("identity")
  /\ answer' = IdentityTool(question)

ListMembers ==
  /\ Answering("members")
  /\ answer' = SnapshotMembers(question)

KeepState ==
  /\ Answering("state")
  /\ answer' = Kept(question)

-----------------------------------------------------------------------------
Next ==
  \/ KeepState \/ StartServer \/ CallServer \/ HoldSession \/ AskIdentity \/ ListMembers
  \/ QueryB50 \/ QueryB50Batch \/ QuerySongScore \/ QueryPlayerRecords \/ ShowApis \/ CallDivingFishApi
  \/ CallDivingFish \/ RequestTokens \/ FetchSource \/ ListGroupMembers \/ ListAccounts \/ AskScores
  \/ ShowPlates \/ ShowPlateProgress \/ ShowLevelProgress \/ ShowRatingTable
  \/ LoadCatalog \/ QueryCatalog \/ SearchSongs \/ ListSongs \/ DrawRandom \/ ListVersions
  \/ ShowMusicInfo \/ FindScoredSong \/ FindRankedSong \/ FindChart \/ FindPlayer
  \/ CountScores \/ SearchScores
  \/ ComputeB50 \/ TakeB50 \/ RecommendRise
  \/ ReportB50 \/ RankMember \/ ReportSong \/ RankOnSong \/ AskRanking \/ ShowPublicRanking
Spec == Init /\ [][Next]_vars
=============================================================================
