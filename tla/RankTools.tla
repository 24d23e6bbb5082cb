-------------------------------- MODULE RankTools --------------------------------
(***************************************************************************)
(* The tools on a group's rankings (maimai-mcp ranking_tools): what their  *)
(* arguments ask of the ranking service, whether a refresh is started      *)
(* instead of an answer, and what is shown of the ranking that is there.   *)
(*                                                                         *)
(* "cache" is the ranking as the call finds it; "reads" what the call's    *)
(* reads after that return, for a refresh or a clearing may come between   *)
(* them: each is a set of at most one ranking.  "terminal" tells of the    *)
(* end of a job that could not be recorded: it is held, or recording it    *)
(* fails again.                                                            *)
(***************************************************************************)
EXTENDS RankReports, Lookups

Fails(error) == [verdict |-> "failed", error |-> error]
Unusable == Fails("INVALID_INPUT")
Sole(S) == CHOOSE x \in S : TRUE
Argued(option, default) == IF option = {} THEN default ELSE Sole(option)

-----------------------------------------------------------------------------
(* What the arguments mean.  A tool refuses those it does not know.        *)

RefreshFields == {"baseUrl", "noCache", "timeout", "delay", "concurrency", "batchSize", "maxMembers"}
OptionFields == {"sortBy", "order", "output", "min", "max", "fitMin", "fitMax", "limit"}
B50ReportFields == {"group", "force", "start", "end"} \cup OptionFields \cup RefreshFields
CacheFields == {"group"}
B50JobFields == {"group"} \cup OptionFields
B50MemberFields == {"group", "qq", "target", "force", "output", "context"} \cup RefreshFields
B50RankAtFields == {"group", "rank", "order", "output", "min", "max", "fitMin", "fitMax", "force"} \cup RefreshFields
SongReportFields ==
  {"group", "songQuery", "musicId", "difficulty", "songType", "order", "sortBy", "limit", "start", "end", "min", "max",
   "force", "searchLimit"} \cup RefreshFields
SongMemberFields ==
  {"group", "qq", "target", "songQuery", "musicId", "difficulty", "songType", "context", "force", "searchLimit"}
  \cup RefreshFields
RankToolFields ==
  [group_b50_report |-> B50ReportFields, group_b50_cache_status |-> CacheFields, group_b50_job_status |-> B50JobFields,
   group_b50_member_rank |-> B50MemberFields, group_b50_rank_at |-> B50RankAtFields, clear_group_b50_cache |-> CacheFields,
   group_song_score_report |-> SongReportFields, group_song_score_member_rank |-> SongMemberFields,
   group_song_score_cache_status |-> CacheFields, group_song_score_job_status |-> CacheFields,
   clear_group_song_score_cache |-> CacheFields]
KnownArguments(name, a) == \A f \in DOMAIN a \ {"numbers"} : a[f] # {} => f \in RankToolFields[name]

CleanText(t) == Trim(t) # <<>> /\ -1 \notin ToSet(t)
QqFits(t) == CleanText(t) /\ ToSet(Trim(t)) \subseteq 20..29
GroupFits(a) == \E t \in a.group : CleanText(t)
RefreshFits(a) ==
  /\ a.batchSize \subseteq 1..100 /\ a.delay \subseteq 0..10000
  /\ a.concurrency \subseteq 1..20 /\ 0 \notin a.maxMembers
(* Nothing is asked of a client unless one is described.                   *)
ClientFits(a) == /\ a.baseUrl \subseteq {"http", "https"}
                 /\ a.baseUrl # {} \/ a.timeout # {} => Argued(a.timeout, 10000) \in 1000..60000
WindowFor(a) == [limit |-> Argued(a.limit, None), start |-> Argued(a.start, None), end |-> Argued(a.end, None)]
OrderNames == [asc |-> "ascending", desc |-> "descending"]
SortNames == [rating |-> "rating", fitIndex |-> "fit"]
OutputFits(a) == a.output \subseteq {"rating", "detail"}
ContextFits(a) == a.context \subseteq 0..10
B50OptionsFit(a) == /\ a.sortBy \subseteq DOMAIN SortNames /\ a.order \subseteq DOMAIN OrderNames
                    /\ OutputFits(a) /\ a.numbers /\ ValidWindow(WindowFor(a))
B50Options(a, order) ==
  [sort |-> SortNames[Argued(a.sortBy, "rating")], order |-> OrderNames[Argued(a.order, order)],
   min |-> Argued(a.min, None), max |-> Argued(a.max, None),
   fitMin |-> Argued(a.fitMin, None), fitMax |-> Argued(a.fitMax, None), window |-> WindowFor(a)]

SongSortNames == [achievements |-> "achievement", ra |-> "rating", dxScore |-> "dx"]
(* A number may be sent as one or as a text, with any of the letters of    *)
(* "id" before it.                                                         *)
Unmarked(t) == LET first == {i \in DOMAIN t : t[i] \notin {4, 9, 14, 19}}
               IN IF first = {} THEN <<>> ELSE SubSeq(t, Min(first), Len(t))
MusicNumbers(a) == {Number(Unmarked(Trim(t))) : t \in a.musicId}
SongFits(a) == /\ MusicNumbers(a) \cap {None, 0} = {} /\ a.searchLimit \subseteq 1..20
DifficultyFits(a) == a.difficulty \subseteq 0..4
TypeNames == [DX |-> "yes", SD |-> "no", Standard |-> "no"]
SongOptionsFit(a) == /\ a.sortBy \subseteq DOMAIN SongSortNames /\ a.order \subseteq DOMAIN OrderNames
                     /\ a.numbers /\ ValidWindow(WindowFor(a))
(* The song, and which of its charts; the search's limit does not matter   *)
(* because only its best hit is taken.                                     *)
SongFor(catalog, a) ==
  Using(RankedSong(catalog, [musicId |-> MusicNumbers(a), query |-> a.songQuery]), LAMBDA found :
    IF ~DifficultyFits(a) \/ ~a.songType \subseteq DOMAIN TypeNames THEN Unusable
    ELSE IF MusicNumbers(a) = {} /\ a.songQuery = {} THEN Unusable
    ELSE IF found = {} THEN Fails("NOT_FOUND")
    ELSE [verdict |-> "song", song |-> Sole(found), difficulty |-> Argued(a.difficulty, None),
                   deluxe |-> IF a.songType = {} THEN "any" ELSE TypeNames[Sole(a.songType)]])
SongOptions(target, a) ==
  [target |-> target, sort |-> SongSortNames[Argued(a.sortBy, "achievements")],
   order |-> OrderNames[Argued(a.order, "desc")], min |-> Argued(a.min, None), max |-> Argued(a.max, None),
   window |-> WindowFor(a)]

InGroup(member, group) == [verdict |-> "member", qq |-> member.qq, group |-> group]
(* The member: by number, or the only one a text means; and the group, or  *)
(* the only one in which the member is.                                    *)
MemberFor(q, a) ==
  Using(Resolve(q.users, Trim(Sole(a.target)), 10), LAMBDA named :
  Using(IF QqFits(Sole(a.target)) THEN [verdict |-> "member", qq |-> Trim(Sole(a.target))]
        ELSE IF ~CleanText(Sole(a.target)) THEN Unusable
        ELSE IF named.ambiguous THEN Fails("AMBIGUOUS_IDENTITY")
        ELSE IF named.matches = <<>> THEN Fails("NOT_FOUND")
        ELSE [verdict |-> "member", qq |-> named.matches[1].user.qq], LAMBDA byText :
  Using(IF \E t \in a.qq : ~QqFits(t) THEN Unusable
        ELSE IF \E t \in a.group : ~CleanText(t) THEN Unusable
        ELSE IF a.qq # {} THEN [verdict |-> "member", qq |-> Trim(Sole(a.qq))]
        ELSE IF a.target # {} THEN byText
        ELSE Unusable, LAMBDA member :
  Using({m.group : m \in {n \in q.memberships : n.qq = member.qq}}, LAMBDA groups :
    IF member.verdict = "failed" THEN member
    ELSE IF a.group # {} THEN InGroup(member, Trim(Sole(a.group)))
    ELSE IF groups = {} THEN Fails("NOT_FOUND")
    ELSE IF Cardinality(groups) > 1 THEN Fails("AMBIGUOUS_IDENTITY")
    ELSE InGroup(member, Sole(groups))))))
(* The numbers by which members are ranked.                                *)
RankedAs(member) == Number(member.qq)

-----------------------------------------------------------------------------
(* A ranking that is not of today is refreshed first, and so is any that   *)
(* the call wants refreshed; then there is no answer yet.                  *)

Usable(q, a) == q.cache = "fresh" /\ a.force # {TRUE}
Reason(q, a) == IF q.job = "running" THEN q.reason
                ELSE IF a.force = {TRUE} THEN "forceRefresh"
                ELSE IF q.cache = "none" THEN "miss"
                ELSE "stale"
Started(q, a) == [verdict |-> "started", started |-> q.job # "running", reason |-> Reason(q, a)]
NotKept == Fails("STORAGE_ERROR")
Gone == Fails("NOT_FOUND")
(* Mutant: the ranking is shown however old it is.                         *)
AnswerAnyway(q, a, answer) ==
  IF ~RefreshFits(a) \/ ~ClientFits(a) THEN Unusable
  ELSE IF q.terminal = "failing" THEN NotKept
  ELSE IF q.cache = "none" THEN Started(q, a)
  ELSE answer
(* An answer on the ranking that is there, or the refresh.                 *)
OrRefresh(q, a, answer) ==
  IF ~RefreshFits(a) \/ ~ClientFits(a) THEN Unusable
  ELSE IF q.terminal = "failing" THEN NotKept
  ELSE IF ~Usable(q, a) THEN Started(q, a)
  ELSE answer
Reported(report) == IF report = Invalid THEN Unusable ELSE report

-----------------------------------------------------------------------------
(* The best-50 ranking.                                                    *)

CachedReport(read, o) ==
  IF read # {} THEN Reported(B50Report(Sole(read).entries, o))
  ELSE IF B50Report({}, o) = Invalid THEN Unusable ELSE Gone
CachedMember(read, qq, size) == IF read = {} THEN Gone ELSE B50MemberRank(Sole(read).entries, qq, size)

GroupB50Report(q, a) ==
  LET options == B50Options(a, "asc")
  IN IF ~GroupFits(a) \/ ~B50OptionsFit(a) \/ B50Report({}, options) = Invalid THEN Unusable
     ELSE OrRefresh(q, a, CachedReport(q.reads[1], options))

(* The options count only once there is something to show.                 *)
GroupB50JobStatus(q, a) ==
  LET options == B50Options(a, "asc")
  IN IF ~GroupFits(a) THEN Unusable
     ELSE IF q.terminal = "failing" THEN NotKept
  ELSE IF q.terminal = "held" THEN Fails("UNKNOWN_ERROR")
     ELSE IF q.job # "completed" THEN [verdict |-> "status", job |-> q.job, cache |-> q.cache]
     ELSE IF ~B50OptionsFit(a) THEN Unusable
     ELSE CachedReport(q.reads[1], options)

(* How many are around the member is looked at only when a rank is shown.  *)
GroupB50MemberRank(q, a) ==
  LET member == MemberFor(q, a)
      shown == IF ~ContextFits(a) THEN Unusable
               ELSE IF q.reads[1] # {} /\ ~OutputFits(a) THEN Unusable
               ELSE CachedMember(q.reads[1], RankedAs(member), Argued(a.context, 3))
  IN IF member.verdict = "failed" THEN member ELSE OrRefresh(q, a, shown)

(* The row is of one read, and the member's rank of another.               *)
GroupB50RankAt(q, a) ==
  Using(B50Options(a, "desc"), LAMBDA options :
  Using(CachedReport(q.reads[1], options), LAMBDA report :
  Using(Sole(a.rank), LAMBDA rank :
  Using(report.rows[rank].entry, LAMBDA entry :
  Using(CachedMember(q.reads[2], entry.qq, 0), LAMBDA member :
  Using(IF report.verdict = "failed" THEN report
        ELSE IF rank \notin DOMAIN report.rows THEN [verdict |-> "nobody", matched |-> report.matched]
        ELSE IF member.verdict = "failed" THEN member
        ELSE [verdict |-> "rank_at", entry |-> entry, matched |-> report.matched, member |-> member], LAMBDA shown :
    IF \/ ~GroupFits(a) \/ a.rank \subseteq {0} \/ ~a.order \subseteq DOMAIN OrderNames
       \/ ~OutputFits(a) \/ ~a.numbers
    THEN Unusable ELSE OrRefresh(q, a, shown)))))))

-----------------------------------------------------------------------------
(* The ranking on a song.                                                  *)

CachedSongs(read, Answer(_)) == IF read = {} THEN Gone ELSE Answer(Sole(read))

(* Without a song the ranking is only refreshed, or seen to be of today.   *)
GroupSongReport(catalog, q, a) ==
  Using(a.musicId # {} \/ \E t \in a.songQuery : Trim(t) # <<>>, LAMBDA asked :
  Using(SongFor(catalog, a), LAMBDA song :
  Using(SongOptions(song, a), LAMBDA options :
  LET answer(ranking) == SongReport(ranking.members, ranking.records, options)
  IN IF ~GroupFits(a) \/ ~SongFits(a) THEN Unusable
     ELSE IF ~asked THEN OrRefresh(q, a, [verdict |-> "status", job |-> q.job, cache |-> q.cache])
     ELSE IF song.verdict = "failed" THEN song
     ELSE IF ~SongOptionsFit(a) THEN Unusable
     ELSE IF Reversed(options.min, options.max) THEN Unusable
     ELSE OrRefresh(q, a, CachedSongs(q.reads[1], answer)))))

GroupSongMemberRank(catalog, q, a) ==
  Using(MemberFor(q, a), LAMBDA member :
  Using(SongFor(catalog, a), LAMBDA song :
  LET answer(ranking) == SongMemberRank(ranking.members, ranking.records, song, RankedAs(member), Argued(a.context, 3))
  IN IF member.verdict = "failed" THEN member
     ELSE IF ~SongFits(a) THEN Unusable
     ELSE IF song.verdict = "failed" THEN song
     ELSE OrRefresh(q, a, IF ContextFits(a) THEN CachedSongs(q.reads[1], answer) ELSE Unusable)))

-----------------------------------------------------------------------------
(* What is said of a ranking without showing it, and its clearing.         *)

CacheStatusOf(q, a) ==
  IF ~GroupFits(a) THEN Unusable
  ELSE IF q.terminal = "failing" THEN NotKept
  ELSE [verdict |-> "cache", exists |-> q.cache # "none", fresh |-> q.cache = "fresh"]
SongJobStatus(q, a) ==
  IF ~GroupFits(a) THEN Unusable
  ELSE IF q.terminal = "failing" THEN NotKept
  ELSE IF q.terminal = "held" THEN Fails("UNKNOWN_ERROR")
  ELSE [verdict |-> "status", job |-> q.job, cache |-> q.cache]
ClearRanking(q, a) ==
  IF GroupFits(a) THEN [verdict |-> "cleared", cleared |-> q.cache # "none"] ELSE Unusable

RankTool(catalog, q, a) ==
  IF ~KnownArguments(q.name, a) THEN Unusable
    ELSE CASE q.name = "group_b50_report" -> GroupB50Report(q, a)
    [] q.name = "group_b50_job_status" -> GroupB50JobStatus(q, a)
    [] q.name = "group_b50_member_rank" -> GroupB50MemberRank(q, a)
    [] q.name = "group_b50_rank_at" -> GroupB50RankAt(q, a)
    [] q.name = "group_song_score_report" -> GroupSongReport(catalog, q, a)
    [] q.name = "group_song_score_member_rank" -> GroupSongMemberRank(catalog, q, a)
    [] q.name = "group_song_score_job_status" -> SongJobStatus(q, a)
    [] q.name \in {"group_b50_cache_status", "group_song_score_cache_status"} -> CacheStatusOf(q, a)
    [] q.name \in {"clear_group_b50_cache", "clear_group_song_score_cache"} -> ClearRanking(q, a)
=============================================================================
