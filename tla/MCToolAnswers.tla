------------------------------ MODULE MCToolAnswers ------------------------------
(* Instances of ToolAnswers for TLC: what the catalogue, score and ranking *)
(* tools are asked, and what the catalogue, the providers and the kept     *)
(* rankings hold when they are; then calls of the MCP surface, starts of   *)
(* the process, sessions of the service tools and histories of the state   *)
(* database.                                                               *)
EXTENDS ToolPromises, TLC

-----------------------------------------------------------------------------
(* Documents of a catalogue and questions about it.                         *)
Said(level, constant, charter, version) ==
  [level |-> level, constant |-> constant, charter |-> charter, version |-> version, released |-> None]
LxnsChart(list, difficulty, said) == [list |-> list, buddy |-> FALSE, difficulty |-> difficulty] @@ said
Buddies(c) == [c EXCEPT !.buddy = TRUE]
Lxns(id, title, charts) ==
  [id |-> id, title |-> title, artist |-> <<1>>, genre |-> <<2>>, version |-> 25000, bpm |-> 150, charts |-> charts]
DfListing(id, type, title, charts) ==
  [id |-> id, type |-> type, title |-> title, artist |-> <<1, 2>>, genre |-> <<>>, version |-> <<3>>, bpm |-> 0,
   new |-> FALSE, charts |-> [i \in DOMAIN charts |-> [listed |-> TRUE] @@ charts[i]]]
Df(n, type, title, charts) == DfListing(Digits(n), type, title, charts)
Sheet(type, difficulty, internal, said) ==
  [type |-> type, difficulty |-> difficulty, internal |-> internal, regions |-> {"intl"}] @@ said
Dx(id, title, sheets) ==
  [id |-> id, title |-> title, artist |-> <<1>>, genre |-> <<2, 2>>, bpm |-> 151, new |-> FALSE, locked |-> TRUE,
   keywords |-> {<<4, 4>>}, sheets |-> sheets]
Official(id, title, sheets) ==
  [id |-> id, title |-> title, artist |-> <<1>>, genre |-> <<2>>, version |-> <<>>, sheets |-> sheets]

Hard == Said(<<27>>, 1300, <<5>>, <<>>)
Harder == Said(<<27, 30>>, 1370, <<5, 6>>, <<3>>)
Unrated == Said(<<>>, None, <<>>, <<>>)
Standard3 == LxnsChart("standard", 3, Hard)
Deluxe3 == LxnsChart("dx", 3, Harder)
TitleA == <<1>>
TitleB == <<11, 2>>
TitleC == <<3, 8>>

Documents(lxns, df, dx, official) ==
  [lxns |-> lxns, df |-> df, dx |-> dx, official |-> official,
   versions |-> [v \in {24000, 25000} |-> IF v = 24000 THEN <<1>> ELSE <<3>>], order |-> <<<<1>>, <<3>>>>,
   stats |-> {[id |-> 8, index |-> 3, level |-> <<27>>, anyLevel |-> FALSE, fit |-> 1310],
              [id |-> 10008, index |-> 3, level |-> <<28>>, anyLevel |-> FALSE, fit |-> 1390],
              [id |-> 9, index |-> 0, level |-> <<>>, anyLevel |-> TRUE, fit |-> 1200]},
   tags |-> {[title |-> TitleA, generation |-> "standard", difficulty |-> 3, tag |-> 1]},
   aliases |-> <<[song |-> <<28>>, names |-> <<<<9>>, <<19>>, <<0>>, <<2, 2>>>>],
                 [song |-> TitleC, names |-> <<<<1, 1>>, <<2, 2>>>>]>>,
   pinyin |-> <<[song |-> TitleB, names |-> <<<<7, 5>>>>]>>,
   plates |-> {}, custom |-> {},
   artists |-> <<<<<<1>>, <<6>>>>>>, charters |-> <<<<<<5>>, <<7>>>>>>]

FourUp(said) == <<Unrated, Unrated, Unrated, said>>
LxnsLists ==
  {<<>>, <<Lxns(8, TitleA, <<Standard3, Deluxe3>>)>>,
   <<Lxns(8, TitleA, <<Standard3>>), Lxns(9, TitleA, <<Deluxe3>>)>>,
   <<Lxns(8, TitleA, <<Deluxe3>>), Lxns(100008, TitleB, <<Buddies(LxnsChart("utage", 0, Hard))>>)>>,
   <<Lxns(8, TitleA, <<Standard3, Standard3>>)>>}
DfLists ==
  {<<>>, <<Df(8, "SD", TitleA, FourUp(Hard)), Df(10008, "DX", TitleA, FourUp(Harder))>>,
   <<Df(10008, "DX", TitleA, <<Hard>>)>>, <<Df(10007, "DX", TitleC, <<Hard>>), Df(9, "SD", TitleA, <<Harder>>)>>,
   <<Df(100008, "SD", TitleB, <<Hard>>)>>, <<Df(100008, "SD", TitleB, <<Hard, Harder>>)>>,
   <<Df(8, "SD", TitleA, <<Hard>>), Df(10008, "SD", TitleC, <<Hard>>)>>, <<DfListing(<<5>>, "SD", TitleA, <<Hard>>)>>,
   <<Df(8, "XX", TitleA, <<>>)>>, <<Df(8, "SD", TitleA, <<Hard, Hard, Hard, Hard, Hard, Hard>>)>>}
DxLists ==
  {<<>>, <<Dx(TitleA, TitleA, <<Sheet("std", 3, 8, Hard), Sheet("dx", 3, 10008, Harder), Sheet("dx", 4, 10008, Hard)>>)>>,
   <<Dx(TitleC, TitleC, <<Sheet("std", 3, None, Hard)>>), Dx(TitleB, TitleB, <<Sheet("utage", 0, 100008, Hard)>>)>>,
   <<Dx(<<1, 1>>, TitleA, <<Sheet("std", 0, None, Harder)>>), Dx(<<28>>, <<4>>, <<Sheet("dx", 2, None, Hard)>>)>>,
   <<Dx(TitleA, TitleA, <<Sheet("std", 3, 8, Hard), Sheet("dx", 3, 9, Harder)>>)>>, <<Dx(<<>>, TitleA, <<>>)>>}
OfficialLists == {<<>>, <<Official(8, TitleA, <<Sheet("std", 3, 8, Hard)>>)>>,
                  <<Official(50, TitleC, <<>>), Official(10008, TitleB, <<>>)>>}

Hardest == Said(<<28>>, 1400, <<5>>, <<3>>)
PlateList(name, ids) == [name |-> name, ids |-> ids]
Reference == [query |-> {}, title |-> {}, id |-> {}, generation |-> {}, levels |-> <<>>, constants |-> <<>>]
AskedFor(t) == [Reference EXCEPT !.query = {t}]
Defined(title, generation) ==
  [Reference EXCEPT !.title = {title}, !.generation = generation, !.levels = <<<<27>>, <<28>>>>, !.constants = <<1300, 1400>>]
CustomList(name, songs) == [name |-> name, songs |-> songs]
InVersion(sheets, version) == [i \in DOMAIN sheets |-> [sheets[i] EXCEPT !.version = version]]
(* Plates over listings that are wrong or may mean several.                 *)
PlateLoads ==
  {[tool |-> "load", docs |-> [Documents(l, d, x, <<>>) EXCEPT !.plates = {PlateList("zhen", <<8, 9>>)}, !.custom = c]] :
     l \in {<<>>, <<Lxns(8, TitleA, <<Standard3, Deluxe3>>)>>},
     d \in {<<Df(8, "SD", TitleA, <<>>)>>, <<Df(8, "SD", TitleA, <<Hard>>), Df(8, "SD", TitleB, <<Hard>>)>>,
            <<Df(8, "SD", TitleA, <<Hard>>), Df(10008, "DX", TitleA, <<Hard>>)>>,
            <<Df(8, "SD", TitleA, <<Hard>>), Df(9, "SD", TitleA, <<Hard>>)>>},
     x \in {<<>>, <<Dx(TitleA, TitleA, <<Sheet("std", 3, 8, Hardest), Sheet("dx", 3, 10008, Hardest)>>)>>},
     c \in {{CustomList("mine", <<r>>)} : r \in {AskedFor(<<1>>), [AskedFor(<<11>>) EXCEPT !.generation = {"deluxe"}],
                AskedFor(<<28>>), AskedFor(<<29>>), AskedFor(<<6>>), AskedFor(<<0>>), Defined(<<6>>, {"utage"}), Defined(<<6>>, {}),
                [Defined(<<6>>, {}) EXCEPT !.id = {<<28>>}], [Defined(<<6>>, {}) EXCEPT !.constants = <<1>>],
                [Defined(<<6>>, {}) EXCEPT !.id = {<<0>>}]}} \cup {{}}}

MCLoads ==
  {[tool |-> "load", docs |-> Documents(l, d, x, o)] : l \in LxnsLists, d \in DfLists, x \in DxLists, o \in OfficialLists}
  \cup PlateLoads

-----------------------------------------------------------------------------
(* The catalogues to be asked: one to be played, one of three sources, one *)
(* of a song that LXNS lists twice.                                        *)
WithPlates(docs) ==
  [docs EXCEPT
     !.plates = {PlateList("zhen", <<8, 10007, 77, 9>>), PlateList("wu", <<8, 10008, 9>>), PlateList("wu_remaster", <<8>>),
                 PlateList("xiong&hua", <<9>>)},
     !.custom = {CustomList("mine", <<AskedFor(<<28>>), [AskedFor(<<1>>) EXCEPT !.generation = {"deluxe"}],
                                      Defined(<<9>>, {}), Defined(<<9>>, {}), [Defined(<<3>>, {}) EXCEPT !.id = {Digits(10007)}]>>)}]
Playable ==
  Documents(<<Lxns(8, TitleA, <<Standard3, Deluxe3>>), Lxns(9, TitleB, <<Standard3>>)>>,
            <<Df(8, "SD", TitleA, FourUp(Hard) \o <<Hardest>>), Df(10008, "DX", TitleA, FourUp(Harder)),
              Df(9, "SD", TitleB, <<Hard, Harder>> \o <<Unrated, Harder, Hardest>>),
              Df(10007, "DX", TitleC, <<Hard, Hardest>>), Df(100008, "SD", <<4, 4>>, <<Hard>>)>>,
            <<Dx(TitleA, TitleA, InVersion(<<Sheet("std", 3, 8, Hard), Sheet("dx", 3, 10008, Harder)>>, <<3>>)
                                \o <<Sheet("dx", 2, 10008, Hard)>>),
              Dx(TitleC, TitleC, InVersion(<<Sheet("dx", 1, None, Hard), Sheet("dx", 2, None, Harder)>>, <<3>>))>>, <<>>)
MCPublished ==
  <<WithPlates(Playable),
    Documents(<<Lxns(8, TitleA, <<Standard3, Deluxe3>>), Lxns(7, TitleC, <<Standard3>>), Lxns(9, <<1, 2>>, <<Deluxe3>>)>>,
              <<Df(8, "SD", TitleA, FourUp(Harder)), Df(10008, "DX", TitleA, FourUp(Hard)), Df(10007, "DX", TitleC, <<Hard>>),
                Df(9, "SD", <<1, 2>>, <<Unrated>>), DfListing(<<5>>, "SD", <<5>>, <<Hard>>)>>,
              <<Dx(TitleA, TitleA, <<Sheet("std", 3, 8, Hard), Sheet("dx", 3, 10008, Harder)>>),
                Dx(TitleB, TitleB, <<[Sheet("dx", 3, None, Hard) EXCEPT !.released = 20]>>)>>,
              <<Official(50, TitleC, <<>>)>>),
    Documents(<<Lxns(8, TitleA, <<Standard3>>), Lxns(8, TitleA, <<Deluxe3>>), Lxns(9, TitleA, <<Standard3>>)>>,
              <<>>, <<>>, <<>>)>>
OfEither(tool) == {[tool |-> tool, of |-> i] : i \in 2..3}
With(questions, others) == {q @@ o : q \in questions, o \in others}

FromTo(min, max) == [min |-> min, max |-> max]
Filters ==
  {[Blank EXCEPT !.level = l, !.constant = c, !.generations = g] :
     l \in {{}, {<<27>>}, {<<>>}}, c \in {Open, FromTo(1310, 1400), FromTo(1300, 1300)}, g \in {{}, {"standard"}, {"deluxe"}}}
  \cup {[Blank EXCEPT !.charter = c, !.difficulties = d] : c \in {<<7>>, <<6>>}, d \in {{}, {3}, {0, 4}}}
  \cup {[Blank EXCEPT !.version = {<<v>>}] : v \in {<<3>>, <<22, 25>>, <<22, 20, 22, 25>>, <<22, 25, 10, 20>>, <<22, 24>>, <<0>>}}
  \cup {[Blank EXCEPT !.fit = FromTo(1300, 1310), !.fitExclusive = b, !.label = l] : b \in BOOLEAN, l \in {"any", "inflated"}}
  \cup {[Blank EXCEPT !.delta = FromTo(-20, 0)], [Blank EXCEPT !.label = "deflated"], [Blank EXCEPT !.tags = {1}],
        [Blank EXCEPT !.excluded = {1}], [Blank EXCEPT !.has = {"intl"}], [Blank EXCEPT !.missing = {"jp"}],
        [Blank EXCEPT !.new = {TRUE}], [Blank EXCEPT !.new = {FALSE}, !.newSource = "cn"], [Blank EXCEPT !.locked = {TRUE}],
        [Blank EXCEPT !.new = {FALSE}, !.newSource = "jp"], [Blank EXCEPT !.genre = <<12>>],
        [Blank EXCEPT !.artist = <<6>>], [Blank EXCEPT !.artist = <<2>>], [Blank EXCEPT !.after = {20}],
        [Blank EXCEPT !.before = {19}], [Blank EXCEPT !.bpm = FromTo(150, 150)], [Blank EXCEPT !.ids = FromTo(9, 10007)],
        [Blank EXCEPT !.bpm = FromTo(2, 1)], [Blank EXCEPT !.limit = {0}]}
SortKeys == {"relevance", "title", "id", "bpm", "constant", "fit", "delta"}
Sorts ==
  {[Blank EXCEPT !.sort = [key |-> k, direction |-> d], !.limit = n, !.query = t] :
     k \in SortKeys, d \in {"ascending", "descending"}, n \in {{}, {1}, {2}}, t \in {{}, {<<1>>}}}
Texts == {<<1>>, <<11>>, <<2>>, <<9>>, <<28>>, <<9, 4, 28>>, <<7, 5>>, <<7>>, <<5>>, <<4>>, <<0>>, <<6, 6>>, <<8, 10, 1>>,
          <<3>>, <<3, 8>>, <<1, 7>>, <<18, 3>>, <<2, 2>>, <<2, 2, 8>>}
Queries == Filters \cup Sorts \cup {[Blank EXCEPT !.query = {t}] : t \in Texts}

(* The forms an argument may be given in.                                  *)
Given(a) == [NoArguments EXCEPT !.filters.limit = a]
Arguments ==
  {[NoArguments EXCEPT !.ds = v, !.dsMin = lo, !.dsMax = hi] :
     v \in {{}, {<<1300, 1300>>}, {<<1310, 1390>>}}, lo \in {{}, {1310}}, hi \in {{}, {1300}}}
  \cup {[NoArguments EXCEPT !.fit = v, !.fitMax = hi] : v \in {{}, {<<1300, 1300>>}, {<<1310, 1310>>}}, hi \in {{}, {1310}}}
  \cup {[NoArguments EXCEPT !.bpm = {<<v, w>>}] : v \in {1500, 1505}, w \in {1500, 1509, 1515}}
  \cup {[NoArguments EXCEPT !.id = i, !.span = r] : i \in {{}, {Numeric(8)}, {Textual(<<5>>)}}, r \in {{}, {<<7, 9>>}}}
  \cup {Given({}), Given({0}), Given({1}), Given({9}), [NoArguments EXCEPT !.delta = {<<-100, 0>>}]}
LookQuestions ==
  With(OfEither("query"), {[query |-> q] : q \in Queries})
  \cup With(OfEither("search_songs"), {[items |-> <<a>>] : a \in Arguments})
  \cup With(OfEither("search_songs"), {[items |-> s] : s \in {<<>>, <<Given({1}), Given({0}), [NoArguments EXCEPT !.bpm = {<<2, 1>>}]>>}})
  \cup With(OfEither("list_songs"), [arguments : {NoArguments, Given({1})}, direction : {"ascending", "descending"}, limit : {0, 1, 9}])
  \cup With(OfEither("random"), [arguments : {NoArguments, [NoArguments EXCEPT !.ds = {<<1300, 1300>>}]}, count : {0, 1, 2, 9}])
  \cup With(OfEither("versions"), [needles : {{}, {<<3>>}, {<<13>>, <<1>>}}, limit : {{}, {1}, {0}}])

-----------------------------------------------------------------------------
(* Requests that mean one song, chart or player.                           *)
Request0 == [hintId |-> {}, hintTitle |-> {}, hintTypes |-> {}, musicId |-> {}, query |-> {}, type |-> {}]
InfoRequests ==
  {[Request0 EXCEPT !.query = {t}, !.type = g] : t \in Texts, g \in {{}, {"deluxe"}}}
  \cup {[Request0 EXCEPT !.musicId = {i}, !.type = g, !.hintTypes = h] :
          i \in {Numeric(n) : n \in {7, 8, 9, 50, 10007, 10008, 10009, 100008}} \cup {Textual(<<5>>), Textual(<<15>>)},
          g \in {{}, {"standard"}, {"deluxe"}}, h \in {{}, {"deluxe"}}}
  \cup {[Request0 EXCEPT !.hintId = i, !.hintTitle = t, !.query = {<<9>>}] :
          i \in {{}, {Numeric(9)}, {Numeric(77)}}, t \in {{}, {<<3, 8>>}, {<<8>>}}}
ResolveQuestions ==
  With(OfEither("music_info"), {[request |-> r] : r \in InfoRequests})
  \cup With(OfEither("score_by_song"),
         {[request |-> r] : r \in [query : Texts, difficulties : {{}, {3}}, generations : {{}, {"deluxe"}}, limit : {0, 1, 3}]})
  \cup With(OfEither("ranked_song"),
         {[request |-> r] : r \in [musicId : {{}} \cup {{n} : n \in {7, 8, 10007, 10008, 77}}, query : {{}, {<<1>>}, {<<4>>}}]})
  \cup With(OfEither("score_chart"),
         {[id |-> <<s, Numeric(n)>>, generations |-> g, difficulty |-> d] :
            s \in {"lxns", "diving_fish", "yuzu"}, n \in {7, 8, 9, 10007, 10008, 10009},
            g \in {{"standard"}, {"deluxe"}, {"utage1", "utage2"}}, d \in {0, 3}})

User(n, names, groups, preferred) == [qq |-> Digits(n), names |-> names, groups |-> groups, preferred |-> preferred]
UserSets ==
  {{User(n, {<<1>>}, g, h) : n \in 1..3} : g \in {{}, {{<<1, 2>>}}}, h \in {{}, {{<<12>>}}}}
  \cup {{User(1, {<<1>>}, {}, {}), User(2, {<<11, 2>>}, {{<<1>>}}, {}), User(3, {<<21>>}, {}, {{<<1, 2>>}})},
        {User(1, {<<1>>}, {}, {{<<1>>}}), User(2, {<<1>>}, {}, {}), User(3, {<<0>>}, {}, {})},
        {User(1, {<<1, 2>>}, {}, {}), User(2, {<<1, 2, 3>>}, {}, {{<<1, 4>>}})}}
PlayerQuestions ==
  {[tool |-> "player", users |-> u, target |-> [kind |-> k, target |-> t]] :
     u \in UserSets, k \in {"qq", "username", "alias"}, t \in {<<1>>, <<2>>, <<1, 2>>, <<21>>, <<7>>}}

-----------------------------------------------------------------------------
(* Players of the first catalogue: every chart is played in one of several *)
(* ways, or not at all, and one of them twice.                             *)
Charts ==
  {<<<<"lxns", Numeric(8)>>, g, d>> : g \in {"standard", "deluxe"}, d \in 0..4}
  \cup {<<<<"lxns", Numeric(9)>>, "standard", d>> : d \in 0..4}
  \cup {<<<<"diving_fish", Numeric(10007)>>, "deluxe", d>> : d \in 0..2}
  \cup {<<<<"diving_fish", Numeric(100008)>>, "utage1", Utage>>}
Ways ==
  <<[achievement |-> None, dx |-> 0, combo |-> None, sync |-> None], [achievement |-> 10050, dx |-> 5, combo |-> 4, sync |-> 5],
    [achievement |-> 9700, dx |-> 4, combo |-> None, sync |-> 1], [achievement |-> 9990, dx |-> 3, combo |-> 2, sync |-> 3]>>
Playing(key, way) == [chart |-> key, utage |-> key[3] = Utage, rating |-> None] @@ Ways[way]
Mixed(key, shift, n) == Playing(key, ((NumberOf(key[1]) + key[3] + shift) % n) + 1)
PlayedSets ==
  {{Mixed(key, shift, n) : key \in {k \in Charts : (k[3] + shift) % 4 # 0 \/ n = 3}} : shift \in 0..2, n \in {3, 4}}
  \cup {{}, {Playing(key, 2) : key \in Charts},
        {Playing(key, 4) : key \in Charts} \cup {Playing(key, 3) : key \in {k \in Charts : k[3] = 3}}}
Plated(name, server, goal) == [name |-> name, server |-> server, goal |-> goal]
OnePlate == {<<Plated(n, s, g)>> : n \in {"zhen", "ba", "hua", "xiong", "mine"}, s \in {"any", "cn", "jp"}, g \in {"sss", "ap", "fs"}}
Batches ==
  {<<>>, [i \in 1..4 |-> Plated("mine", "any", "s")],
   <<Plated("nobody", "any", "s"), Plated("mine", "custom", "eighty"), Plated("circle", "jp", "fc")>>,
   <<Plated("zhen", "any", "general"), Plated("xiong", "jp", "extreme"), Plated("wu", "any", "god")>>}
MCSizes == [page |-> 2, lines |-> 3, text |-> 1, done |-> 1, doneAll |-> 2, waiting |-> 2, batch |-> 3]
Player1(tool, played) == [tool |-> tool, of |-> 1, records |-> played]
MCCompletionQuestions ==
  {Player1(tool, r) @@ [specs |-> s, allowJp |-> TRUE, undrawn |-> {}] :
     tool \in {"plates", "plate_progress"}, r \in PlayedSets, s \in OnePlate}
  \cup {Player1(tool, r) @@ [specs |-> s, allowJp |-> b, undrawn |-> u] :
     tool \in {"plates", "plate_progress"}, r \in PlayedSets, s \in Batches, b \in BOOLEAN, u \in {{}, {1}}}
  \cup {Player1("level_progress", r) @@ [request |-> q, allowJp |-> TRUE] :
          r \in PlayedSets,
          q \in [level : {<<27>>, <<27, 30>>}, server : {"cn", "jp"}, goal : {"sss", "fc_plus", "fdx"},
                 category : {"overview", "completed", "unfinished", "not_started"}, page : 1..2]}
  \cup {Player1("level_progress", {}) @@ [request |-> q, allowJp |-> b] : b \in BOOLEAN,
          q \in [level : {<<27>>, <<0>>}, server : {"jp", "custom"}, goal : {"sss"}, category : {"overview", "completed"}, page : {0, 9}]}
  \cup {Player1("rating_table", r) @@ [request |-> q, allowJp |-> b] :
          r \in PlayedSets, b \in BOOLEAN, q \in [level : {<<27>>, <<1, 3>>}, mode : {"achievement", "combo", "sync"}]}

MCCatalogQuestions == MCLoads \cup LookQuestions \cup ResolveQuestions \cup PlayerQuestions

-----------------------------------------------------------------------------

(* What the providers are asked, and reply, for TLC.  A reply is varied in  *)
(* one respect at a time, its document among those of its endpoint.         *)
Reply(document) ==
  [sent |-> "sent", status |-> 200, declared |-> {}, chunks |-> <<1>>, broken |-> "no", json |-> {document},
   login |-> TRUE, etag |-> {}, type |-> "json"]
Tag(weak, quotes, fits) == [weak |-> weak, opaque |-> <<1>>, quotes |-> quotes, fits |-> fits]
Disturbed(r) ==
  {r, [r EXCEPT !.sent = "timeout"], [r EXCEPT !.declared = {1}], [r EXCEPT !.declared = {4}], [r EXCEPT !.chunks = <<>>, !.json = {}],
   [r EXCEPT !.chunks = <<1, 2>>], [r EXCEPT !.chunks = <<2, 2>>], [r EXCEPT !.declared = {3}, !.chunks = <<1>>, !.broken = "network"],
   [r EXCEPT !.broken = "timeout"], [r EXCEPT !.json = {}]}
  \cup {[r EXCEPT !.status = s] : s \in {204, 302, 304, 401, 404, 500}}
Tagged(r) ==
  {[r EXCEPT !.status = s, !.etag = {t}] : s \in {200, 304},
     t \in {Tag(TRUE, "both", TRUE), Tag(FALSE, "neither", TRUE), Tag(FALSE, "open", TRUE), Tag(FALSE, "both", FALSE)}}
  \cup {[r EXCEPT !.type = t] : t \in {"none", "plain", "html"}}

-----------------------------------------------------------------------------
(* Every operation of Diving-Fish, asked for well and less well.            *)
AllSecrets == [jwt |-> "present", import |-> "present", username |-> "present", password |-> "present",
               developer |-> "present"]
Ask(operation) ==
  [operation |-> operation, bodies |-> {}, confirm |-> operation, ownSecretHeader |-> FALSE, timeout |-> 1,
   coverId |-> {10008}, credentials |-> AllSecrets]
Askings(operation) ==
  LET r == Ask(operation)
  IN {r, [r EXCEPT !.confirm = "none"], [r EXCEPT !.confirm = "maimai_login"], [r EXCEPT !.bodies = {"body"}],
      [r EXCEPT !.bodies = {"raw"}], [r EXCEPT !.bodies = {"body", "raw"}], [r EXCEPT !.ownSecretHeader = TRUE],
      [r EXCEPT !.timeout = 0], [r EXCEPT !.timeout = 3001], [r EXCEPT !.coverId = {}], [r EXCEPT !.coverId = {-1}],
      [r EXCEPT !.coverId = {11001}]}
     \cup {[r EXCEPT !.credentials = [AllSecrets EXCEPT ![c] = s]] : c \in DOMAIN AllSecrets, s \in {"absent", "empty", "unfit"}}
     \cup {[r EXCEPT !.credentials = [c \in DOMAIN AllSecrets |-> IF c = kept THEN "present" ELSE "absent"]] : kept \in DOMAIN AllSecrets}
OperationQuestions ==
  {[tool |-> "operation", request |-> r, reply |-> Reply(Null)] : r \in UNION {Askings(o) : o \in DOMAIN Operations}}
  \cup {[tool |-> "operation", request |-> Ask(o), reply |-> r] :
          o \in {"maimai_login", "maimai_player_update_records_post"}, r \in Disturbed(Reply(Null))}

TokenBody(access, refresh) == Object({<<"access_token", Text(access)>>, <<"refreshToken", Text(refresh)>>})
AddTo(v, pairs) == Object(v.fields \cup pairs)
TokenBodies ==
  {TokenBody(<<1>>, <<2>>), TokenBody(<<>>, <<2>>), TokenBody(<<1>>, <<>>), TokenBody(<<1>>, <<7>>),
   Object({<<"access_token", Text(<<1>>)>>}), Object({<<"data", TokenBody(<<1>>, <<2>>)>>}), Null,
   AddTo(TokenBody(<<1>>, <<2>>), {<<"token_type", Text(<<0>>)>>, <<"scope", Text(<<4>>)>>, <<"expires_in", Num(0)>>}),
   AddTo(TokenBody(<<1>>, <<2>>), {<<"token_type", Text(<<3>>)>>, <<"expiresIn", Num(60)>>, <<"success", Flag(TRUE)>>}),
   AddTo(TokenBody(<<1>>, <<2>>), {<<"accessToken", Text(<<1>>)>>}), AddTo(TokenBody(<<1>>, <<2>>), {<<"expires_in", Text(<<3>>)>>}),
   AddTo(TokenBody(<<1>>, <<2>>), {<<"success", Flag(FALSE)>>}), AddTo(TokenBody(<<1>>, <<2>>), {<<"error", Text(InvalidGrant)>>}),
   Object({<<"error", Text(InvalidGrant)>>}), Object({<<"error", Text(<<8>>)>>}),
   AddTo(TokenBody(<<1>>, <<2>>), {<<"success", Null>>, <<"error", Null>>}),
   AddTo(TokenBody(<<1>>, <<2>>), {<<"error", Num(5)>>}), AddTo(TokenBody(<<1>>, <<2>>), {<<"success", Flag(FALSE)>>, <<"error", Num(5)>>}),
   Object({<<"data", Object({})>>, <<"access_token", Text(<<1>>)>>, <<"refresh_token", Text(<<7>>)>>})}
Secret(bytes, clean) == [value |-> <<7>>, bytes |-> bytes, clean |-> clean]
Grant(kind, secret, bytes, unreserved) ==
  [grant |-> kind, secret |-> secret, verifier |-> [bytes |-> bytes, unreserved |-> unreserved]]
Grants ==
  {Grant(k, Secret(n, TRUE), 43, TRUE) : k \in {"authorization_code", "refresh_token"}, n \in {0, 1, 2048, 2049, 16384, 16385}}
  \cup {Grant("refresh_token", Secret(1, FALSE), 43, TRUE), Grant("authorization_code", Secret(1, TRUE), 42, TRUE),
        Grant("authorization_code", Secret(1, TRUE), 129, TRUE), Grant("authorization_code", Secret(1, TRUE), 128, FALSE)}
TokenQuestions ==
  {[tool |-> "tokens", request |-> g, reply |-> Reply(TokenBody(<<1>>, <<2>>))] : g \in Grants}
  \cup {[tool |-> "tokens", request |-> Grant(k, Secret(1, TRUE), 43, TRUE), reply |-> [Reply(v) EXCEPT !.status = s]] :
          k \in {"authorization_code", "refresh_token"}, v \in TokenBodies, s \in {200, 400, 401}}
  \cup {[tool |-> "tokens", request |-> Grant("refresh_token", Secret(1, TRUE), 43, TRUE), reply |-> r] :
          r \in Disturbed(Reply(TokenBody(<<1>>, <<2>>)))}

-----------------------------------------------------------------------------
(* The documents of the catalogue sources.                                  *)
Things(n) == Array([i \in 1..n |-> Object({<<"name", Num(i)>>})])
Named(name, v) == Object({<<name, v>>})
SourceDocuments ==
  {Things(0), Things(2), Array(<<Null, Object({})>>), Null, Named("name", Num(1)), Object({})}
  \cup {Named(name, v) : name \in {"songs", "aliases", "content", "charts", "tags", "data", "shops"}, v \in {Things(2), Named("x", Things(1)), Null}}
  \cup {Object({<<"songs", Things(1)>>, <<"aliases", Things(2)>>}), Object({<<"charts", Named("8", Things(5))>>, <<"diff_data", Named("1", Null)>>}),
        Object({<<"charts", Named("8", Things(5))>>, <<"diff_data", Things(1)>>}),
        Object({<<"tags", Things(1)>>, <<"tagGroups", Null>>, <<"tagSongs", Things(3)>>}), Object({<<"tags", Null>>, <<"tagSongs", Null>>}),
        Object({<<"data", Object({<<"locations", Things(0)>>, <<"shops", Things(3)>>})>>})}
Endpoints == {SourceParts[s][i][1] : s \in {s \in DOMAIN SourceParts : s # "lxns"}, i \in {1}}
             \cup {"lxns_songs", "lxns_aliases", "dxdata_github"}
AllReply(r) == [e \in Endpoints |-> r]
Fetch(source, etag, replies) == [tool |-> "fetch", source |-> source, etag |-> etag, replies |-> replies]
Good(source) == IF source \in {"dxdata"} THEN Named("songs", Things(2))
                ELSE CASE source = "chart_stats" -> Named("charts", Named("8", Things(5)))
                       [] source = "dxrating_tags" -> Named("tags", Things(2))
                       [] source = "plate" -> Named("zhen", Things(2))
                       [] OTHER -> Things(2)
Sources == DOMAIN SourceParts
FetchQuestions ==
  {Fetch(s, {}, AllReply(Reply(v))) : s \in Sources, v \in SourceDocuments}
  \cup UNION {{Fetch(s, e, AllReply(r)) : e \in {{}, {<<TRUE, <<3>>>>}},
                 r \in Disturbed(Reply(Good(s))) \cup Tagged(Reply(Good(s)))} : s \in Sources}
  \cup UNION {{Fetch("lxns", {}, [AllReply(Reply(Good("lxns"))) EXCEPT ![e] = r]) :
                 r \in Disturbed(Reply(Things(1))) \cup {Reply(Null)}} : e \in {"lxns_songs", "lxns_aliases"}}
  \cup {Fetch("dxdata", {}, [AllReply(p) EXCEPT !["dxdata_github"] = g]) :
          p \in Disturbed(Reply(Good("dxdata"))) \cup {Reply(Null)}, g \in Disturbed(Reply(Named("songs", Things(1))))}

-----------------------------------------------------------------------------
(* The lists of NapCat.                                                     *)
Friend(id) == Object({<<"user_id", id>>, <<"nickname", Text(<<0, 1>>)>>})
Member(id, group) == Object({<<"userId", id>>, <<"card", Text(<<2>>)>>, <<"group_id", group>>})
Group(id) == Object({<<"groupId", id>>, <<"group_name", Null>>, <<"memberCount", Num(2)>>})
NapLists ==
  {Array(<<>>), Array(<<Friend(Num(5))>>), Array(<<Member(Num(5), Num(7)), Member(Text(<<26>>), Text(<<0, 27>>))>>),
   Array(<<Member(Num(5), Num(7)), Member(Num(6), Num(8))>>), Array(<<Friend(Text(<<9>>))>>), Array(<<Friend(Text(<<0>>))>>),
   Array(<<Group(Num(7)), Group(Text(<<9>>))>>), Array(<<Group(Text(<<-1>>))>>), Array(<<Null>>),
   Array(<<Object({<<"user_id", Num(5)>>, <<"userId", Num(5)>>})>>)}
Envelope(data, status, retcode) == Object({<<"data", data>>, <<"status", Text(status)>>, <<"retcode", Num(retcode)>>})
Envelopes ==
  {Envelope(l, <<11>>, 0) : l \in NapLists} \cup {Envelope(Array(<<>>), s, n) : s \in {<<1>>, <<0>>, <<3>>}, n \in {0, 5}}
  \cup {Named("data", Array(<<>>)), Named("data", Null), Object({}), Null, Object({<<"data", Array(<<>>)>>, <<"status", Num(1)>>})}
AccountQuestions ==
  {[tool |-> "accounts", list |-> l, reply |-> Reply(v)] : l \in {"friends", "groups"}, v \in NapLists \cup Envelopes}
  \cup {[tool |-> "accounts", list |-> "friends", reply |-> r] : r \in Disturbed(Reply(Array(<<Friend(Num(5))>>)))}
  \cup {[tool |-> "group_members", group |-> g, reply |-> Reply(v)] :
          g \in {<<0, 27>>, <<0>>, <<27, -1>>}, v \in NapLists \cup Envelopes}
  \cup {[tool |-> "group_members", group |-> <<27>>, reply |-> r] :
          r \in Disturbed(Reply(Array(<<Member(Num(5), Num(7))>>)))}

-----------------------------------------------------------------------------
(* A player's scores.  The first catalogue knows each of their numbers      *)
(* (10007 and 100008 only as Diving-Fish has them, 77 not at all).          *)
Scored(n, type, index, achievement) ==
  [is |-> "score", readable |-> TRUE, id |-> Numeric(n), type |-> type, label |-> None, index |-> index,
   constant |-> None, achievement |-> achievement, dx |-> 10, rating |-> None, version |-> {}]
First == Scored(8, "standard", 3, 9950)
Second == Scored(9, "standard", 4, 10050)
Third == [Scored(9, "standard", 0, 9700) EXCEPT !.rating = 7, !.version = {<<3>>}]
Deluxe == Scored(10008, "deluxe", 3, 10000)
Utages == [Scored(100008, "utage", 0, 11000) EXCEPT !.label = Utage]
ScoreVariants ==
  {Deluxe, Utages, Scored(8, "deluxe", 3, 10000), Scored(10007, "deluxe", 1, 9000), Scored(77, "standard", 3, 9000),
   Scored(8, "standard", 5, 9950), Scored(8, "other", 3, 9950), Scored(8, "standard", 3, 10101), Scored(8, "standard", 3, None),
   [First EXCEPT !.readable = FALSE], [First EXCEPT !.label = 4], [First EXCEPT !.label = 4, !.index = None],
   [First EXCEPT !.label = 6, !.index = None], [First EXCEPT !.id = Textual(<<28>>)], [First EXCEPT !.id = Textual(<<1>>)],
   [First EXCEPT !.constant = 1250], [First EXCEPT !.constant = 1250, !.achievement = None], [Third EXCEPT !.achievement = None]}
ScoreArrays == {Array(<<>>), Array(<<First, Second, Third>>)} \cup {Array(<<s>>) : s \in ScoreVariants}
               \cup {Array(<<Second, s>>) : s \in ScoreVariants \cup {Second, Null}}
PlayerOf(rating) == Object({<<"rating", rating>>, <<"name", Text(<<1>>)>>, <<"friend_code", Text([i \in 1..6 |-> 20])>>})
RecordDocuments ==
  ScoreArrays \cup {Named(n, a) : n \in {"records", "verlist", "scores", "x", "standard", "b15"}, a \in {Array(<<>>), Array(<<First, Second>>)}}
  \cup {Object({<<"records", Array(<<First>>)>>, <<"verlist", Array(<<Second>>)>>}), Object({<<"x", Array(<<First>>)>>, <<"y", Array(<<>>)>>}),
        Object({<<"records", Array(<<First>>)>>, <<"rating", Text(<<21>>)>>}), Object({<<"records", Array(<<First>>)>>, <<"rating", Text(<<9>>)>>}),
        Object({<<"player", PlayerOf(Num(5))>>, <<"scores", Array(<<First, Second>>)>>}), Object({<<"player", Num(5)>>, <<"scores", Array(<<First>>)>>}),
        Object({<<"player", Null>>, <<"scores", Null>>}), Object({<<"data", Array(<<Second>>)>>}), Object({<<"data", Null>>}),
        Object({<<"success", Flag(FALSE)>>, <<"data", Array(<<Second>>)>>}), Object({}), Null, First, Array(<<Null, Array(<<Second>>)>>)}
ListDocuments ==
  {Object({<<"charts", Object({<<"sd", a>>, <<"dx", Array(<<Deluxe>>)>>})>>, <<"standard", a>>, <<"dx", Array(<<Scored(8, "deluxe", 3, 10000)>>)>>,
           <<"player", p>>, <<"rating", Num(300)>>, <<"standard_total", t>>, <<"b15_total", Num(200)>>}) :
     a \in {Array(<<>>), Array(<<First, Second>>), Array(<<[First EXCEPT !.rating = 9], Third>>), Array(<<[First EXCEPT !.readable = FALSE]>>)},
     p \in {Null, PlayerOf(Num(5)), PlayerOf(Text(<<9>>))}, t \in {Num(0), Num(250)}}
  \cup {Object({<<"charts", Object({<<"sd", Array(<<First>>)>>})>>}), Named("charts", Null), Object({<<"sd", Array(<<>>)>>, <<"b35", Array(<<First>>)>>}),
        Object({<<"charts", Object({<<"sd", Array(<<First>>)>>, <<"dx", Array(<<>>)>>})>>, <<"rating", Num(0)>>}), Object({}), Null}

KeptRow(n, kind, difficulty) ==
  [key |-> <<<<"lxns", Numeric(n)>>, kind, difficulty>>, constant |-> 120, achievement |-> 9000, dx |-> 1, rating |-> 3, version |-> {}]
Snapshot(at, rows) == [source |-> "lxns", at |-> at, player |-> 4, rows |-> rows]
KeptSnapshots ==
  {{}, {Snapshot(3, {KeptRow(8, "standard", 3), KeptRow(9, "standard", 1)})}, {Snapshot(9, {KeptRow(9, "standard", 1)})}, {Snapshot(5, {})}}
Both(main) == [main |-> main, player |-> Reply(PlayerOf(Num(6)))]
Question0 ==
  [tool |-> "scores", of |-> 1, policy |-> "stored_preference", kind |-> "records", mode |-> "provider", lookup |-> "qq",
   explicit |-> {}, preference |-> {}, credentials |-> "present", stored |-> "absent",
   filter |-> [song |-> <<"lxns", Numeric(9)>>, generations |-> {}, difficulty |-> {}], raw |-> FALSE,
   grants |-> <<"granted", "granted">>, replies |-> <<Both(Reply(Null)), Both(Reply(Array(<<First>>)))>>, kept |-> {},
   now |-> 5, broken |-> {}]
Getting(r) == [Question0 EXCEPT !.replies[1].main = r]
ListsTwo == Reply(Array(<<First, Second, Third>>))
B50Reply == Reply(CHOOSE d \in ListDocuments : /\ FieldOf(d, {"standard"}) = {Array(<<First, Second>>)}
                                               /\ FieldOf(d, {"player"}) = {Null} /\ FieldOf(d, {"standard_total"}) = {Num(250)})
ScoreQuestions ==
  {[Getting(Reply(v)) EXCEPT !.explicit = s, !.kept = k] : v \in RecordDocuments, s \in {{"diving_fish"}, {"lxns"}}, k \in KeptSnapshots}
  \cup {[Getting(Reply(v)) EXCEPT !.explicit = {"lxns"}, !.kind = "song"] : v \in RecordDocuments}
  \cup {[Getting(Reply(v)) EXCEPT !.explicit = s, !.kind = "b50", !.replies[1].player = Reply(p)] :
          v \in ListDocuments, s \in {{"diving_fish"}, {"lxns"}}, p \in {Object({}), Object({<<"data", PlayerOf(Num(6))>>}), Num(1)}}
  (* who is asked                                                           *)
  \cup {[Getting(IF k = "b50" /\ m = "provider" THEN B50Reply ELSE ListsTwo) EXCEPT
           !.kind = k, !.mode = m, !.policy = p, !.lookup = l, !.explicit = e, !.preference = f, !.kept = s, !.broken = b] :
          k \in {"b50", "records", "song"}, m \in {"provider", "fit"}, p \in {"diving_fish_only", "stored_preference"},
          l \in {"qq", "username"}, e \in {{}, {"diving_fish"}, {"lxns"}, {"local"}, {"official_cn"}}, f \in {{}, {"lxns"}, {"local"}},
          s \in {{}, {Snapshot(3, {KeptRow(8, "standard", 3), KeptRow(9, "standard", 1)})}}, b \in {{}, {"preference"}, {"write"}, {"records"}}}
  (* with which of the secrets and tokens                                   *)
  \cup {[Getting(ListsTwo) EXCEPT !.credentials = c, !.stored = s, !.broken = b] :
          c \in {"absent", "present", "empty", "unfit"}, s \in {"absent", "present", "unfit"}, b \in {{}, {"token"}}}
  \cup UNION {{[Getting(r) EXCEPT !.explicit = {"lxns"}, !.kind = k, !.grants = <<g, h>>, !.replies[2].main = again] :
          r \in {ListsTwo, [ListsTwo EXCEPT !.status = 401], [ListsTwo EXCEPT !.status = 401, !.json = {}]},
          again \in {ListsTwo, [ListsTwo EXCEPT !.status = 401], [ListsTwo EXCEPT !.status = 500]},
          g \in {"granted", "unfit", "InvalidState"}, h \in {"granted", "AuthRequired", "Storage", "other"}} : k \in {"records", "song"}}
  (* which of a song's charts                                               *)
  \cup {[Getting(Reply(v)) EXCEPT !.kind = "song", !.explicit = s, !.kept = {Snapshot(3, {KeptRow(8, "standard", 3), KeptRow(9, "standard", 1)})},
           !.filter = [song |-> i, generations |-> g, difficulty |-> d]] :
          v \in {Array(<<First, Second, Third>>), Array(<<Deluxe, First>>)}, s \in {{"diving_fish"}, {"lxns"}, {"local"}},
          i \in {<<"lxns", Numeric(8)>>, <<"diving_fish", Numeric(10008)>>, <<"diving_fish", Numeric(10007)>>, <<"lxns", Numeric(77)>>, <<"lxns", Numeric(9)>>},
          g \in {{}, {"standard"}}, d \in {{}, {3}}}
  \cup {[Getting(r) EXCEPT !.explicit = s, !.kept = k, !.raw = w] :
          r \in Disturbed(ListsTwo), s \in {{"diving_fish"}, {"lxns"}}, k \in KeptSnapshots, w \in BOOLEAN}
  \cup {[Getting(B50Reply) EXCEPT !.kind = "b50", !.explicit = {"lxns"}, !.replies[1].player = r] : r \in Disturbed(Reply(PlayerOf(Num(6))))}
  \cup {[Getting(Reply(v)) EXCEPT !.of = n, !.explicit = s] : n \in 2..3, v \in ScoreArrays, s \in {{"diving_fish"}, {"lxns"}}}

MCProviderQuestions == OperationQuestions \cup TokenQuestions \cup FetchQuestions \cup AccountQuestions \cup ScoreQuestions

-----------------------------------------------------------------------------
(* What the score tools are asked, for TLC: one argument at a time, and the *)
(* arguments that decide together.                                          *)
Display0 ==
  [topN |-> 50, section |-> "b50", sortBy |-> "default", order |-> "desc", level |-> {}, difficulty |-> {},
   label |-> "any", metadata |-> FALSE, constant |-> Open, achievement |-> Open, rating |-> Open, fit |-> Open,
   delta |-> Open]
Args0 ==
  [qq |-> {<<21>>}, username |-> {}, target |-> {}, source |-> {}, timeout |-> {}, raw |-> FALSE,
   display |-> Display0, musicId |-> {}, songQuery |-> {}, difficulty |-> {}, songType |-> {}, searchLimit |-> {},
   token |-> {}, level |-> {}, versions |-> {}, plate |-> {}, server |-> {}]
Ask0 == [Getting(B50Reply) EXCEPT !.kept = {Snapshot(3, {KeptRow(8, "standard", 3), KeptRow(9, "standard", 1)})}, !.stored = "present"]
AllPlays == Array(<<First, Second, Third, Deluxe, Scored(8, "standard", 1, 9000), Scored(10007, "deluxe", 1, 9000), Scored(10007, "deluxe", 0, 9000)>>)
AskAll == [Ask0 EXCEPT !.replies[1].main = Reply(AllPlays)]
Put(tool, ask, a) ==
  [tool |-> tool, of |-> 1, users |-> {}, batch |-> FALSE, public |-> FALSE, computed |-> FALSE, late |-> FALSE,
   ask |-> ask, args |-> a]

-----------------------------------------------------------------------------
Displays ==
  {[Display0 EXCEPT !.topN = n, !.section = s, !.sortBy = k, !.order = o] :
     n \in {0, 1, 2, 50}, s \in {"all", "old", "b15", "both"}, k \in DisplayKeys, o \in {"asc", "desc"}}
  \cup {[Display0 EXCEPT !.topN = n, !.difficulty = d, !.label = l] : n \in {1, 50}, d \in {{}, {3}, {4}}, l \in {"any", "inflated", "deflated"}}
  \cup {[Display0 EXCEPT !.topN = n, !.level = l] : n \in {1, 50}, l \in {{<<27>>}, {<<0>>}, {<<0, 28, 30>>}}}
  \cup {[Display0 EXCEPT !.topN = n, ![name] = r] : n \in {1, 50}, name \in RangeNames, r \in {FromTo(0, 120), FromTo(130, Far), FromTo(1, 0)}}
  \cup {[Display0 EXCEPT !.topN = 51], [Display0 EXCEPT !.section = "b20"], [Display0 EXCEPT !.sortBy = "dx"], [Display0 EXCEPT !.metadata = TRUE]}
Namings ==
  {[Args0 EXCEPT !.qq = q, !.username = u, !.target = t] :
     q \in {{}, {<<21>>}, {<<0>>}, {<<1>>}}, u \in {{}, {<<1>>}}, t \in {{}, {<<1>>}, {<<1, 2>>}, {<<2>>}}}
Sourced ==
  {[Args0 EXCEPT !.source = s, !.timeout = t, !.raw = w] :
     s \in {{}, {"sy"}, {"local"}, {"lxns"}, {"other"}}, t \in {{}, {999}, {30000}}, w \in BOOLEAN}
B50Questions ==
  {[Put("query_b50", Ask0, [Args0 EXCEPT !.display = d]) EXCEPT !.computed = FALSE] : d \in Displays}
  \cup {[Put("query_b50", AskAll, [Args0 EXCEPT !.display = d]) EXCEPT !.computed = TRUE] : d \in {x \in Displays : x.order = "desc"}}
  \cup {[Put("query_b50", Ask0, a) EXCEPT !.users = u] : a \in Namings, u \in UserSets}
  \cup {[Put("query_b50", Ask0, a) EXCEPT !.public = p, !.late = l] : a \in Sourced, p \in BOOLEAN, l \in BOOLEAN}

BatchQuestions ==
  {[tool |-> "b50_batch", of |-> 1, qqs |-> qqs, delay |-> 0, concurrency |-> n, args |-> [Args0 EXCEPT !.display.topN = t],
    metadata |-> m, summaries |-> s, late |-> l, asks |-> <<Ask0, Getting(Reply(Null)), [Ask0 EXCEPT !.now = 6]>>, public |-> FALSE] :
     qqs \in {<<>>, <<<<21>>, <<22>>, <<23>>>>, <<<<21>>, <<0, 21>>>>, <<<<21>>, <<1>>>>}, n \in {0, 1, 2, 3}, t \in {1, 50},
     m \in {{}, {FALSE}}, s \in BOOLEAN, l \in {{}, {1}}}

SongArguments ==
  {[Args0 EXCEPT !.musicId = m, !.songQuery = q] :
     m \in {{}, {<<28>>}, {<<29>>}, {<<9, 4, 28>>}, {Digits(10008)}, {Digits(10007)}, {<<20>>}, {<<1>>}},
     q \in {{}, {<<1>>}, {<<2>>}, {<<3>>}, {<<29>>}, {<<6>>}, {<<0>>}}}
  \cup {[Args0 EXCEPT !.musicId = {<<28>>}, !.difficulty = d, !.songType = t] :
          d \in {{}, {3}, {1}}, t \in {{}, {"sd"}, {"dx"}, {"utage"}, {"other"}}}
  \cup {[Args0 EXCEPT !.songQuery = {<<2>>}, !.searchLimit = {n}] : n \in {0, 1, 20, 21}}
  \cup {[Args0 EXCEPT !.musicId = {<<29>>}, !.token = {t}, !.timeout = {1}] : t \in {<<1>>, <<0>>}}
SongQuestions ==
  {Put("song_score", AskAll, [a EXCEPT !.source = s]) : a \in SongArguments, s \in {{}, {"lxns"}, {"local"}}}
  \cup {[Put("song_score", AskAll, a) EXCEPT !.late = TRUE, !.public = TRUE] : a \in SongArguments}
RecordQuestions ==
  {Put("player_records", AskAll, [Args0 EXCEPT !.plate = {p}, !.server = s, !.musicId = m]) :
     p \in {"zhen", "wu", "ba", "circle", "xiong", "nothing"}, s \in {{}, {"cn"}, {"jp"}, {"us"}}, m \in {{}, {<<28>>}}}
  \cup {[Put("player_records", [AskAll EXCEPT !.policy = "diving_fish_only"], [Args0 EXCEPT !.plate = {"circle"}, !.server = s]) EXCEPT !.public = TRUE] :
          s \in {{}, {"cn"}, {"jp"}}}
  \cup {Put("player_records", AskAll, [Args0 EXCEPT !.level = l, !.versions = v, !.source = s, !.server = {"cn"}]) :
          l \in {{}, {<<27>>}, {<<0, 28>>}, {<<0>>}}, v \in {{}, {{}}, {{<<3>>}}, {{<<3>>, <<5>>}}}, s \in {{}, {"lxns"}, {"local"}}}

-----------------------------------------------------------------------------
Api(operation) ==
  [operation |-> operation, confirm |-> {operation}, body |-> "none", raw |-> {}, timeout |-> {}, secretHeader |-> FALSE,
   songId |-> {8}, jwt |-> {<<1>>}, import |-> {<<1>>}, developer |-> {}, query |-> "plain"]
ApiArguments ==
  UNION {{Api(o), [Api(o) EXCEPT !.confirm = {}], [Api(o) EXCEPT !.jwt = {}, !.import = {}]} : o \in DOMAIN Operations}
  \cup {[Api("maimai_login") EXCEPT !.body = b, !.raw = w] : b \in {"login", "other", "none"}, w \in {{}, {"raw"}}}
  \cup {[Api("maimai_player_update_records_post") EXCEPT !.body = b, !.raw = w, !.confirm = c, !.timeout = t] :
          b \in {"other", "none"}, w \in {{}, {"raw"}}, c \in {{}, {"maimai_login"}, {"maimai_player_update_records_post"}, {"unknown"}},
          t \in {{}, {999}}}
  \cup {[Api("maimai_dev_player_records_get") EXCEPT !.developer = d, !.query = q] : d \in {{}, {<<1>>}, {<<0>>}, {<<30>>}}, q \in {"plain", "nested"}}
  \cup {[Api("maimai_login") EXCEPT !.operation = "unknown"]}
ApiQuestions ==
  {[tool |-> "diving_fish_api", args |-> a, bound |-> b, late |-> l, reply |-> Reply(Null)] :
     a \in ApiArguments, b \in {"absent", "present", "broken"}, l \in BOOLEAN}
  \cup [tool : {"list_apis"}, args : [game : {{}, {"maimaidxprober"}, {"chunithmprober"}, {"other"}},
                                      auth : {{}, {"login"}, {"none"}, {"other"}}, mutating : BOOLEAN]]

MCScoreToolQuestions == B50Questions \cup BatchQuestions \cup SongQuestions \cup RecordQuestions \cup ApiQuestions

-----------------------------------------------------------------------------
(* Rankings and what is asked about them, for TLC.                         *)
(* Rankings: members with equal and absent ratings, one outside the group, *)
(* with up to three charts of a song.                                      *)
Entry(qq, rating, fit) == [qq |-> qq, rating |-> rating, fit |-> fit, name |-> qq % 2]
Entries4 == {Entry(1, 20, 3), Entry(2, 30, 3), Entry(3, 30, 1), Entry(4, 40, None)}
EntrySets ==
  {{}, {Entry(1, 30, 2)}, {Entry(1, 30, None), Entry(2, 30, 2), Entry(3, None, 4), Entry(4, 40, 0)},
   Entries4}
Windows == [limit : {None, 0, 1, 9}, start : {None}, end : {None, 2}]
           \cup [limit : {None}, start : {0, 1, 2}, end : {1, 3, 9}]
Bounds == [min : {None, 20, 30}, max : {None, 30}]
Orders == {"ascending", "descending"}
RecordOf(qq, difficulty, deluxe, rating, achievement) ==
  [qq |-> qq, song |-> 1, chart |-> 0, difficulty |-> difficulty, deluxe |-> deluxe,
   rating |-> rating, achievement |-> achievement, dx |-> 7 - achievement]
RecordSets ==
  {{}, {RecordOf(1, 3, "no", 10, 5)},
   {RecordOf(1, 3, "no", 10, 5), RecordOf(1, 4, "yes", 12, 4), RecordOf(2, 3, "no", 9, 6),
    RecordOf(3, 3, "yes", None, 5), RecordOf(9, 3, "no", 15, 6)},
   {RecordOf(1, 4, "no", 10, 5), RecordOf(2, 4, "yes", 12, 4), RecordOf(3, 4, "no", 9, None),
    RecordOf(3, 4, "yes", 8, 6)}}
SongTargets == [song : {1}, difficulty : {None, 3, 4}, deluxe : {"any", "yes"}]

-----------------------------------------------------------------------------
(* The tools: one argument at a time and those that decide together, on a  *)
(* ranking of today, of yesterday or none, which may be gone or another    *)
(* one when it is read.                                                    *)
RankArguments ==
  [group |-> {<<1>>}, qq |-> {}, target |-> {}, force |-> {}, sortBy |-> {}, order |-> {}, output |-> {},
   numbers |-> TRUE, min |-> {}, max |-> {}, fitMin |-> {}, fitMax |-> {}, limit |-> {}, start |-> {}, end |-> {},
   context |-> {}, rank |-> {}, batchSize |-> {}, delay |-> {}, concurrency |-> {}, maxMembers |-> {},
   baseUrl |-> {}, timeout |-> {}, musicId |-> {}, songQuery |-> {}, searchLimit |-> {}, difficulty |-> {}, songType |-> {}]
Put0(name, a) ==
  [tool |-> "rank_tool", of |-> 1, name |-> name, args |-> a, cache |-> "fresh", job |-> "completed", reason |-> "miss",
   terminal |-> "none", users |-> {}, memberships |-> {}, reads |-> <<{}, {}>>]
Of(entries) == {[entries |-> entries]}
EntryReads ==
  {<<Of(e), Of(e)>> : e \in EntrySets}
  \cup {<<{}, {}>>, <<Of(Entries4), {}>>, <<Of(Entries4), Of({Entry(1, 20, 3)})>>,
        <<Of(Entries4), Of({Entry(2, 50, 1), Entry(3, 10, 1)})>>}
SongReads == {<<{[members |-> 1..3, records |-> r]}, {}>> : r \in RecordSets} \cup {<<{}, {}>>}
Situations(q) ==
  {[q EXCEPT !.cache = c, !.job = j, !.reason = r, !.terminal = t] :
     c \in {"none", "stale", "fresh"}, j \in {"none", "running", "completed", "failed"},
     r \in {"miss", "forceRefresh"}, t \in {"none", "held", "failing"}}
Refreshing ==
  {[RankArguments EXCEPT !.force = f] : f \in {{TRUE}, {FALSE}}}
  \cup {[RankArguments EXCEPT !.batchSize = {n}] : n \in {0, 100, 101}} \cup {[RankArguments EXCEPT !.delay = {n}] : n \in {0, 10001}}
  \cup {[RankArguments EXCEPT !.concurrency = {n}, !.maxMembers = m] : n \in {0, 20, 21}, m \in {{}, {0}, {1}}}
  \cup {[RankArguments EXCEPT !.baseUrl = u, !.timeout = t] : u \in {{}, {"http"}, {"ftp"}}, t \in {{}, {999}, {1000}, {60001}}}
Windowed ==
  {[RankArguments EXCEPT !.limit = l, !.start = s, !.end = e] : l \in {{}, {0}, {1}}, s \in {{}, {1}, {2}}, e \in {{}, {1}, {3}}}
Filtered ==
  {[RankArguments EXCEPT !.sortBy = s, !.order = o, !.min = m] :
     s \in {{}, {"rating"}, {"fitIndex"}, {"ra"}, {"dxScore"}}, o \in {{}, {"asc"}, {"desc"}, {"down"}}, m \in {{}, {30}}}
  \cup {[RankArguments EXCEPT !.max = {x}, !.min = {m}, !.fitMin = f, !.fitMax = g] :
          x \in {20, 30}, m \in {30}, f \in {{}, {1}, {3}}, g \in {{}, {2}}}
  \cup {[RankArguments EXCEPT !.output = {o}, !.numbers = n] : o \in {"detail", "other"}, n \in BOOLEAN}
AllArguments == {RankArguments, [RankArguments EXCEPT !.group = {}], [RankArguments EXCEPT !.group = {<<0>>}]} \cup Refreshing
Ranked0(name, arguments, reads) == {[Put0(name, a) EXCEPT !.reads = r] : a \in arguments, r \in reads}
NamedMembers == {[RankArguments EXCEPT !.qq = q, !.target = t, !.group = g] :
              q \in {{}, {<<21>>}, {<<0, 22>>}, {<<1>>}}, t \in {{}, {<<1>>}, {<<1, 2>>}, {<<2>>}, {<<23>>}, {<<-1>>}},
              g \in {{}, {<<1>>}, {<<0>>}}}
Belongs == {{}, {[qq |-> <<21>>, group |-> <<1>>], [qq |-> <<22>>, group |-> <<1>>], [qq |-> <<22>>, group |-> <<2>>],
                 [qq |-> <<23>>, group |-> <<2>>]}}
SongArgs == {[RankArguments EXCEPT !.musicId = m, !.songQuery = q] :
               m \in {{}, {<<28>>}, {<<9, 4, 28>>}, {<<14, 19, 28>>}, {Digits(10008)}, {<<20>>}, {<<1>>}, {<<14>>}},
               q \in {{}, {<<1>>}, {<<3>>}, {<<0>>}}}
            \cup {[RankArguments EXCEPT !.musicId = {<<28>>}, !.difficulty = d, !.songType = t, !.searchLimit = l] :
                    d \in {{}, {3}, {5}}, t \in {{}, {"DX"}, {"Standard"}, {"dx"}}, l \in {{}, {0}, {20}}}
OfSong(arguments) == {[a EXCEPT !.musicId = {<<28>>}] : a \in arguments}
Suited(name) ==
  CASE name \in {"group_b50_member_rank", "group_song_score_member_rank"} ->
         {[RankArguments EXCEPT !.qq = {<<21>>}, !.musicId = m, !.context = {c}] :
            m \in IF name = "group_b50_member_rank" THEN {{}} ELSE {{}, {<<28>>}}, c \in {3, 11}}
    [] name = "group_b50_rank_at" -> {[RankArguments EXCEPT !.rank = {1}]}
    [] name = "group_song_score_report" -> {[RankArguments EXCEPT !.musicId = m] : m \in {{}, {<<28>>}}}
    [] OTHER -> {RankArguments}
MCRankToolQuestions ==
  UNION {Ranked0("group_b50_report", Windowed \cup Filtered, EntryReads),
         Ranked0("group_b50_report", AllArguments, {<<Of(Entries4), {}>>}),
         Ranked0("group_b50_rank_at", {[a EXCEPT !.rank = {2}] : a \in {x \in Filtered : x.sortBy = {}} \cup AllArguments}
                   \cup {[RankArguments EXCEPT !.rank = r, !.order = o] : r \in {{}, {0}, {1}, {3}, {4}}, o \in {{}, {"asc"}}}, EntryReads),
         Ranked0("group_b50_member_rank", {[RankArguments EXCEPT !.qq = {<<22>>}, !.context = c, !.output = o] :
                   c \in {{}, {0}, {10}, {11}}, o \in {{}, {"other"}}}, EntryReads),
         {[Put0("group_b50_member_rank", a) EXCEPT !.users = u, !.memberships = m, !.reads = <<Of(Entries4), {}>>] :
            a \in NamedMembers, u \in UserSets, m \in Belongs},
         Ranked0("group_song_score_report", SongArgs \cup OfSong(Windowed \cup Filtered), SongReads),
         Ranked0("group_song_score_member_rank", {[a EXCEPT !.qq = {<<21>>}] : a \in SongArgs}, SongReads),
         Ranked0("group_song_score_report", OfSong(AllArguments), {<<{}, {}>>})}
  \cup UNION {UNION {Situations([Put0(name, [a EXCEPT !.force = f]) EXCEPT !.reads = r]) :
                        a \in Suited(name), f \in IF "force" \in RankToolFields[name] THEN {{}, {TRUE}} ELSE {{}},
                        r \in {<<Of(Entries4), Of(Entries4)>>, <<{}, {}>>}} :
                 name \in {"group_b50_report", "group_b50_job_status", "group_b50_rank_at", "group_b50_member_rank",
                           "group_b50_cache_status", "clear_group_b50_cache"}}
  \cup UNION {UNION {Situations([Put0(name, a) EXCEPT !.reads = <<{[members |-> 1..3, records |-> {}]}, {}>>]) : a \in Suited(name)} :
                 name \in {"group_song_score_report", "group_song_score_member_rank", "group_song_score_job_status"}}

-----------------------------------------------------------------------------
(* The fragments of the public contract (contracts/public), in the order   *)
(* in which they are composed.                                             *)

Fragment(names) == [text |-> "contract", named |-> TRUE, versioned |-> TRUE,
                    tools |-> [i \in DOMAIN names |-> [name |-> names[i], described |-> TRUE, object |-> TRUE]]]
CatalogFragment ==
  Fragment(<<"search_maimai_songs", "batch_search_maimai_songs", "add_maimai_alias", "delete_maimai_alias",
    "list_maimai_aliases", "refresh_maimai_sources", "refresh_maimai_sources_job_status", "random_maimai_songs",
    "today_maimai", "list_maimai_songs_by_id", "list_maimai_versions", "score_counts", "find_score_combinations">>)
IdentityFragment ==
  Fragment(<<"refresh_qq_identity_cache", "qq_identity_cache_status", "qq_identity_job_status", "resolve_qq_identity",
    "get_qq_identity">>)
OAuthFragment ==
  Fragment(<<"maimai_lxns_oauth_url", "maimai_lxns_bind_code", "maimai_lxns_prepare_poke", "maimai_lxns_confirm_poke",
    "maimai_lxns_status", "maimai_lxns_unbind">>)
RankingFragment ==
  Fragment(<<"group_b50_report", "group_b50_cache_status", "group_b50_job_status", "group_b50_member_rank",
    "group_b50_rank_at", "clear_group_b50_cache", "group_song_score_report", "group_song_score_member_rank",
    "group_song_score_cache_status", "group_song_score_job_status", "clear_group_song_score_cache">>)
RenderFragment ==
  Fragment(<<"render_maimai_b50", "render_maimai_plate", "render_maimai_plate_batch", "render_maimai_rating",
    "render_maimai_progress", "render_maimai_music_info", "render_maimai_music_info_batch", "render_maimai_music_score",
    "render_maimai_music_global_stats", "render_maimai_rise_score", "render_maimai_score_list",
    "render_maimai_rating_ranking", "render_maimai_plate_progress", "render_maimai_plate_progress_batch">>)
SongScoreFragment == Fragment(<<"query_maimai_score_by_song">>)
ScoreFragment ==
  Fragment(<<"query_b50", "query_b50_batch", "query_computed_b50", "query_maimai_song_score",
    "query_maimai_player_records", "list_diving_fish_apis", "diving_fish_api", "bind_developer_token",
    "developer_token_status", "clear_developer_token">>)
PublicFragments == <<CatalogFragment, IdentityFragment, OAuthFragment, RankingFragment, RenderFragment,
                     SongScoreFragment, ScoreFragment>>
(* The same after a slip of whoever edits them.                            *)
Slipped == <<
  [PublicFragments EXCEPT ![6] = RenderFragment], [PublicFragments EXCEPT ![3].tools[2].name = "query_b50"],
  [PublicFragments EXCEPT ![2].text = "blank"], [PublicFragments EXCEPT ![5].text = "unreadable"],
  [PublicFragments EXCEPT ![4].tools[1].name = ""], [PublicFragments EXCEPT ![4].tools[11].described = FALSE],
  [PublicFragments EXCEPT ![7].tools[3].object = FALSE], [PublicFragments EXCEPT ![1].versioned = FALSE],
  [PublicFragments EXCEPT ![6].tools = <<>>], SubSeq(PublicFragments, 1, 6), <<>>>>
MCSurfaces == <<PublicFragments>> \o Slipped

NoArgs == [f \in {} |-> 0]
MCSurfaceQuestions ==
  [tool : {"surface"}, surface : {1}, outcome : {"done", "refused", "malformed"},
   name : {"switch_score_source", "query_chart_history", "nothing"}
          \cup UNION {{t.name : t \in ToSet(f.tools)} : f \in ToSet(PublicFragments)}]
  \cup [tool : {"surface"}, surface : DOMAIN MCSurfaces, outcome : {"done"}, name : {"query_b50", "render_maimai_b50"}]

-----------------------------------------------------------------------------
(* The environment of a process: one or two variables at a time.           *)

Says(x) == [kind |-> "says", says |-> {x}]
Mute(kind) == [kind |-> kind, says |-> {}]
HomePath == <<"~", "maimai">>
AbsolutePath == <<"/", "srv">>
MuteKinds == {Mute("empty"), Mute("blank"), Mute("unreadable"), Mute("control")}
UrlOf(scheme, host, parts) == Says([scheme |-> scheme, host |-> host, parts |-> parts])
Urls == {UrlOf(s, h, {}) : s \in {"http", "https", "ftp"}, h \in {"none", "loopback", "other"}}
        \cup {UrlOf("https", "other", {"fragment"}), UrlOf("https", "other", {"query"})}
PathNames == {"MAIMAI_DATA_DIR", "MAIMAI_STATE_DB", "MAIMAIDX_STATIC_DIR", "B50_IMAGE_STATIC_DIR", "B50_IMAGE_STYLE_CONFIG"}
UrlNames == {"NAPCAT_BASE_URL", "LXNS_OAUTH_REDIRECT_URI", "LXNS_API_BASE_URL", "DIVING_FISH_API_BASE_URL",
             "DIVING_FISH_COVER_BASE_URL"}
Offset(readable, h, m) == Says([readable |-> readable, hours |-> h, minutes |-> m])
Environments ==
  {NoArgs, "HOME" :> Says(<<"/", "home">>) @@ "MAIMAI_STATE_DB" :> Says(HomePath)}
  \cup {n :> v : n \in PathNames, v \in {Says(AbsolutePath), Says(<<"data">>), Says(HomePath), Mute("empty")}}
  \cup {n :> v : n \in UrlNames, v \in Urls \cup MuteKinds}
  \cup {"MAIMAI_BINDINGS_DB_PATH" :> v @@ "MAIMAI_LOCAL_DB_PATH" :> w :
          v \in {Says(AbsolutePath), Mute("empty")}, w \in {Says(AbsolutePath), Says(<<"old.db">>)}}
  \cup {"MAIMAI_BINDINGS_DB_PATH" :> Says(AbsolutePath) @@ "MAIMAI_LOCAL_DB_PATH" :> Says(<<"old.db">>)
        @@ "MAIMAI_STATE_DB" :> Says(<<"new.db">>)}
  \cup {"NAPCAT_TIMEOUT_MS" :> v : v \in {Says(0), Says(-1), Says(5000)} \cup MuteKinds}
  \cup {"NAPCAT_ACCESS_TOKEN" :> v @@ "NAPCAT_TOKEN" :> w :
          v \in {Says("clean"), Says("spaced"), Mute("blank"), Mute("empty")}, w \in {Says("other"), Mute("control")}}
  \cup {"LXNS_OAUTH_CLIENT_ID" :> v @@ "LXNS_CLIENT_ID" :> w :
          v \in MuteKinds \cup {Says("clean")}, w \in {Says("other"), Mute("unreadable")}}
  \cup {"MAIMAI_DISPLAY_UTC_OFFSET" :> v : v \in {Offset(TRUE, 26, 0), Offset(TRUE, -25, 59), Offset(TRUE, 8, 60), Offset(FALSE, 0, 0)}}
  \cup {"MAIMAI_DISPLAY_UTC_OFFSET" :> Mute("blank") @@ "MCP_DISPLAY_TZ" :> Offset(TRUE, 9, 0)}
Disk == {<<"/", "cwd", "data">>, <<"/", "cwd", "maimaidx_render_mcp", "static">>, AbsolutePath}
FailingSteps == {{}, {"font", "state"}, {"catalog_refresh"}, {"jobs"}, {"job_store", "jobs"}, {"stdio", "identity"},
                 {"rankings", "catalog_jobs"}, {"stdio"}}
MCStartQuestions ==
  [tool : {"start"}, surface : {1}, env : Environments, dirs : {Disk}, failing : {{}}]
  \cup [tool : {"start"}, surface : {1, 2, 11}, env : {NoArgs, "LXNS_CLIENT_ID" :> Says("clean")},
        dirs : {Disk, {}, Disk \ {<<"/", "cwd", "maimaidx_render_mcp", "static">>}}, failing : FailingSteps]

-----------------------------------------------------------------------------
(* Sessions: two players, two places; a link, what is done with it, what   *)
(* follows, and a look at the end, with little or much time between them.  *)

Anna == <<21, 22>>
Berta == <<23>>
Home == [adapterId |-> <<1>>, conversation |-> <<2>>, bot |-> <<3>>]
HomeAgain == [adapterId |-> <<0, 1>>, adapter |-> <<9>>, groupId |-> <<0>>, conversation |-> <<2, 0>>, botQq |-> <<3>>]
Away == [adapter |-> <<1>>, groupId |-> <<4>>, botQq |-> <<3>>]
As(tool, args) == [tool |-> tool, grant |-> "fits", args |-> args]
Alone(text) == [blank |-> Trim(text) = <<>>, fits |-> TRUE, pairs |-> <<<<"code", text>>>>]
Callback(pairs) == [blank |-> FALSE, fits |-> TRUE, pairs |-> pairs]
WithState(state) == Callback(<<<<"code", <<5>>>>, <<"state", state>>>>)
FirstState == <<31, 101>>
OwnState == <<31, 5>>
Me == [qq |-> Anna]
AlsoMe == [subject |-> Anna, qq |-> <<0>>]
LinkCalls ==
  {As("maimai_lxns_oauth_url", Me), As("maimai_lxns_oauth_url", AlsoMe @@ Home),
   As("maimai_lxns_oauth_url", Me @@ HomeAgain @@ [state |-> OwnState]),
   As("maimai_lxns_oauth_url", Me @@ Home @@ [ttlSeconds |-> 25])}
Code(text) == [code |-> Alone(text)]
UseCalls ==
  {As("maimai_lxns_bind_code", Me @@ Code(<<5>>)), As("maimai_lxns_bind_code", AlsoMe @@ Home @@ [code |-> WithState(FirstState)]),
   As("maimai_lxns_prepare_poke", Me @@ Home @@ Code(<<0, 5>>)),
   As("maimai_lxns_prepare_poke", Me @@ HomeAgain @@ [code |-> WithState(FirstState), ttlSeconds |-> 15]),
   As("maimai_lxns_prepare_poke", AlsoMe @@ Home @@ Code(<<5>>) @@ [state |-> OwnState]),
   [As("maimai_lxns_prepare_poke", Me @@ Home @@ Code(<<5>>)) EXCEPT !.grant = "long"],
   [As("maimai_lxns_bind_code", Me @@ Home @@ Code(<<5>>)) EXCEPT !.grant = "INVALID_GRANT"],
   As("maimai_lxns_oauth_url", [qq |-> Berta] @@ Home)}
NextCalls ==
  {As("maimai_lxns_confirm_poke", Me @@ Home), As("maimai_lxns_confirm_poke", AlsoMe @@ Away),
   As("maimai_lxns_confirm_poke", [qq |-> Berta] @@ Home), As("maimai_lxns_bind_code", Me @@ Home @@ Code(<<5>>)),
   As("maimai_lxns_unbind", AlsoMe), As("maimai_lxns_oauth_url", Me @@ Home), As("maimai_lxns_status", [subject |-> Anna])}
LastCalls == {As("maimai_lxns_status", AlsoMe), As("maimai_lxns_confirm_poke", Me @@ HomeAgain),
              As("maimai_lxns_bind_code", AlsoMe @@ Home @@ Code(<<5>>))}
Timed(calls, times) == [i \in DOMAIN calls |-> [at |-> times[i]] @@ calls[i]]
Clocks == {<<0, 5, 10, 15>>, <<0, 5, 10, 700>>, <<0, 5, 30, 40>>}
Held(calls, clients) == [tool : {"session"}, calls : calls, client : clients]
OAuthSessions ==
  Held({Timed(<<a, b, c, d>>, t) : a \in LinkCalls, b \in UseCalls, c \in NextCalls, d \in LastCalls, t \in Clocks}, {TRUE})
(* One call that does not fit, and calls without a client.                 *)
OddCodes ==
  {Alone(<<0>>), Alone(<<5, 0, 6>>), Callback(<<>>), Callback(<<<<"error", <<1>>>>, <<"code", <<5>>>>>>),
   Callback([i \in 1..9 |-> <<"more", <<1>>>>]), Callback(<<<<"code", <<5>>>>, <<"code", <<5>>>>>>),
   WithState(<<31, 0, 5>>), WithState(<<31, 6>>), [Alone(<<5>>) EXCEPT !.fits = FALSE]}
OddCalls ==
  {As(t, a) : t \in {"maimai_lxns_oauth_url", "maimai_lxns_confirm_poke", "maimai_lxns_status", "maimai_lxns_unbind"},
     a \in {NoArgs, [qq |-> <<-1>>], [qq |-> Anna, adapter |-> <<-1>>], [qq |-> Anna, timeout |-> 3]}}
  \cup {As("maimai_lxns_oauth_url", Me @@ a) :
          a \in {[state |-> Anna], [state |-> <<5, 0, 5>>], [ttlSeconds |-> 0], [ttlSeconds |-> 3601], [scopes |-> "unfit"]}}
  \cup {As("maimai_lxns_oauth_url", [qq |-> <<1, 2, 3, 4, 5>>, state |-> <<6, 1, 2, 3, 4, 5>>])}
  \cup {As(t, Me @@ Home @@ [code |-> k]) : t \in {"maimai_lxns_bind_code", "maimai_lxns_prepare_poke"}, k \in OddCodes}
  \cup {As("maimai_lxns_prepare_poke", Me @@ [adapter |-> <<1>>] @@ Code(<<5>>)),
        As("maimai_lxns_prepare_poke", Me @@ Home @@ Code(<<5>>) @@ [ttlSeconds |-> 1801])}
OddSessions ==
  Held({Timed(<<As("maimai_lxns_oauth_url", Me @@ Home), c, As("maimai_lxns_status", Me)>>, <<0, 5, 10>>) : c \in OddCalls}, BOOLEAN)
SettingCalls ==
  {As("bind_developer_token", [developerToken |-> <<5>>]), As("bind_developer_token", [developerToken |-> <<0>>]),
   As("clear_developer_token", NoArgs), As("developer_token_status", NoArgs),
   As("switch_score_source", [qq |-> Anna, source |-> "cache"]), As("switch_b50_source", [qq |-> <<0, 23>>]),
   As("switch_b50_source", [qq |-> Anna, source |-> "luoxue"])}
SettingSessions == Held({Timed(<<a, b, c>>, <<0, 5, 10>>) : a \in SettingCalls, b \in SettingCalls, c \in SettingCalls}, {FALSE})
MCSessionQuestions == OAuthSessions \cup OddSessions \cup SettingSessions

-----------------------------------------------------------------------------
(* QQ identities: snapshots fetched around the hour of the reset.          *)

Snapshots == {{}, {{}}, {{37}}, {{38}}, {{60}}, {{14}}}
Jobs == {{}, {[status |-> "running", progress |-> {1}]}, {[status |-> "failed", progress |-> {3}]}}
Identify(name, args) == [tool |-> "identity", name |-> name, args |-> args]
IdentityStates == [now : {37, 38, 61, 62}, hour : {14}, fetched : Snapshots, job : Jobs]
MCIdentityQuestions ==
  {s @@ Identify(n, a) @@ [users |-> {}] : s \in IdentityStates, n \in {"refresh_qq_identity_cache", "qq_identity_cache_status"},
     a \in {NoArgs, [forceRefresh |-> TRUE]}}
  \cup {s @@ Identify("refresh_qq_identity_cache", a) @@ [users |-> {}] :
          s \in [now : {61}, hour : {14}, fetched : {{{60}}, {}}, job : {{}}],
          a \in {[timeoutMs |-> 999], [timeoutMs |-> 60000], [groupDelayMs |-> 10001], [maxGroups |-> 0], [napcatBaseUrl |-> "other"],
                 [napcatBaseUrl |-> "blank"]}}
  \cup {[now |-> 61, hour |-> 14, fetched |-> {{60}}, job |-> {}, users |-> u] @@ Identify(n, a) :
          u \in UserSets, n \in {"resolve_qq_identity", "get_qq_identity"},
          a \in {[query |-> t] : t \in {<<1>>, <<12, 0>>, <<21>>, <<0>>, <<7>>}}
                \cup {[qq |-> <<21>>], [qq |-> <<29, 0>>, groupId |-> <<1>>], [qq |-> <<1>>], [qq |-> <<21>>, groupId |-> <<0>>],
                      [query |-> <<1>>, maxResults |-> 1], [query |-> <<1>>, maxResults |-> 21]}}
Known2(qq, groups) == [qq |-> qq, groups |-> groups]
MCMemberQuestions ==
  [tool : {"members"}, now : {61, 62}, hour : {14}, fetched : {{}, {{60}}}, group : {<<1>>}, most : {{}, {1}, {9}},
   snapshot : {<<>>, <<Known2(<<21>>, {<<2>>})>>, <<Known2(<<21>>, {<<1>>}), Known2(<<22>>, {<<2>>}), Known2(<<23>>, {<<1>>, <<2>>})>>},
   remote : {{}, {<<>>}, {<<<<22>>, <<21>>>>}, {<<<<22>>, <<1>>>>}}]
MCServiceQuestions == MCSurfaceQuestions \cup MCStartQuestions \cup MCSessionQuestions \cup MCIdentityQuestions \cup MCMemberQuestions

-----------------------------------------------------------------------------
(* State files: new ones, those of earlier programs, and what is done to   *)
(* them by processes that may die while they open one.                     *)

OldRow(title, type, level, source, achieved, at) ==
  [qq |-> 1, title |-> title, type |-> type, level |-> level, source |-> source, song |-> {8}, own |-> {}, rawId |-> {},
   achievement |-> achieved, fc |-> {"fc"}, raw |-> {"object"}, payload |-> {}, at |-> at]
OldPlay(title, achieved, at) == OldRow(title, "SD", 3, "diving_fish", achieved, at)
OldRows ==
  {<<>>,
   <<OldPlay("a", {9999999}, 2), OldPlay("b", {10000004}, 3), OldPlay("c", {10000005}, 3), OldRow("a", "DX", 3, "divingfish", {}, 1)>>,
   <<OldPlay("a", {10100005}, 2), OldPlay("b", {}, 1), OldRow("b", "UTAGE", 3, "lxns", {1}, 9), OldRow("b", "SD", 5, "lxns", {1}, 9),
     OldRow("b", "SD", 0, "other", {1}, 9), [OldPlay("c", {1}, 1) EXCEPT !.song = {}], [OldPlay("d", {1}, 1) EXCEPT !.song = {-1}]>>,
   <<[OldRow("a", "ST", 4, "sdgb_1", {1}, 2) EXCEPT !.own = {8}, !.rawId = {9}],
     [OldRow("b", "ST", 4, "official_cn", {2}, 1) EXCEPT !.rawId = {8}],
     [OldRow("c", "ST", 4, "official_cn", {2}, 1) EXCEPT !.own = {-5}, !.rawId = {9}]>>,
   <<[OldPlay("a", {5}, 1) EXCEPT !.fc = {"odd"}], [OldPlay("b", {5}, 0) EXCEPT !.song = {9}, !.raw = {"broken"}],
     [OldPlay("c", {5}, 0) EXCEPT !.song = {7}, !.qq = 2, !.raw = {}]>>}
Kept1(value, difficulty, achieved, kind, units, at) ==
  [qq |-> 1, namespace |-> "diving_fish", value |-> value, generation |-> IF difficulty = "utage" THEN "utage" ELSE "standard",
   difficulty |-> difficulty, achievement |-> achieved, kind |-> kind, units |-> units, fc |-> {}, raw |-> {},
   payload |-> {"object"}, source |-> "diving_fish", at |-> at]
Fine(value, at) == Kept1(value, "master", {9990000}, {"ranked"}, {999000}, at)
OldRecord == {Kept1(4, "master", {1}, {}, {1535756}, 7)}
OldRecords ==
  {{}, {Kept1(8, "master", {5000000}, {}, {}, 7), Kept1(4, "master", {15357560}, {}, {1535756}, 7),
        Kept1(5, "utage", {15357560}, {}, {}, 7), Kept1(6, "master", {}, {}, {}, 7)}}

OAuthRecord == [object |-> TRUE, access |-> {<<1, 0>>}, refresh |-> {}, client |-> {}, expires |-> {}, bound |-> {}, updated |-> {}]
Binding(qq, oauth) == [qq |-> qq, oauth |-> oauth, at |-> {4}]
OldBindings ==
  {{}, {<<Binding(<<21>>, {OAuthRecord}), Binding(<<22>>, {[OAuthRecord EXCEPT !.refresh = {<<0>>}, !.client = {<<2>>}, !.bound = {3}]}),
          Binding(<<23>>, {}), Binding(<<24>>, {[OAuthRecord EXCEPT !.access = {<<0>>}]})>>},
   {<<Binding(<<1>>, {OAuthRecord}), Binding(<<21>>, {[OAuthRecord EXCEPT !.object = FALSE]}),
      [Binding(<<25>>, {[OAuthRecord EXCEPT !.refresh = {<<1, -1, 1>>}]}) EXCEPT !.at = {}],
      [Binding(<<26>>, {[OAuthRecord EXCEPT !.client = {<<-1>>}]}) EXCEPT !.at = {}]>>}}

NewToken == [subject |-> <<21>>, generation |-> 0, access |-> <<9>>, refresh |-> <<9>>, client |-> <<9>>,
             expires |-> {}, bound |-> 8, updated |-> 8]
NewFile == [file |-> "absent", parent |-> "absent", mode |-> "open", tables |-> {}, columns |-> {}, nullable |-> FALSE,
            legacy |-> <<>>, records |-> {}, bindings |-> {}, tokens |-> {}, migrations |-> {}, snapshots |-> {}, profiles |-> {},
            users |-> {}, groups |-> {}, members |-> {}, meta |-> {}]
OldFile(rows, records, bindings) ==
  [NewFile EXCEPT !.file = "file", !.parent = "open", !.legacy = rows, !.records = records, !.bindings = bindings,
                  !.tables = {"local_profiles", "local_records"} \cup IF records = {} THEN {} ELSE {"player_records_v3", "identity"}]
OldFiles ==
  {NewFile, [OldFile(<<>>, {}, {<<Binding(<<21>>, {OAuthRecord})>>}) EXCEPT !.tables = @ \cup {"oauth"}, !.tokens = {NewToken}]}
  \cup {OldFile(r, s, {}) : r \in OldRows, s \in OldRecords} \cup {OldFile(<<>>, {}, b) : b \in OldBindings}

Opens(steps, appears) == [do |-> "open", upto |-> steps, appears |-> appears, now |-> 6]
AllSteps == Len(OpeningSteps)
Opened1 == Opens(AllSteps, "absent")
Died == {<<Opens(k, "absent")>> : k \in 0..AllSteps - 1}
Deaths == {<<>>} \cup Died \cup {c \o d : c \in {<<Opens(k, "absent")>> : k \in {3, 12, 19}}, d \in Died}

Profile(source, at) == [qq |-> 1, source |-> source, at |-> at]
ScoreEvents ==
  {[do |-> "scores", profile |-> Profile("diving_fish", at), records |-> r] :
     at \in {3, 5}, r \in {<<>>, <<Fine(8, 5)>>, <<Fine(8, 3), Fine(9, 3)>>, <<Fine(8, 3), Fine(8, 3)>>}}
  \cup {[do |-> "scores", profile |-> Profile("lxns", 5), records |-> <<Fine(8, 5)>>],
        [do |-> "scores", profile |-> Profile("diving_fish", 3), records |-> <<Kept1(8, "master", {1}, {"utage"}, {0}, 3)>>],
        [do |-> "record", record |-> Fine(8, 4)],
        [do |-> "record", record |-> [Fine(8, 5) EXCEPT !.units = {1}]], [do |-> "record", record |-> Kept1(8, "utage", {1}, {"ranked"}, {0}, 5)]}
ScoreReads ==
  <<[do |-> "read", qq |-> 1], [do |-> "snapshot", qq |-> 1, source |-> "diving_fish", fresh |-> 0],
    [do |-> "snapshot", qq |-> 1, source |-> "diving_fish", fresh |-> 4], [do |-> "snapshot", qq |-> 1, source |-> "lxns", fresh |-> 0]>>
BindEvents == {[do |-> "bind", token |-> NewToken], [do |-> "unbind", subject |-> <<21>>], [do |-> "unbind", subject |-> <<22>>]}
FriendOf(qq, name) == [qq |-> qq, name |-> name]
MemberOf(qq, name, card) == [qq |-> qq, name |-> name, card |-> card]
GroupOf(group, name, members) == [group |-> group, name |-> name, members |-> members]
IdentityEvents ==
  {[do |-> "identities", at |-> 7, friends |-> f, groups |-> g] :
     f \in {<<>>, <<FriendOf(1, {<<1, 0>>}), FriendOf(2, {})>>, <<FriendOf(1, {<<0>>}), FriendOf(1, {<<2>>})>>},
     g \in {<<>>, <<GroupOf(6, {<<3>>}, <<MemberOf(1, {<<4>>}, {<<0>>}), MemberOf(3, {}, {})>>), GroupOf(5, {<<3>>}, <<MemberOf(1, {}, {<<5>>})>>),
                    GroupOf(7, {}, <<MemberOf(1, {}, {})>>)>>,
            <<GroupOf(5, {}, <<MemberOf(1, {}, {})>>), GroupOf(5, {}, <<MemberOf(2, {}, {})>>)>>, <<GroupOf(5, {}, <<MemberOf(2, {}, {}), MemberOf(2, {}, {})>>)>>}}
  \cup {[do |-> "fish", qq |-> qq, name |-> n, user |-> {}, rating |-> r, at |-> 8] : qq \in {1, 3, 4}, n \in {{}, {<<6>>}}, r \in {{}, {5}}}
IdentityReads == <<[do |-> "users", qq |-> {}, preferred |-> {5}], [do |-> "users", qq |-> {1}, preferred |-> {7}]>>

Script(db, events) == [tool |-> "state", db |-> db, events |-> events]
LegacyFile == OldFile(<<OldPlay("a", {9999999}, 4)>>, {}, {<<Binding(<<21>>, {OAuthRecord})>>})
MCStateQuestions ==
  {Script(f, d \o <<Opened1, [do |-> "read", qq |-> 1], Opened1>>) : f \in OldFiles, d \in {<<>>} \cup Died}
  \cup {Script(LegacyFile, d \o <<Opened1>>) : d \in Deaths}
  \cup {Script([NewFile EXCEPT !.file = k, !.parent = p], <<Opens(s, a), Opened1>>) :
          k \in {"absent", "file", "link", "dir"}, p \in {"open", "private"}, s \in {0, AllSteps}, a \in {"absent", "file", "link"}}
  \cup {Script(f, <<Opened1, e, g>> \o ScoreReads \o <<Opened1>> \o ScoreReads) :
          f \in {NewFile, LegacyFile, OldFile(<<>>, OldRecord, {})}, e \in ScoreEvents, g \in ScoreEvents}
  \cup {Script(LegacyFile, <<Opened1, e, d, Opened1, g, Opened1>>) : e \in BindEvents, g \in BindEvents, d \in UNION {ToSet(x) : x \in Died}}
  \cup {Script(f, <<Opened1, e, g>> \o IdentityReads) : f \in {NewFile, OldFile(<<>>, OldRecord, {})}, e \in IdentityEvents, g \in IdentityEvents}

-----------------------------------------------------------------------------
Notes(tap, touch, hold, slide, break) ==
  [tap |-> tap, touch |-> touch, hold |-> hold, slide |-> slide, break |-> break]
Nothing == [p \in {} |-> 0]
Only(t, j, n) == <<t, j>> :> n

(* Up to two judged notes.                                                  *)
OneNote == {[NoCounts EXCEPT ![t][j] = 1] : t \in NoteType, j \in Judgment}
TwoNotes == {[c EXCEPT ![t][j] = @ + 1] : c \in OneNote, t \in {"tap", "break"}, j \in Judgment}
MCCountQuestions ==
  [tool : {"count"}, counts : {NoCounts} \cup OneNote \cup TwoNotes, digits : {1},
   includeZero : BOOLEAN]
  \cup [tool : {"count"}, counts : {NoCounts}, digits : {0, 9}, includeZero : {FALSE}]

(* The requests without a constraint that the others vary.                  *)
Request(totals, mode, target) ==
  [tool |-> "search", totals |-> totals, mode |-> mode, target |-> target,
   allowed |-> [t \in NoteType |-> Judgment], disallowed |-> [t \in NoteType |-> {}],
   fixed |-> Nothing, minimum |-> Nothing, maximum |-> Nothing, noMissGood |-> FALSE,
   cap |-> -1, maxSolutions |-> 3, maxStates |-> 1000, digits |-> 1, display |-> "floor"]
Raw(min, max) == [kind |-> "raw", min |-> min, max |-> max]
Percent(n) == Ratio(n, 10)
At(n) == [kind |-> "at", at |-> Percent(n)]
Between(m, n) == [kind |-> "range", from |-> Percent(m), to |-> Percent(n)]

Unconstrained ==
  {Request(n, "oldscore", g) : n \in {Notes(0, 0, 0, 0, 2), Notes(2, 0, 0, 0, 1)},
     g \in {Raw(5100, 5100), Raw(2600, 3000), Raw(0, 0), Raw(100, 200)}}
  \cup {Request(n, "dxscore", Raw(k, k)) : n \in {Notes(2, 0, 0, 0, 0), Notes(1, 1, 0, 0, 1)}, k \in 0..7}
  \cup {Request(n, mode, Raw(k, k + 50)) : n \in {Notes(1, 0, 1, 0, 1), Notes(0, 0, 0, 1, 1)},
          mode \in {"base", "break_bonus"}, k \in {0, 50, 3500}}
  \cup {Request(n, mode, g) : n \in {Notes(2, 0, 0, 0, 1), Notes(0, 1, 0, 1, 1), Notes(1, 0, 1, 0, 0)},
          mode \in Achievement,
          g \in {At(1000), At(1005), At(1010), At(857), At(1100), Between(900, 1005), Between(0, 10000)}}

Constrained(q) ==
  {[q EXCEPT !.noMissGood = TRUE], [q EXCEPT !.cap = 0], [q EXCEPT !.cap = 1],
   [q EXCEPT !.cap = 1, !.minimum = Only("break", "critical", 2)],
   [q EXCEPT !.noMissGood = TRUE, !.fixed = Only("tap", "miss", 0)],
   [q EXCEPT !.fixed = Only("tap", "critical", 1)],
   [q EXCEPT !.fixed = Only("tap", "critical", 1), !.minimum = Only("tap", "critical", 2)],
   [q EXCEPT !.minimum = Only("tap", "great_mid", 1) @@ Only("break", "perfect_low", 1)],
   [q EXCEPT !.maximum = Only("tap", "critical", 0) @@ Only("break", "critical", 1)],
   [q EXCEPT !.minimum = Only("break", "good", 2), !.maximum = Only("break", "good", 1)],
   [q EXCEPT !.allowed["break"] = Perfect \cup {"critical"}, !.allowed["tap"] = Great \cup {"critical"}],
   [q EXCEPT !.disallowed["tap"] = Judgment],
   [q EXCEPT !.allowed["tap"] = {"critical"}, !.maximum = Only("tap", "critical", 1)]}
Limited(q) ==
  {[q EXCEPT !.maxSolutions = 0], [q EXCEPT !.maxSolutions = 1], [q EXCEPT !.maxSolutions = 50],
   [q EXCEPT !.maxStates = 0], [q EXCEPT !.maxStates = 3], [q EXCEPT !.digits = 0],
   [q EXCEPT !.digits = 2], [q EXCEPT !.display = "half_up"], [q EXCEPT !.display = "exact"]}
Misput ==
  {Request(Notes(1, 0, 0, 0, 0), "base", At(1000)), Request(Notes(1, 0, 0, 0, 0), "dxacc", Raw(0, 1)),
   Request(Notes(0, 0, 0, 0, 0), "base", Raw(0, 1)), Request(Notes(1, 0, 0, 0, 0), "base", Raw(2, 1)),
   Request(Notes(1, 0, 0, 0, 0), "oldacc", Between(1000, 900)),
   Request(Notes(1, 0, 0, 0, 0), "dxacc", [kind |-> "open"])}

(* Enough notes for two judgments to be over their maximum at once.         *)
Crowded ==
  {[Request(Notes(4, 0, 0, 0, 0), mode, Raw(0, 1600)) EXCEPT
      !.maximum = Only("tap", "great_low", 1) @@ Only("tap", "great_mid", 1),
      !.allowed["tap"] = Great \cup {"critical"}] : mode \in {"oldscore", "dxscore"}}

MCSearchQuestions ==
  Misput \cup Crowded \cup Unconstrained \cup UNION {Constrained(q) \cup Limited(q) : q \in Unconstrained}

-----------------------------------------------------------------------------
(* Ratings: two charts of either section, one of them a chart without a    *)
(* constant, and an utage.                                                 *)
ChartOf(constant, fit, current, utage) ==
  [constant |-> constant, fit |-> fit, current |-> current, utage |-> utage]
MCCatalog ==
  <<ChartOf(115, 117, FALSE, FALSE), ChartOf(130, 126, FALSE, FALSE), ChartOf(136, None, FALSE, FALSE),
    ChartOf(129, 129, TRUE, FALSE), ChartOf(135, 136, TRUE, FALSE), ChartOf(None, None, FALSE, TRUE)>>
Score(chart, achievement) ==
  [chart |-> chart, achievement |-> achievement, dx |-> achievement % 7, constant |-> None, rating |-> None]
Provided(chart, rating) == [Score(chart, None) EXCEPT !.rating = rating]

Plays(chart, achieved) == IF achieved = None THEN {} ELSE {Score(chart, achieved)}
ScoreSets ==
  {Plays(1, a) \cup Plays(2, b) \cup Plays(4, c) \cup Plays(5, d) :
     a \in {None, 9700, 9930, 10050}, b \in {None, 9899, 9930, 10070},
     c \in {None, 9950, 10050}, d \in {None, 9700, 10000}}
  \cup {{Score(1, 9900), Score(1, 9700), Provided(3, 300), Score(6, 15000), Score(4, 9000)},
        {Provided(1, 0), Provided(4, 0)}, {Provided(2, 260), Score(2, 9700), Score(5, 10100)},
        {Score(1, 10100), Score(2, 10050), Score(3, 10060)}, {Score(2, 10050), Score(3, 9950), Score(4, 10050)}}
(* Enough charts for every rule of what a player is expected to reach.     *)
LargeCatalog == [c \in 1..10 |-> ChartOf(115 + c, IF c = 3 THEN None ELSE 117, c = 10, FALSE)]
LargeScoreSets ==
  {{Score(c, 10010) : c \in 1..n} \cup {Score(10, a)} : n \in {1, 2, 3, 7, 8}, a \in {9600, 9960}}
MCRatingQuestions ==
  [tool : {"b50"}, scores : ScoreSets, catalog : {MCCatalog}, mode : {"actual", "fit"}]
  \cup [tool : {"sections"}, scores : {s \in ScoreSets : Cardinality(s) = 4 /\ \A p \in s : p.achievement # None},
        catalog : {MCCatalog},
        upstream : [b35 : {None, 500}, b15 : {None, 250}, total : {None, 750}]]
MCRiseQuestions ==
  [tool : {"rise"}, scores : ScoreSets, catalog : {MCCatalog}, score : {0, 5},
   algorithm : {"legacy", "expected"}]
  \cup [tool : {"rise"}, scores : LargeScoreSets, catalog : {LargeCatalog}, score : {0},
        algorithm : {"expected"}]

-----------------------------------------------------------------------------
(* The public list.                                                        *)
Player(name, rating, folded) == [name |-> name, rating |-> rating, folded |-> folded]
Lists ==
  {<<>>, <<Player("a", 5, 1)>>, <<Player("z", 5, 9), Player("a", 5, 1), Player("A", 5, 1), Player("m", 7, 5)>>,
   <<Player("a", 5, 1), Player("b", 6, 2), Player("A", 8, 1)>>}
MCRankQuestions ==
  {b @@ o : b \in Bounds, o \in [tool : {"b50_report"}, entries : EntrySets, sort : {"rating", "fit"},
                                order : Orders, window : Windows, fitMin : {None, 1}, fitMax : {None, 3}]}
  \cup [tool : {"b50_member"}, entries : EntrySets, qq : {2, 3, 9}, size : 0..2]
  \cup [tool : {"song_report"}, members : {1..3}, records : RecordSets, target : SongTargets,
        min : {None, 5}, max : {None, 4, 5}, sort : {"rating", "dx", "achievement"}, order : Orders,
        window : {w \in Windows : w.start # 0 /\ w.limit # 9}]
  \cup [tool : {"song_member"}, members : {1..3}, records : RecordSets, target : SongTargets,
        qq : {1, 3, 9}, size : 0..1]
  \cup [tool : {"public"}, list : Lists, kind : {"page"}, page : {1, 2, 7}]
  \cup [tool : {"public"}, list : Lists, kind : {"range"}, start : 1..3, end : 3..5]
  \cup [tool : {"public"}, list : Lists, kind : {"player"}, folded : {1, 3, 9}]
=============================================================================
