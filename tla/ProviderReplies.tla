---------------------------- MODULE ProviderReplies ----------------------------
(***************************************************************************)
(* What a reply of a provider is taken for (maimai-providers): the         *)
(* Diving-Fish, LXNS, OAuth and NapCat clients and the catalogue sources.  *)
(*                                                                         *)
(* A reply is a record: whether it was sent, its status, the length it     *)
(* declares, the chunks its body comes in, what breaks off its body, and   *)
(* the JSON value its body is, {} where it is none.  How an error is       *)
(* worded, and the part of the body it quotes, are left out.               *)
(***************************************************************************)
EXTENDS Catalogs

CONSTANTS BodyLimit,  \* the bytes a client reads of a body; each has a limit of its own
          RawLimit    \* and the bytes that a kept document may be encoded in

ASSUME LimitAssumption == BodyLimit \in Nat /\ RawLimit \in Nat

(* JSON values, as serde reads them: an object is a set of named values.   *)
Null == [is |-> "null"]
Flag(b) == [is |-> "bool", bool |-> b]
Num(n) == [is |-> "number", number |-> n]
Text(t) == [is |-> "text", text |-> t]
Array(items) == [is |-> "array", items |-> items]
Object(fields) == [is |-> "object", fields |-> fields]
IsObject(v) == v.is = "object"
(* The values under any of the names a field may have.                     *)
FieldOf(v, names) == IF IsObject(v) THEN {f[2] : f \in {g \in v.fields : g[1] \in names}} ELSE {}
(* A field that may be absent or null, and one that must be there: written *)
(* under two of its names it is an error.                                  *)
Reads(v, names, kinds) ==
  /\ Cardinality({f \in v.fields : f[1] \in names}) <= 1
  /\ \A x \in FieldOf(v, names) : x.is \in kinds \cup {"null"}
Needs(v, names, kinds) ==
  /\ Cardinality({f \in v.fields : f[1] \in names}) = 1
  /\ \A x \in FieldOf(v, names) : x.is \in kinds
Value(v, names) == {x \in FieldOf(v, names) : x.is # "null"}
TextsOf(v, names) == {x.text : x \in Value(v, names)}
(* A list of elements that all can be read.                                *)
ListOf(v, Readable(_)) == v.is = "array" /\ \A i \in DOMAIN v.items : Readable(v.items[i])

Success == 200..299
Redirects == 300..399

(* A body is read up to the limit, whatever length it declared.            *)
BytesIn(chunks) == FoldLeft(LAMBDA n, c : n + c, 0, chunks)
ReadBody(reply, limit) ==
  IF \E n \in reply.declared : n > limit THEN "too_large"
  ELSE IF \E i \in DOMAIN reply.chunks : BytesIn(SubSeq(reply.chunks, 1, i)) > limit THEN "too_large"
  ELSE IF reply.broken # "no" THEN reply.broken
  ELSE "read"

Rejected(error) == [verdict |-> "refused", error |-> error]

-----------------------------------------------------------------------------
(* Diving-Fish: its operations, and what a request for one must have.      *)

Operation(method, auth, mutating, raw) ==
  [method |-> method, auth |-> auth, mutating |-> mutating, raw |-> raw, http |-> TRUE]
AccountOperations ==
  [maimai_login |-> Operation("POST", "login_credentials", FALSE, FALSE),
   maimai_player_agreement_get |-> Operation("GET", "login", FALSE, FALSE),
   maimai_player_agreement_post |-> Operation("POST", "login", TRUE, FALSE),
   maimai_player_profile_get |-> Operation("GET", "login", FALSE, FALSE),
   maimai_player_profile_post |-> Operation("POST", "login", TRUE, FALSE),
   maimai_player_import_token_put |-> Operation("PUT", "login", TRUE, FALSE),
   maimai_music_data_get |-> Operation("GET", "none", FALSE, FALSE),
   maimai_player_records_get |-> Operation("GET", "login_or_import_token", FALSE, FALSE),
   maimai_player_test_data_get |-> Operation("GET", "none", FALSE, FALSE),
   maimai_dev_player_records_get |-> Operation("GET", "developer_token", FALSE, FALSE),
   maimai_dev_player_record_post |-> Operation("POST", "developer_token", FALSE, FALSE)]
MaimaiOperations ==
  [maimai_query_player_post |-> Operation("POST", "none", FALSE, FALSE),
   maimai_query_plate_post |-> Operation("POST", "none", FALSE, FALSE),
   maimai_cover_url |-> [Operation("GET", "none", FALSE, FALSE) EXCEPT !.http = FALSE],
   maimai_rating_ranking_get |-> Operation("GET", "none", FALSE, FALSE),
   maimai_player_update_records_post |-> Operation("POST", "login_or_import_token", TRUE, FALSE),
   maimai_player_update_records_html_post |-> Operation("POST", "login", TRUE, TRUE),
   maimai_player_update_record_post |-> Operation("POST", "login_or_import_token", TRUE, FALSE),
   maimai_player_delete_records_delete |-> Operation("DELETE", "login_or_import_token", TRUE, FALSE),
   maimai_chart_stats_get |-> Operation("GET", "none", FALSE, FALSE)]
ChunithmOperations ==
  [chunithm_music_data_get |-> Operation("GET", "none", FALSE, FALSE),
   chunithm_latest_version_get |-> Operation("GET", "none", FALSE, FALSE),
   chunithm_player_records_get |-> Operation("GET", "login_or_import_token", FALSE, FALSE),
   chunithm_player_test_data_get |-> Operation("GET", "none", FALSE, FALSE),
   chunithm_dev_player_records_get |-> Operation("GET", "developer_token", FALSE, FALSE),
   chunithm_update_records_html_post |-> Operation("POST", "login_or_import_token", TRUE, TRUE),
   chunithm_delete_records_delete |-> Operation("DELETE", "login_or_import_token", TRUE, FALSE),
   chunithm_query_player_post |-> Operation("POST", "none", FALSE, FALSE)]
PublicOperations ==
  [public_count_view_get |-> Operation("GET", "none", FALSE, FALSE),
   public_alive_check_get |-> Operation("GET", "none", FALSE, FALSE),
   public_message_get |-> Operation("GET", "none", FALSE, FALSE),
   public_message_post |-> Operation("POST", "login", TRUE, FALSE),
   public_advertisements_get |-> Operation("GET", "none", FALSE, FALSE)]
Operations ==
  LET groups == {AccountOperations, MaimaiOperations, ChunithmOperations, PublicOperations}
  IN [o \in UNION {DOMAIN g : g \in groups} |-> (CHOOSE g \in groups : o \in DOMAIN g)[o]]

(* A credential may be absent, empty, or not fit for a header.             *)
Present(c) == c \notin {"absent", "empty"}
ValidAuth(auth, c) ==
  CASE auth = "none" -> TRUE
    [] auth = "login_credentials" -> Present(c.username) /\ Present(c.password)
    [] auth = "login" -> Present(c.jwt)
    [] auth = "login_or_import_token" -> Present(c.jwt) \/ Present(c.import)
    [] auth = "developer_token" -> Present(c.developer)
Tenths == 1..3000
ValidateRequest(r) ==
  Using(Operations[r.operation], LAMBDA op :
  Using({"body", "raw"} \cap r.bodies, LAMBDA has :
    IF r.ownSecretHeader THEN "invalid_request"
    ELSE IF op.mutating /\ r.confirm # r.operation THEN "confirmation_required"
    ELSE IF r.timeout \notin Tenths THEN "invalid_request"
    ELSE IF Cardinality(has) = 2 THEN "invalid_request"
    ELSE IF "raw" \in has /\ ~op.raw THEN "invalid_request"
    ELSE IF has # {} /\ op.method = "GET" THEN "invalid_request"
    ELSE IF r.operation = "maimai_login" /\ "body" \in has THEN "invalid_request"
    ELSE IF ~ValidAuth(op.auth, r.credentials) THEN "auth_required"
    ELSE "valid"))
(* The headers that a request carries its credentials in.                  *)
SentCredentials(r) == {c \in {"jwt", "import", "developer"} : r.credentials[c] # "absent"}
Sendable(r) == \A c \in SentCredentials(r) : r.credentials[c] # "unfit"
CoverId(n) == IF n \in 10001..11000 THEN n - 10000 ELSE n
CoverUrl(ids) == IF ids = {} \/ \E n \in ids : n < 0 THEN Rejected("invalid_request")
                 ELSE [verdict |-> "answered", status |-> 200, json |-> {Num(CoverId(n)) : n \in ids},
                       plain |-> FALSE, login |-> FALSE]
(* 304 is one of the redirects, too.                                       *)
DfReply(reply) ==
  LET body == ReadBody(reply, BodyLimit)
  IN IF reply.sent # "sent" THEN Rejected(reply.sent)
     ELSE IF reply.status \in Redirects THEN Rejected("redirect")
     ELSE IF body # "read" THEN Rejected(body)
     ELSE IF reply.status \notin Success THEN Rejected("http")
     ELSE [verdict |-> "answered", status |-> reply.status, json |-> reply.json,
                    plain |-> reply.json = {} /\ reply.chunks # <<>>, login |-> reply.login]
Execute(r, reply) ==
  IF ValidateRequest(r) # "valid" THEN Rejected(ValidateRequest(r))
  ELSE IF ~Operations[r.operation].http THEN CoverUrl(r.coverId)
  ELSE IF ~Sendable(r) THEN Rejected("invalid_request")
  ELSE DfReply(reply)

-----------------------------------------------------------------------------
(* LXNS: any reply has to be JSON, before its status counts.               *)

LxnsReply(reply) ==
  LET body == ReadBody(reply, BodyLimit)
      v == CHOOSE x \in reply.json : TRUE
  IN IF reply.sent # "sent" THEN Rejected(reply.sent)
     ELSE IF body # "read" THEN Rejected(body)
     ELSE IF reply.json = {} THEN Rejected("invalid_json")
     ELSE IF reply.status = 401 THEN Rejected("unauthorized")
     ELSE IF reply.status \in Redirects THEN Rejected("redirect")
     ELSE IF reply.status \notin Success THEN Rejected("http")
     ELSE IF FieldOf(v, {"success"}) = {Flag(FALSE)} THEN Rejected("api")
     ELSE [verdict |-> "answered", json |-> IF FieldOf(v, {"data"}) # {} THEN FieldOf(v, {"data"}) ELSE {v}]

(* The tokens of an authorization, new or refreshed.  A secret is a record *)
(* of its value, its length and whether it is clean of control characters. *)
ValidSecret(s, most) == s.bytes \in 1..most /\ s.clean
ValidVerifier(s) == s.bytes \in 43..128 /\ s.unreserved
TokenRequest(r) ==
  CASE r.grant = "authorization_code" -> ValidSecret(r.secret, 2048) /\ ValidVerifier(r.verifier)
    [] r.grant = "refresh_token" -> ValidSecret(r.secret, 16384)
Access == {"access_token", "accessToken"}
RefreshWith == {"refresh_token", "refreshToken"}
IsToken(v) ==
  /\ IsObject(v)
  /\ Needs(v, Access, {"text"}) /\ Needs(v, RefreshWith, {"text"})
  /\ Reads(v, {"token_type", "tokenType"}, {"text"}) /\ Reads(v, {"scope"}, {"text"})
  /\ Reads(v, {"expires_in", "expiresIn"}, {"number"})
TokenOf(v) ==
  LET wrapped == {x \in FieldOf(v, {"data"}) : IsToken(x)}
  IN IF wrapped # {} THEN wrapped ELSE {x \in {v} : IsToken(x)}
(* A body that says so itself is a refusal whatever its status.            *)
SaysNo(v) == /\ IsObject(v) /\ Reads(v, {"success"}, {"bool"}) /\ Reads(v, {"error"}, {"text"})
             /\ \/ FieldOf(v, {"success"}) = {Flag(FALSE)}
                \/ TextsOf(v, {"error"}) # {}
InvalidGrant == <<9>>
NonBlank(texts) == {t \in texts : Trim(t) # <<>>}
NewTokens(v, r) ==
  LET w == CHOOSE x \in TokenOf(v) : TRUE
      access == CHOOSE t \in TextsOf(w, Access) : TRUE
      refresh == CHOOSE t \in TextsOf(w, RefreshWith) : TRUE
  IN IF TokenOf(v) = {} \/ access = <<>> \/ refresh = <<>> THEN Rejected("invalid_token_response")
     ELSE IF r.grant = "refresh_token" /\ refresh = r.secret.value THEN Rejected("refresh_token_not_rotated")
     ELSE [verdict |-> "tokens", access |-> access, refresh |-> refresh,
                    (* without a kind it is a bearer token                  *)
                    kind |-> NonBlank(TextsOf(w, {"token_type", "tokenType"})),
                    scope |-> NonBlank(TextsOf(w, {"scope"})),
                    expires |-> {x.number : x \in Value(w, {"expires_in", "expiresIn"})} \ {0}]
RequestTokensWith(r, reply) ==
  LET body == ReadBody(reply, BodyLimit)
      said == {v \in reply.json : SaysNo(v)}
  IN IF ~TokenRequest(r) THEN Rejected("invalid_request")
     ELSE IF reply.sent # "sent" THEN Rejected(reply.sent)
     ELSE IF body = "too_large" THEN Rejected("invalid_token_response")
     ELSE IF body # "read" THEN Rejected(body)
     ELSE IF reply.status \notin Success \/ said # {} THEN
            Rejected(IF \E v \in reply.json : /\ IsObject(v) /\ Reads(v, {"success"}, {"bool"})
                                              /\ Reads(v, {"error"}, {"text"})
                                              /\ TextsOf(v, {"error"}) = {InvalidGrant} THEN "invalid_grant"
                   ELSE IF reply.status = 401 THEN "unauthorized"
                   ELSE "http")
     ELSE IF reply.json = {} THEN Rejected("invalid_token_response")
     ELSE NewTokens(CHOOSE v \in reply.json : TRUE, r)

-----------------------------------------------------------------------------
(* The catalogue sources.  An entity tag is taken with its quotes or       *)
(* without any, and kept in one form.                                      *)

ValidTag(tag) == tag.fits /\ tag.quotes \in {"both", "neither"}
EntityTag(tag) == <<tag.weak, tag.opaque>>
ReplyTags(reply) == {EntityTag(t) : t \in reply.etag}
TextEndpoints == {"dxdata_proxy", "dxdata_github"}
AllowedTypes(endpoint) == {"json", "none"} \cup (IF endpoint \in TextEndpoints THEN {"plain"} ELSE {})
SourceReply(endpoint, reply) ==
  LET body == ReadBody(reply, BodyLimit)
  IN IF reply.sent # "sent" THEN Rejected(reply.sent)
     ELSE IF \E t \in reply.etag : ~ValidTag(t) THEN Rejected("invalid_response_header")
     ELSE IF reply.status = 304 THEN [verdict |-> "not_modified", etag |-> ReplyTags(reply)]
     ELSE IF reply.status \in Redirects THEN Rejected("redirect")
     ELSE IF reply.status \notin Success THEN Rejected("http_status")
     ELSE IF reply.type \notin AllowedTypes(endpoint) THEN Rejected("invalid_content_type")
     ELSE IF body # "read" THEN Rejected(body)
     ELSE [verdict |-> "updated", etag |-> ReplyTags(reply), json |-> reply.json]

(* How many records a document has, of each of the kinds it may hold; {}   *)
(* when it does not have the shape of its source.                          *)
Count(v) == IF v.is = "array" THEN {<<Len(v.items)>>} ELSE {}
CountIn(v, name) == UNION {Count(x) : x \in FieldOf(v, {name})}
FirstNonEmpty(sets) == LET held == {i \in DOMAIN sets : sets[i] # {}}
                       IN IF held = {} THEN {} ELSE sets[Min(held)]
EnvelopeCount(v) ==
  FirstNonEmpty(<<Count(v), CountIn(v, "content"), CountIn(v, "songs"), CountIn(v, "aliases")>>)
YuzuCount(v) == IF v.is = "array" THEN Count(v)
                ELSE IF FieldOf(v, {"content"}) # {} THEN CountIn(v, "content")
                ELSE CountIn(v, "aliases")
StatsCount(v) ==
  LET charts == {x \in FieldOf(v, {"charts"}) : IsObject(x)}
      buckets == Value(v, {"diff_data"})
  IN IF charts = {} \/ \E x \in buckets : ~IsObject(x) THEN {}
     ELSE {<<Cardinality((CHOOSE x \in charts : TRUE).fields),
             Cardinality(UNION {x.fields : x \in buckets})>>}
PlateCount(v) ==
  LET content == IF FieldOf(v, {"content"}) = {} THEN v ELSE CHOOSE x \in FieldOf(v, {"content"}) : TRUE
  IN IF IsObject(v) /\ IsObject(content) /\ \A f \in content.fields : f[2].is = "array"
     THEN {<<Cardinality(content.fields)>>} ELSE {}
TagsCount(v) ==
  LET lists == <<"tags", "tagGroups", "tagSongs">>
      length(name) == FoldSet(LAMBDA x, n : Len(x.items) + n, 0, Value(v, {name}))
  IN IF FieldOf(v, {"tags"}) # {} /\ \A i \in 1..3 : \A x \in Value(v, {lists[i]}) : x.is = "array"
     THEN {[i \in 1..3 |-> length(lists[i])]} ELSE {}
Containers == <<"content", "data", "locations", "locationList", "shops", "items", "result">>
LocationKeys == {"id", "placeId", "shopId", "name", "shopName", "address"}
(* A value and all that lies in its containers, as deep as a parser reads  *)
(* (serde_json stops at 128).                                              *)
Depth == 128
WithContained(v) ==
  FoldSet(LAMBDA d, found : found \cup UNION {FieldOf(x, ToSet(Containers)) : x \in found}, {v}, 1..Depth)
Locations(v) ==
  LET count[x \in WithContained(v)] ==
        LET in(name) == FoldSet(LAMBDA y, n : count[y] + n, 0, FieldOf(x, {name}))
            within == SelectSeq([i \in DOMAIN Containers |-> in(Containers[i])], LAMBDA n : n > 0)
        IN IF x.is = "array" THEN Len(SelectSeq(x.items, IsObject))
           ELSE IF within # <<>> THEN Head(within)
           ELSE IF FieldOf(x, LocationKeys) # {} THEN 1 ELSE 0
  IN count[v]
RecordCount(target, v) ==
  CASE target \in {"LxnsSongList", "LxnsAliasList"} -> EnvelopeCount(v)
    [] target = "DxData" -> CountIn(v, "songs")
    [] target \in {"DivingFishSongList", "DxRatingAliases"} -> Count(v)
    [] target = "YuzuAliasList" -> YuzuCount(v)
    [] target = "DivingFishChartStats" -> StatsCount(v)
    [] target = "DxRatingTags" -> TagsCount(v)
    [] target = "Plate" -> PlateCount(v)
    [] target = "Location" -> {<<n>> : n \in {Locations(v)} \ {0}}

(* What a source is made of: the endpoint and the file of every document.  *)
SourceParts ==
  [lxns |-> <<<<"lxns_songs", "LxnsSongList">>, <<"lxns_aliases", "LxnsAliasList">>>>,
   dxdata |-> <<<<"dxdata_proxy", "DxData">>>>,
   divingfish |-> <<<<"divingfish_music", "DivingFishSongList">>>>,
   yuzu |-> <<<<"yuzu_aliases", "YuzuAliasList">>>>,
   chart_stats |-> <<<<"divingfish_stats", "DivingFishChartStats">>>>,
   dxrating_aliases |-> <<<<"dxrating_aliases", "DxRatingAliases">>>>,
   dxrating_tags |-> <<<<"dxrating_tags", "DxRatingTags">>>>,
   plate |-> <<<<"yuzu_plate", "Plate">>>>,
   location |-> <<<<"wahlap_locations", "Location">>>>]
NoTags == {}
Bundle(status, documents, etag) == [verdict |-> status, documents |-> documents, etag |-> etag]
(* All of the parts are asked for before any is looked at, the first that  *)
(* fails ends it, and only Diving-Fish may say that nothing has changed.   *)
AssembleBundle(source, etag, replies) ==
  Using(SourceParts[source], LAMBDA parts :
  Using([i \in DOMAIN parts |-> SourceReply(parts[i][1], replies[parts[i][1]])], LAMBDA got :
  Using({i \in DOMAIN got : \/ got[i].verdict = "refused"
                            \/ got[i].verdict = "not_modified" /\ source # "divingfish"}, LAMBDA failed :
  LET counted(i) == UNION {RecordCount(parts[i][2], v) : v \in got[i].json}
  IN
  Using({i \in DOMAIN got : counted(i) = {}}, LAMBDA bad :
    IF failed # {} THEN LET r == got[Min(failed)]
                        IN IF r.verdict = "refused" THEN r ELSE Rejected("http_status")
    ELSE IF got[1].verdict = "not_modified" THEN
           Bundle("not_modified", <<>>, IF got[1].etag # {} THEN got[1].etag ELSE etag)
    ELSE IF bad # {} THEN Rejected(IF got[Min(bad)].json = {} THEN "invalid_json" ELSE "invalid_shape")
    ELSE Bundle("updated",
                    [i \in DOMAIN parts |->
                       [target |-> parts[i][2], json |-> CHOOSE v \in got[i].json : TRUE,
                        counts |-> CHOOSE c \in counted(i) : TRUE]],
                    IF source = "divingfish" THEN got[1].etag ELSE NoTags)))))
(* The second place of the dxdata is asked when the first gives no reply   *)
(* that can be read; what it says is not looked at for that.               *)
FetchFrom(source, etag, replies) ==
  LET second == [replies EXCEPT !["dxdata_proxy"] = replies["dxdata_github"]]
  IN IF source # "dxdata" \/ SourceReply("dxdata_proxy", replies["dxdata_proxy"]).verdict # "refused" THEN
            AssembleBundle(source, etag, replies)
     ELSE IF SourceReply("dxdata_github", replies["dxdata_github"]).verdict = "refused" THEN Rejected("all_endpoints_failed")
     ELSE AssembleBundle(source, etag, second)

-----------------------------------------------------------------------------
(* NapCat: the lists of friends, groups and members of a group.            *)

(* An identifier may come as a number; the letter 9 stands for any that is *)
(* not a digit, -1 for a control character.                                *)
CleanId(x) == {t \in {IF x.is = "number" THEN Digits(x.number) ELSE Trim(x.text)} :
                      t # <<>> /\ -1 \notin ToSet(t)}
IdKinds == {"number", "text"}
IsDigits(t) == ToSet(t) \subseteq 20..29
GroupNames == {"group_id", "groupId"}
UserNames == {"user_id", "userId"}
HasUser(v) == IsObject(v) /\ Needs(v, UserNames, IdKinds)
              /\ \A x \in FieldOf(v, UserNames) : \E t \in CleanId(x) : IsDigits(t)
ReadableMember(list, v) ==
  CASE list = "friends" -> HasUser(v) /\ Reads(v, {"nickname"}, {"text"})
    [] list = "members" -> /\ HasUser(v) /\ Reads(v, {"nickname"}, {"text"}) /\ Reads(v, {"card"}, {"text"})
                           /\ Reads(v, GroupNames, IdKinds)
                           /\ \A x \in Value(v, GroupNames) : CleanId(x) # {}
    [] list = "groups" -> /\ IsObject(v) /\ Needs(v, GroupNames, IdKinds)
                          /\ \A x \in FieldOf(v, GroupNames) : CleanId(x) # {}
                          /\ Reads(v, {"group_name", "groupName"}, {"text"})
                          /\ Reads(v, {"member_count", "memberCount"}, {"number"})
IdsOf(v, names) == UNION {CleanId(x) : x \in Value(v, names)}
Trimmed(texts) == {Trim(t) : t \in NonBlank(texts)}
MemberEntry(v) == [group |-> IdsOf(v, GroupNames), user |-> IdsOf(v, UserNames),
             name |-> Trimmed(TextsOf(v, {"nickname", "group_name", "groupName"})),
             card |-> Trimmed(TextsOf(v, {"card"}))]
Entries(list, v) ==
  IF ListOf(v, LAMBDA x : ReadableMember(list, x))
  THEN [verdict |-> "listed", entries |-> [i \in DOMAIN v.items |-> MemberEntry(v.items[i])]]
  ELSE Rejected("invalid_response")
(* The letters of a word in a reply: ok is the number 1, in either case.   *)
SaysOk == <<1>>
IsEnvelope(v) == /\ IsObject(v) /\ Reads(v, {"status"}, {"text"}) /\ Reads(v, {"retcode"}, {"number"})
                 /\ Reads(v, {"message"}, {"text"}) /\ Reads(v, {"wording"}, {"text"})
ListReply(list, v) ==
  IF v.is = "array" THEN Entries(list, v)
  ELSE IF ~IsEnvelope(v) THEN Rejected("invalid_response")
  ELSE IF \/ \E t \in NonBlank(TextsOf(v, {"status"})) : Normalize(t) # SaysOk
       \/ \E x \in Value(v, {"retcode"}) : x.number # 0 THEN Rejected("onebot")
  ELSE IF Value(v, {"data"}) = {} THEN Rejected("invalid_response")
  ELSE Entries(list, CHOOSE x \in Value(v, {"data"}) : TRUE)
PostList(list, reply) ==
  LET body == ReadBody(reply, BodyLimit)
  IN IF reply.sent # "sent" THEN Rejected(reply.sent)
     ELSE IF body # "read" THEN Rejected(body)
     ELSE IF reply.status \notin Success THEN Rejected("http")
     ELSE IF reply.json = {} THEN Rejected("invalid_response")
     ELSE ListReply(list, CHOOSE v \in reply.json : TRUE)
(* Every member has to be one of the group that was asked for.             *)
GroupMembers(group, reply) ==
  Using(Trim(group), LAMBDA asked :
  Using(PostList("members", reply), LAMBDA listed :
  LET own(m) == IF m.group = {} THEN [m EXCEPT !.group = {asked}] ELSE m
  IN IF asked = <<>> \/ -1 \in ToSet(asked) THEN Rejected("invalid_request")
     ELSE IF listed.verdict = "refused" THEN listed
     ELSE IF \E i \in DOMAIN listed.entries : listed.entries[i].group \notin {{}, {asked}} THEN Rejected("invalid_response")
     ELSE [listed EXCEPT !.entries = [i \in DOMAIN @ |-> own(@[i])]]))
=============================================================================
