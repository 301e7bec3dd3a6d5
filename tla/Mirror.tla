------------------------------- MODULE Mirror -------------------------------
(***************************************************************************)
(* The mirror generator (packages/core/mirror.js), which writes a bid      *)
(* response for a pasted request or a request for a pasted response, and   *)
(* the semantic crosscheck (crosscheck.js) that judges the pair.  The two  *)
(* were written apart and are tied by the self-test of index.js:mirror.    *)
(* The document generated last can be mirrored again: the mirror window    *)
(* loads it into the other pane.                                           *)
(*                                                                         *)
(* Abstractions.  OpenRTB 2.x only, as the generator refuses 3.0.  Money   *)
(* is counted in mills (1/1000), so that rounding to cents shows; the      *)
(* binary fraction of a float is not modelled.  Of a document, the members *)
(* are kept that a CRIT or a floor verdict depends on: banner sizes, the   *)
(* currency lists, pop landings, deals and the fitness of native assets    *)
(* other than their link only ever warn, or are never generated.           *)
(* An asset id that is no number reads as NotANumber.                      *)
(***************************************************************************)
EXTENDS Integers, Sequences, FiniteSets, Listing

CONSTANTS Requests, Responses,   \* the documents that may be pasted
          DefaultIds,            \* imp-1, imp-2, ...
          MaxMirrors             \* how often the mirror is pressed

Media == {"banner", "video", "audio", "native"}
NotANumber == 0

\* A number as a payload spells it: its value, and whether it is a JSON number.
\* Missing is a member that is not there, Unreadable one that reads as NaN.
Missing    == [n |-> -1, typed |-> FALSE]
Unreadable == [n |-> -2, typed |-> FALSE]
Mills(n)   == [n |-> n, typed |-> TRUE]

IsStr(id) == id \notin {"missing", "1#"}     \* "1#" is the number 1
Key(id) == IF id = "1#" THEN "1" ELSE id     \* String(id)

AnyMime == {"mp4", "webm", "mp3"}
NoLimit == 1000
NoVast == [inline |-> TRUE, protocol |-> 0, mime |-> "none", dur |-> 0]
NoVideo == [mimes |-> AnyMime, protocols |-> 0..20, min |-> 0, max |-> NoLimit]
NoNative == [shape |-> "none", assets |-> <<>>]

\* The documents, as far as numbers and lists go.
AmountType == [n : Int, typed : BOOLEAN]
AssetType == [id : Nat, required : BOOLEAN, kind : STRING]
VideoType == [mimes : SUBSET AnyMime, protocols : SUBSET Nat, min : Nat, max : Nat]
VastType == [inline : BOOLEAN, protocol : Nat, mime : AnyMime \cup {"none"}, dur : Nat]
NativeType == [shape : {"wrapped", "bare", "broken", "none"}, assets : Seq(AssetType)]

IsImp(imp) ==
  /\ imp.floor \in AmountType /\ imp.offers \subseteq Media
  /\ imp.video \in VideoType /\ imp.native \in NativeType
IsBid(bid) ==
  bid.price \in AmountType /\ bid.vast \in VastType /\ bid.assets \in Seq(AssetType)

IsList(list) == \E n \in 0..Len(DefaultIds) : DOMAIN list = 1..n
IsRequest(r) == IsList(r.imps) /\ \A i \in DOMAIN r.imps : IsImp(r.imps[i])
IsResponse(s) == IsList(s.bids) /\ \A i \in DOMAIN s.bids : IsBid(s.bids[i])

VARIABLES req, res,     \* the pair: the pasted document and its counterpart
          newest,       \* which of them was pasted or generated last
          presses       \* how often the mirror was pressed

vars == <<req, res, newest, presses>>

Smaller(a, b) == IF a < b THEN a ELSE b
Larger(a, b) == IF a > b THEN a ELSE b
Clamp(lo, hi, n) == Larger(lo, Smaller(hi, n))

\* round2: to whole cents, halves up.
Round2(mills) == ((mills + 5) \div 10) * 10
\* round2 of half a price.
Halved(mills) == ((mills + 10) \div 20) * 10

-----------------------------------------------------------------------------
(* A response from a request.                                              *)

VastFromFifteen(max) ==
  [inline |-> TRUE, protocol |-> 7, mime |-> "mp4",
   dur |-> IF max \in {0, NoLimit} THEN 15 ELSE Clamp(15, 30, max)]

\* vastTemplate: one inline linear of five to thirty seconds, VAST 4.0, mp4.
VastTemplate(max) ==
  [inline |-> TRUE, protocol |-> 7, mime |-> "mp4",
   dur |-> IF max \in {0, NoLimit} THEN 15 ELSE Clamp(5, 30, max)]

\* nativeAdmFromRequest answers every asset it can number, in a wrapped
\* declaration only.
NumberedAssets(assets) ==
  KeptAt(assets, {k \in DOMAIN assets : assets[k].id # NotANumber})

Creative(adm, vast, assets) == [adm |-> adm, vast |-> vast, assets |-> assets]

\* The creative for an impression: the first medium it offers, in this order.
CreativeFor(imp) ==
  CASE "banner" \in imp.offers -> Creative("html", NoVast, <<>>)
    [] "banner" \notin imp.offers /\ "video" \in imp.offers ->
         Creative("vast", VastTemplate(imp.video.max), <<>>)
    [] imp.offers \cap {"banner", "video"} = {} /\ "native" \in imp.offers
       /\ imp.native.shape = "wrapped" ->
         Creative("native", NoVast, NumberedAssets(imp.native.assets))
    [] imp.offers = {"audio"} -> Creative("vast", VastTemplate(imp.video.max), <<>>)
    [] OTHER -> Creative("html", NoVast, <<>>)

SafeFloor(imp) == IF imp.floor.n > 0 THEN imp.floor.n ELSE 0

DefaultImpId(i) == DefaultIds[i]

\* Best practice adds a category to a bid, and a seat to the response.
BidOf(imp, i, best, price) ==
  LET made == CreativeFor(imp)
  IN [impid |-> IF IsStr(imp.id) THEN imp.id ELSE DefaultImpId(i),
      price |-> Mills(price),
      adm |-> made.adm, vast |-> made.vast, assets |-> made.assets, unsafe |-> FALSE,
      mtype |-> "none", adomain |-> "advertiser.example",
      cat |-> IF best THEN {"IAB3-1"} ELSE {}]

\* One bid per impression, ten cents above its floor.
BidFor(imp, i, best) == BidOf(imp, i, best, Round2(SafeFloor(imp) + 100))

ResponseFromRequest(r, best) ==
  [id |-> IF IsStr(r.id) THEN r.id ELSE "mirror-bid-1",
   cur |-> r.cur,
   seat |-> IF best /\ r.imps # <<>> THEN "mirror-seat" ELSE "none",
   bids |-> [i \in DOMAIN r.imps |-> BidFor(r.imps[i], i, best)]]

-----------------------------------------------------------------------------
(* A request from a response.                                              *)

\* The floor: half the price, a cent at least; of a price that is no positive
\* number, half of ten cents.
FloorUnder(price) == Larger(10, Halved(IF price.n > 0 THEN price.n ELSE 100))

VideoForOldPlayers(vast) ==
  [mimes |-> {"mp4"}, protocols |-> {2, 3}, min |-> 5,
   max |-> Clamp(15, 60, (IF vast.dur = 0 THEN 30 ELSE vast.dur) + 5)]

\* A slot that takes the bid's VAST: mp4, VAST 3.0 and 4.0 inline, five seconds
\* longer than the creative, within 15 and 60.
VideoFor(vast) ==
  [mimes |-> {"mp4"}, protocols |-> {3, 7}, min |-> 5,
   max |-> Clamp(15, 60, (IF vast.dur = 0 THEN 30 ELSE vast.dur) + 5)]

\* buildNativeRequestAsset: titles, images and videos are required, data is not.
NativeFor(assets) ==
  LET numbered == NumberedAssets(assets)
  IN [shape |-> "wrapped",
      assets |-> [i \in DOMAIN numbered |->
                    [numbered[i] EXCEPT !.required = numbered[i].kind # "data"]]]

\* inferImpFromBid
ImpFor(bid, impid, cur) ==
  [id |-> impid,
   floor |-> Mills(FloorUnder(bid.price)),
   floorcur |-> cur,
   offers |-> CASE bid.adm = "vast" -> {"video"}
                [] bid.adm = "native" -> {"native"}
                [] OTHER -> {"banner"},
   video |-> IF bid.adm = "vast" THEN VideoFor(bid.vast) ELSE NoVideo,
   native |-> IF bid.adm = "native" THEN NativeFor(bid.assets) ELSE NoNative]

BidImpId(bid, i) == IF IsStr(bid.impid) THEN bid.impid ELSE DefaultImpId(i)

DefaultImp(cur) ==
  [id |-> "imp-1", floor |-> Mills(50), floorcur |-> cur, offers |-> {"banner"},
   video |-> NoVideo, native |-> NoNative]

\* One impression for each id the bids name, inferred from the first of them.
ImpsFor(bids, cur) ==
  LET firsts == {i \in DOMAIN bids : \A j \in 1..(i - 1) : BidImpId(bids[j], j) # BidImpId(bids[i], i)}
      order == InOrder(firsts, Ascending(firsts))
  IN IF firsts = {} THEN <<DefaultImp(cur)>>
     ELSE [n \in DOMAIN order |-> ImpFor(bids[order[n]], BidImpId(bids[order[n]], order[n]), cur)]

RequestFromResponse(s) ==
  [id |-> IF IsStr(s.id) THEN s.id ELSE "mirror-req-1",
   cur |-> s.cur,
   imps |-> ImpsFor(s.bids, s.cur),
   badv |-> {}, bcat |-> {}, wseat |-> {}]

-----------------------------------------------------------------------------
(* Crosscheck.                                                             *)

Crit(code, n) == [code |-> code, crit |-> TRUE, bid |-> n]
Warn(code, n) == [code |-> code, crit |-> FALSE, bid |-> n]
When(cond, f) == IF cond THEN {f} ELSE {}

\* impById: the last impression of an id is the one a bid resolves to.
Resolves(r, bid) ==
  {i \in DOMAIN r.imps : /\ r.imps[i].id # "missing"
                         /\ bid.impid # "missing"
                         /\ Key(r.imps[i].id) = Key(bid.impid)}
ImpOf(r, bid) == r.imps[CHOOSE i \in Resolves(r, bid) :
                          \A j \in Resolves(r, bid) : j <= i]

\* What the markup is, whatever was asked for.
Actual(bid) ==
  CASE bid.adm = "vast" -> IF bid.vast.mime = "mp3" THEN "audio" ELSE "video"
    [] bid.adm = "daast" -> "audio"
    [] bid.adm \in {"native", "bare-native"} -> "native"
    [] bid.adm = "html" -> "banner"
    [] OTHER -> "nothing"

\* selectBidMedia: an offered declaration, else the evidence, else a sole offer.
SelectBidMedia(imp, bid) ==
  CASE bid.mtype \in imp.offers -> bid.mtype
    [] bid.mtype \notin imp.offers /\ Actual(bid) \in imp.offers -> Actual(bid)
    [] OTHER -> IF Cardinality(imp.offers) = 1 THEN CHOOSE m \in imp.offers : TRUE
                ELSE "nothing"

PriceFindings(imp, bid, cur, n) ==
  LET floor == imp.floor
      explicit == floor.typed /\ floor.n >= 0
      unusable == floor # Missing /\ ~explicit
      least == IF explicit THEN floor.n ELSE 0
  IN CASE ~(bid.price.typed /\ bid.price.n >= 0) -> {Crit("price_invalid", n)}
       [] bid.price.typed /\ bid.price.n >= 0 /\ unusable -> {}
       [] OTHER -> When(explicit /\ least > 0 /\ imp.floorcur # cur,
                        Warn("floor_currency_mismatch", n))
                   \cup When(~(explicit /\ least > 0 /\ imp.floorcur # cur)
                               /\ bid.price.n < least,
                             Warn("below_floor", n))

\* A required asset is missing unless one of its id comes back.
MissingAssets(native, bid) ==
  {i \in DOMAIN native.assets :
     /\ native.assets[i].required
     /\ \A k \in DOMAIN bid.assets : bid.assets[k].id # native.assets[i].id}

NativeFindings(native, bid, n) ==
  IF native.shape \notin {"wrapped", "bare"} \/ native.assets = <<>>
  THEN {Warn("native_invalid_request", n)}
  ELSE IF bid.adm \notin {"native", "bare-native"} THEN {Warn("native_invalid_adm", n)}
  ELSE When(MissingAssets(native, bid) # {}, Crit("native_missing_assets", n))
       \cup When(MissingAssets(native, bid) = {} /\ bid.unsafe,
                 Crit("native_unsafe_scheme", n))

\* crosscheckVideoMedia: only what an inline linear shows is held against it.
VideoFindings(video, bid, n) ==
  IF bid.adm # "vast" THEN {Warn("video_not_vast", n)}
  ELSE When(bid.vast.inline /\ bid.vast.mime \notin video.mimes,
            Crit("video_mime_mismatch", n))
       \cup When(bid.vast.inline /\ bid.vast.dur # 0
                   /\ (bid.vast.dur < video.min \/ bid.vast.dur > video.max),
                 Crit("video_duration_mismatch", n))
       \cup When(bid.vast.protocol \notin video.protocols,
                 Crit("video_protocol_mismatch", n))

AudioFindings(bid, n) ==
  CASE bid.adm \notin {"vast", "daast"} -> {Warn("audio_not_vast", n)}
    [] bid.adm = "vast" /\ bid.vast.inline /\ bid.vast.mime # "mp3" ->
         {Crit("audio_media_mismatch", n)}
    [] OTHER -> {}

MediaFindings(imp, bid, n) ==
  LET medium == SelectBidMedia(imp, bid)
  IN When(bid.mtype # "none" /\ bid.mtype \notin imp.offers,
          Crit("mtype_offered_mismatch", n))
     \cup (CASE medium = "native" /\ bid.adm # "none" -> NativeFindings(imp.native, bid, n)
             [] medium = "video" /\ bid.adm # "none" -> VideoFindings(imp.video, bid, n)
             [] medium = "audio" /\ bid.adm # "none" -> AudioFindings(bid, n)
             [] medium = "banner" -> When(bid.adm \notin {"html", "none"},
                                          Warn("banner_not_banner", n))
             [] OTHER -> {})

BidFindings(r, s, n) ==
  LET bid == s.bids[n]
  IN IF Resolves(r, bid) = {} THEN {Crit("impid_unresolved", n)}
     ELSE PriceFindings(ImpOf(r, bid), bid, s.cur, n)
          \cup When(\E c \in bid.cat : c = "IAB3-1" /\ "IAB3" \in r.bcat,
                    Crit("cat_blocked", n))
          \cup When(bid.adomain \in r.badv, Crit("adomain_blocked", n))
          \cup MediaFindings(ImpOf(r, bid), bid, n)

\* crosscheck: the id, then - unless there is no bid - the seat and every bid.
Crosscheck(r, s) ==
  When(s.id # r.id, Crit("id_mismatch", 0))
  \cup When(s.bids # <<>> /\ s.seat # "none" /\ r.wseat # {} /\ s.seat \notin r.wseat,
            Crit("seat_not_allowed", 0))
  \cup UNION {BidFindings(r, s, n) : n \in DOMAIN s.bids}

-----------------------------------------------------------------------------
(* The window.                                                             *)

NoRequest == [id |-> "missing", cur |-> "USD", imps |-> <<>>,
              badv |-> {}, bcat |-> {}, wseat |-> {}]
NoResponse == [id |-> "missing", cur |-> "USD", seat |-> "none", bids |-> <<>>]

Init ==
  /\ presses = 0
  /\ \/ newest = "request" /\ req \in Requests /\ res = NoResponse
     \/ newest = "response" /\ res \in Responses /\ req = NoRequest

MirrorRequest(best) ==
  /\ newest = "request" /\ presses < MaxMirrors
  /\ res' = ResponseFromRequest(req, best)
  /\ newest' = "response" /\ presses' = presses + 1
  /\ UNCHANGED req

MirrorResponse ==
  /\ newest = "response" /\ presses < MaxMirrors
  /\ req' = RequestFromResponse(res)
  /\ newest' = "request" /\ presses' = presses + 1
  /\ UNCHANGED res

Next == (\E best \in BOOLEAN : MirrorRequest(best)) \/ MirrorResponse

Spec == Init /\ [][Next]_vars

-----------------------------------------------------------------------------
(* Properties.                                                             *)

Mirrored == presses > 0
Crits == {f \in Crosscheck(req, res) : f.crit}

SameKey(a, b) == a # "missing" /\ b # "missing" /\ Key(a) = Key(b)

\* Two bids of one response on the same impression: the generator infers the
\* impression from the first and the second has to live with it.
Doubled(s) ==
  \E i, j \in DOMAIN s.bids :
    i < j /\ (\/ BidImpId(s.bids[i], i) = BidImpId(s.bids[j], j)
             \/ SameKey(s.bids[i].impid, s.bids[j].impid))

\* Two impressions of one id: the generator bids on both, the crosscheck holds
\* both bids against the second.
Twinned(r) == \E i, j \in DOMAIN r.imps : i < j /\ SameKey(r.imps[i].id, r.imps[j].id)

\* Once both documents come from the generator, its self-test is clean: what
\* each direction writes is what the other one and the crosscheck accept.
SettlesClean == presses > 1 /\ ~Doubled(res) => Crits = {}

\* The documents the generator's fixed creative fits: ids are strings, no
\* block list names its own advertiser, category or seat, no two impressions
\* share an id, a video slot takes a VAST 4.0 mp4 of 5 to 30 seconds (15 where
\* it names no limit), nothing is audio only and required native assets are
\* numbered - or, in a response, one bid per impression, each with a price and
\* a creative the generated slot can take.
ImpFits(imp) ==
  /\ IsStr(imp.id) /\ imp.offers # {"audio"}
  /\ imp.offers \cap {"banner", "video"} = {"video"} =>
       /\ "mp4" \in imp.video.mimes /\ 7 \in imp.video.protocols
       /\ imp.video.max >= 5
       /\ imp.video.min <= IF imp.video.max = NoLimit THEN 15 ELSE Smaller(30, imp.video.max)
  /\ \A k \in DOMAIN imp.native.assets :
       imp.native.assets[k].required => imp.native.assets[k].id # NotANumber

RequestFits(r) ==
  /\ IsStr(r.id) /\ ~Twinned(r) /\ r.badv = {} /\ r.bcat = {} /\ r.wseat = {}
  /\ \A i \in DOMAIN r.imps : ImpFits(r.imps[i])

BidFits(bid, cur) ==
  /\ IsStr(bid.impid) /\ bid.price.typed /\ bid.price.n >= 0 /\ ~bid.unsafe
  /\ bid.mtype \in {"none"} \cup ImpFor(bid, bid.impid, cur).offers
  /\ bid.adm = "vast" => /\ bid.vast.protocol \in {3, 7}
                         /\ bid.vast.inline => bid.vast.mime = "mp4" /\ bid.vast.dur \in 5..60

ResponseFits(s) ==
  IsStr(s.id) /\ ~Doubled(s) /\ \A n \in DOMAIN s.bids : BidFits(s.bids[n], s.cur)

\* For such a document the very first self-test is clean as well.
FittingIsClean ==
  presses = 1 /\ (IF newest = "response" THEN RequestFits(req) ELSE ResponseFits(res))
    => Crits = {}

\* The generator and the crosscheck agree: at once for the documents its fixed
\* creative fits, and for all others once both documents are its own.
GeneratorIsClean == FittingIsClean /\ SettlesClean

\* A mirrored pair never trades below its own floor: a bid of a cent or more
\* clears it, where each has an impression of its own.
BidsClear ==
  Mirrored => \A f \in Crosscheck(req, res) :
    f.code = "below_floor" => \/ res.bids[f.bid].price.n < 10
                              \/ Doubled(res) \/ Twinned(req)

\* Every self-test is clean: "A clean self-test is the contract", says
\* packages/core/index.js:590.  False of the code, first of all for an
\* impression that offers audio only; no run checks it.
SelfTestClean == Mirrored => Crits = {}
=============================================================================
