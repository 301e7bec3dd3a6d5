------------------------------ MODULE MCMirror ------------------------------
(***************************************************************************)
(* Requests of one or two impressions and responses of up to two bids,     *)
(* drawn from lists that vary one thing the generator or the crosscheck    *)
(* looks at a time.                                                        *)
(***************************************************************************)
EXTENDS Mirror

GivenIds == <<"imp-1", "imp-2", "imp-3">>

Slot == [id |-> "s1", floor |-> Mills(500), floorcur |-> "USD", offers |-> {"banner"},
         video |-> NoVideo, native |-> NoNative]
Asset(id, required, kind) == [id |-> id, required |-> required, kind |-> kind]

Videos == {NoVideo, [NoVideo EXCEPT !.protocols = {2, 3}],
           [NoVideo EXCEPT !.mimes = {"webm"}],
           [NoVideo EXCEPT !.max = 4], [NoVideo EXCEPT !.max = 10], [NoVideo EXCEPT !.max = 30, !.min = 30],
           [NoVideo EXCEPT !.max = 60, !.min = 40]}

AssetLists == {<<>>, <<Asset(1, TRUE, "title")>>,
               <<Asset(2, TRUE, "img"), Asset(3, FALSE, "data")>>,
               <<Asset(NotANumber, TRUE, "title"), Asset(2, FALSE, "img")>>}

Natives == [shape : {"wrapped", "bare", "broken"}, assets : AssetLists]

Slots ==
  {[Slot EXCEPT !.offers = o] : o \in SUBSET Media}
  \cup {[Slot EXCEPT !.floor = f, !.floorcur = c] :
          f \in {Missing, Unreadable, Mills(0), Mills(4), Mills(1004),
                 [n |-> 500, typed |-> FALSE]}, c \in {"USD", "EUR"}}
  \cup {[Slot EXCEPT !.offers = {"video"}, !.video = v] : v \in Videos}
  \cup {[Slot EXCEPT !.offers = o, !.native = n] :
          o \in {{"native"}, {"native", "banner"}}, n \in Natives}

Ids == {"s1", "s2", "1", "1#", "missing"}

Heads == {[NoRequest EXCEPT !.id = "r"], [NoRequest EXCEPT !.id = "missing"],
          [NoRequest EXCEPT !.id = "r", !.cur = "EUR"],
          [NoRequest EXCEPT !.id = "r", !.badv = {"advertiser.example"}],
          [NoRequest EXCEPT !.id = "r", !.bcat = {"IAB3"}],
          [NoRequest EXCEPT !.id = "r", !.wseat = {"house"}]}

AllRequests ==
  {[h EXCEPT !.imps = <<s>>] : h \in Heads, s \in Slots}
  \cup {[NoRequest EXCEPT !.id = "r", !.imps = <<[a EXCEPT !.id = i], [b EXCEPT !.id = "s2"]>>] :
          a \in Slots, b \in Slots, i \in {"s1", "1#", "missing"}}
  \cup {[NoRequest EXCEPT !.id = "r", !.imps = <<[a EXCEPT !.id = i], [Slot EXCEPT !.id = j]>>] :
          a \in Slots, i \in Ids, j \in Ids \cup {"imp-1"}}
  \cup {[NoRequest EXCEPT !.id = "r"]}

Bid == [impid |-> "s1", price |-> Mills(1000), adm |-> "html", vast |-> NoVast,
        assets |-> <<>>, unsafe |-> FALSE, mtype |-> "none", adomain |-> "other",
        cat |-> {}]

Vasts == [inline : {TRUE}, protocol : {2, 3, 7}, mime : {"mp4", "webm", "mp3"},
          dur : {0, 3, 15, 90}]
         \cup [inline : {FALSE}, protocol : {6, 7}, mime : {"none"}, dur : {0}]

Bids ==
  {[Bid EXCEPT !.price = p, !.impid = i] :
     p \in {Unreadable, Mills(0), Mills(4), Mills(9), Mills(10), Mills(11), Mills(30),
            [n |-> 1000, typed |-> FALSE]}, i \in Ids}
  \cup {[Bid EXCEPT !.adm = a, !.mtype = m] :
          a \in {"html", "daast", "bare-native", "none"}, m \in Media \cup {"none"}}
  \cup {[Bid EXCEPT !.adm = "vast", !.vast = v] : v \in Vasts}
  \cup {[Bid EXCEPT !.adm = "native", !.assets = a, !.unsafe = u] :
          a \in AssetLists, u \in BOOLEAN}

AllResponses ==
  {[NoResponse EXCEPT !.id = i, !.cur = c, !.bids = <<b>>] :
     i \in {"r", "missing"}, c \in {"USD", "EUR"}, b \in Bids}
  \cup {[NoResponse EXCEPT !.id = "r", !.seat = "house", !.bids = <<a, b>>] :
          a \in Bids, b \in {[x EXCEPT !.impid = j] : x \in Bids, j \in {"s1", "s2"}}}
  \cup {[NoResponse EXCEPT !.id = "r", !.bids = <<[a EXCEPT !.impid = i], b>>] :
          a \in Bids, b \in {[Bid EXCEPT !.impid = j, !.price = Mills(30)] : j \in Ids}, i \in Ids \cup {"imp-2"}}
  \cup {[NoResponse EXCEPT !.id = "r"]}
=============================================================================
