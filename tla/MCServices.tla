----------------------------- MODULE MCServices -----------------------------
(***************************************************************************)
(* Three parts that share no state: the editorial pipeline with two        *)
(* drafts, one of them relevant, share links of two addresses, and the     *)
(* creative preview of the Inspector.  A behaviour is one of one part,     *)
(* chosen in Init; the others keep their variables idle.                   *)
(***************************************************************************)
EXTENDS Naturals, FiniteSets, TLC

CONSTANTS
  d1, d2, s1, s2, a1, a2, ip1, ip2,
  Drafts, Slugs, None, Admins, Attempts, Relevant,    \* Editorial
  Operator, Torn, Limit, Batch, Languages,
  Addresses, Sizes, MaxTotal, IpBudget, Day, Ttl,     \* ShareLinks
  MaxTracked, WriteMax, WriteWindow, LastDay,
  Banners, Texts, Assets, Items, LongItems,           \* CreativePreview
  LedgerCap, LogCap, FreezeAfter,
  MaxRenders, MaxEvents, MaxRefusals, MaxMail, MaxAsked

ASSUME ServicesAssumption ==
  /\ None \notin Drafts \cup Slugs /\ {Operator, Torn} \cap (Drafts \cup {None}) = {}
  /\ IsFiniteSet(Slugs) /\ Languages \in Nat
  /\ LogCap \in Nat \ {0} /\ FreezeAfter \in Nat

\* MIN_TTL_DAYS is one day.
ASSUME LinksAssumption ==
  /\ Sizes \cup {MaxTotal, IpBudget} \subseteq Nat
  /\ Day \in Nat \ {0} /\ Ttl \in Nat /\ Day <= Ttl

VARIABLES
  service,
  status, slug, posts, file, queue, sent, admin, mod, attempts,
  now, rows, ipBytes, buckets, reading, due, swept, forgot,
  probe, rev, wanted, shown, page, mail, behavior, ledger, watch,
  findings, unread, asked, offer, batches

editorial == <<status, slug, posts, file, queue, sent, admin, mod, attempts>>
links == <<now, rows, ipBytes, buckets, reading, due, swept, forgot>>
preview == <<probe, rev, wanted, shown, page, mail, behavior, ledger, watch,
             findings, unread, asked, offer, batches>>

E == INSTANCE Editorial
L == INSTANCE ShareLinks
P == INSTANCE CreativePreview WITH waiting <- unread

TwoDrafts == {d1, d2}
OneRelevant == {d1}
TwoSlugs == {s1, s2}
TwoAdmins == {a1, a2}
TwoAddresses == {ip1, ip2}

\* Slugs, administrators and addresses are only ever compared.
Alike == Permutations(TwoSlugs) \cup Permutations(TwoAdmins) \cup Permutations(TwoAddresses)

EditorialIdle ==
  /\ status = None /\ slug = None /\ posts = None /\ queue = None
  /\ sent = None /\ admin = None /\ mod = None /\ attempts = None
  /\ file = [s \in Slugs |-> None]   \* looked at by ArticlesAreKept

LinksIdle ==
  /\ now = None /\ rows = None /\ ipBytes = None /\ buckets = None
  /\ reading = None /\ due = None /\ swept = None /\ forgot = None

PreviewIdle ==
  /\ probe = None /\ rev = None /\ wanted = None /\ shown = None /\ page = None
  /\ mail = None /\ behavior = None /\ ledger = None /\ watch = None /\ findings = None
  /\ unread = None /\ asked = None /\ offer = None /\ batches = None

ServicesInit ==
  \/ service = "editorial" /\ E!Init /\ LinksIdle /\ PreviewIdle
  \/ service = "links" /\ L!Init /\ EditorialIdle /\ PreviewIdle
  \/ service = "preview" /\ P!Init /\ EditorialIdle /\ LinksIdle

Edits == service = "editorial" /\ E!Next /\ UNCHANGED <<service, links, preview>>
Shares == service = "links" /\ L!Next /\ UNCHANGED <<service, editorial, preview>>
Previews == service = "preview" /\ P!Next /\ UNCHANGED <<service, editorial, links>>

ServicesNext == Edits \/ Shares \/ Previews

ServicesSpec == ServicesInit /\ [][ServicesNext]_<<service, editorial, links, preview>>

-----------------------------------------------------------------------------
(* The properties of the parts, each in its part.                          *)

\* Editorial: a promoted draft has its own article at its slug.
PromotedHasArticle == service = "editorial" => E!PromotedHasArticle

\* Editorial: no decision replaces or removes an article that is not its own.
ArticlesAreKept == E!ArticlesAreKept

\* Share links: no address outstays its share, and the disk is bounded.
CeilingsHold == service = "links" => L!CeilingsHold

\* Creative preview: the log of behaviour and the word that the creative froze belong
\* to the document on screen, no flood or late message takes them away, and ledger,
\* scanned bytes, findings and frame describe one document.
PreviewIsOneDocument ==
  service = "preview" => P!EvidenceIsItsOwn /\ P!ColumnIsOneDocument
=============================================================================
