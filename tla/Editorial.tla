------------------------------ MODULE Editorial ------------------------------
(***************************************************************************)
(* The blog's editorial pipeline: drafts and posts in ClickHouse, promoted *)
(* articles as files, and the producers that decide about a draft: the     *)
(* administrator (modules/admin/blog.js) and, after each crawl, the news   *)
(* moderator (lib/news-moderator.js), through lib/blog-service.js.  Files  *)
(* and ClickHouse share no transaction.                                    *)
(*                                                                         *)
(* ClickHouse is external.  An update of a draft is a mutation: it is      *)
(* registered, and applied later in the order of registration; one whose   *)
(* request timed out may still be registered.  A SELECT sees what has been *)
(* applied.                                                                *)
(*                                                                         *)
(* Abstractions.  A post and an article live under a slug; the draft's own *)
(* language is left out, and the moderator's rows in Languages languages   *)
(* are inserts of one slug.  Draft metadata is valid.  Everything happens  *)
(* on one day.  Drafts are moderated in any order, not the oldest first.   *)
(***************************************************************************)
EXTENDS Naturals, Sequences, FiniteSets

CONSTANTS
  Drafts, Slugs, None,
  Admins,      \* decisions an administrator may have under way
  Attempts,    \* bound: decisions and runs of the moderator taken in all
  Relevant,    \* drafts the relevance rules pass
  Operator,    \* an article no draft became
  Torn,        \* a file whose writing was cut off by a crash
  Limit,       \* MAX_ARTICLES_PER_DAY
  Batch,       \* MAX_DRAFTS_PER_RUN
  Languages    \* how many rows the moderator publishes

VARIABLES
  status, slug,   \* the row of every draft
  posts,          \* the draft whose row is the newest under a slug
  file,           \* content/posts: whose article is at a slug
  queue,          \* mutations registered and not yet applied
  sent,           \* mutations on their way from requests that were given up
  admin,          \* what every decision of an administrator is at
  mod,            \* the run of the moderator
  attempts        \* decisions and runs taken

vars == <<status, slug, posts, file, queue, sent, admin, mod, attempts>>

Statuses == {"absent", "pending", "published", "promoted", "rejected"}
Rest == [at |-> "idle", draft |-> None, slug |-> None, made |-> FALSE]
ModRest == [at |-> "idle", count |-> 0, batch |-> {}, draft |-> None, slug |-> None, left |-> 0]

At(a, step) == admin' = [admin EXCEPT ![a].at = step]
Done(a) == admin' = [admin EXCEPT ![a] = Rest]
ModTo(step) == mod' = [mod EXCEPT !.at = step]

\* activeDraftActions
Active == {admin[a].draft : a \in Admins} \ {None}

-----------------------------------------------------------------------------
(* Mutations of a draft.                                                   *)

Mutation(d, to, s, from) == [draft |-> d, to |-> to, slug |-> s, from |-> from]

MarkPublished(d, s) == Mutation(d, "published", s, Statuses)
MarkRejected(d) == Mutation(d, "rejected", None, Statuses)

\* The promotion never overrules a decision another producer has taken since.
MarkPromoted(d, s) == Mutation(d, "promoted", s, {"pending", "published"})

Registers(m) == queue' = Append(queue, m) /\ UNCHANGED sent
Fails(m) == UNCHANGED queue /\ (UNCHANGED sent \/ sent' = sent \cup {m})

RegisterLate(m) ==
  /\ queue' = Append(queue, m) /\ sent' = sent \ {m}
  /\ UNCHANGED <<status, slug, posts, file, admin, mod, attempts>>

Apply ==
  /\ queue # <<>>
  /\ LET m == Head(queue)  hit == status[m.draft] \in m.from IN
     /\ status' = IF hit THEN [status EXCEPT ![m.draft] = m.to] ELSE status
     /\ slug' = IF hit /\ m.slug # None THEN [slug EXCEPT ![m.draft] = m.slug] ELSE slug
  /\ queue' = Tail(queue)
  /\ UNCHANGED <<posts, file, sent, admin, mod, attempts>>

-----------------------------------------------------------------------------
(* The administrator.                                                      *)

\* The crawler, or the administrator's ingest.
Ingest(d) ==
  /\ status[d] = "absent"
  /\ status' = [status EXCEPT ![d] = "pending"]
  /\ UNCHANGED <<slug, posts, file, queue, sent, admin, mod, attempts>>

Decide(a, d, step, s) ==
  /\ admin[a].at = "idle" /\ d \notin Active /\ attempts < Attempts
  /\ admin' = [admin EXCEPT ![a] = [Rest EXCEPT !.at = step, !.draft = d, !.slug = s]]
  /\ attempts' = attempts + 1
  /\ UNCHANGED <<status, slug, posts, file, queue, sent, mod>>

\* handleReject: whatever the draft is by now.
Reject(a) ==
  /\ admin[a].at = "reject"
  /\ LET m == MarkRejected(admin[a].draft) IN Registers(m) \/ Fails(m)
  /\ Done(a)
  /\ UNCHANGED <<status, slug, posts, file, mod, attempts>>

MayPromote(a) == status[admin[a].draft] \in {"pending", "published"}

\* handleApprove reads the draft ...
ReadFails(a) ==
  /\ admin[a].at \in {"publish", "promote"}
  /\ Done(a)
  /\ UNCHANGED <<status, slug, posts, file, queue, sent, mod, attempts>>

\* ... a publication is of a pending draft, and inserts the row first ...
ReadPublish(a) ==
  /\ admin[a].at = "publish"
  /\ IF status[admin[a].draft] = "pending" THEN At(a, "insert") ELSE Done(a)
  /\ UNCHANGED <<status, slug, posts, file, queue, sent, mod, attempts>>

Insert(a) ==
  /\ admin[a].at = "insert"
  /\ \/ posts' = [posts EXCEPT ![admin[a].slug] = admin[a].draft] /\ (At(a, "mark") \/ Done(a))
     \/ UNCHANGED posts /\ Done(a)
  /\ UNCHANGED <<status, slug, file, queue, sent, mod, attempts>>

Mark(a) ==
  /\ admin[a].at = "mark"
  /\ LET m == MarkPublished(admin[a].draft, admin[a].slug) IN Registers(m) \/ Fails(m)
  /\ Done(a)
  /\ UNCHANGED <<status, slug, posts, file, mod, attempts>>

\* ... and a promotion creates the article, exclusively, before it goes on.
\* The article of an earlier attempt for the same draft and slug is as good.  A
\* draft promoted before is answered without a change.
Article(a) == file[admin[a].slug]

NotOwn(a) == Article(a) # admin[a].draft
MayCreate(a) == Article(a) = None

Creates(a) ==
  \/ /\ file' = [file EXCEPT ![admin[a].slug] = admin[a].draft]
     /\ admin' = [admin EXCEPT ![a].at = "update", ![a].made = TRUE]
  \/ UNCHANGED file /\ Done(a)

ReadPromote(a) ==
  /\ admin[a].at = "promote"
  /\ \/ MayCreate(a) /\ MayPromote(a) /\ Creates(a)
     \/ Article(a) = admin[a].draft /\ MayPromote(a) /\ At(a, "update") /\ UNCHANGED file
     \/ ~(MayPromote(a) /\ Article(a) \in {None, admin[a].draft}) /\ Done(a) /\ UNCHANGED file
  /\ UNCHANGED <<status, slug, posts, queue, sent, mod, attempts>>

\* The update: registered, and waited for; or nobody knows (503).  The article
\* stays then, for the next attempt to find.
Update(a) ==
  /\ admin[a].at = "update"
  /\ LET m == MarkPromoted(admin[a].draft, admin[a].slug) IN
     \/ Registers(m) /\ At(a, "wait")
     \/ Fails(m) /\ Done(a)
  /\ UNCHANGED <<status, slug, posts, file, mod, attempts>>

Gone(a) == \A i \in 1..Len(queue) :
             queue[i] # MarkPromoted(admin[a].draft, admin[a].slug)

Withdrawn(a) == [file EXCEPT ![admin[a].slug] = None]

KeptOnTimeout(a) == IF admin[a].made THEN Withdrawn(a) ELSE file
Kept(a) == file

Wait(a) ==
  /\ admin[a].at = "wait"
  /\ \/ Gone(a) /\ At(a, "check") /\ UNCHANGED file
     \/ Done(a) /\ file' = Kept(a)
  /\ UNCHANGED <<status, slug, posts, queue, sent, mod, attempts>>

\* removeOwnFile: what this attempt made, and nothing else.
OwnRemoved(a) == IF admin[a].made THEN Withdrawn(a) ELSE file

\* The readback: it fails (503), it confirms, or another decision came first.
Check(a) ==
  LET d == admin[a].draft  s == admin[a].slug IN
  /\ admin[a].at = "check"
  /\ \/ UNCHANGED file
     \/ (status[d] # "promoted" \/ slug[d] # s) /\ file' = OwnRemoved(a)
  /\ Done(a)
  /\ UNCHANGED <<status, slug, posts, queue, sent, mod, attempts>>

-----------------------------------------------------------------------------
(* The moderator, one run at a time.                                       *)

Today == Cardinality({s \in Slugs : posts[s] # None})

StartRun ==
  /\ mod.at = "idle" /\ Today < Limit /\ attempts < Attempts
  /\ mod' = [ModRest EXCEPT !.at = "fetch", !.count = Today]
  /\ attempts' = attempts + 1
  /\ UNCHANGED <<status, slug, posts, file, queue, sent, admin>>

Pending == {d \in Drafts : status[d] = "pending"}

Fetch ==
  /\ mod.at = "fetch"
  /\ \/ \E b \in SUBSET Pending :
          /\ Cardinality(b) = IF Cardinality(Pending) < Batch THEN Cardinality(Pending) ELSE Batch
          /\ mod' = [mod EXCEPT !.at = "loop", !.batch = b]
     \/ mod' = ModRest
  /\ UNCHANGED <<status, slug, posts, file, queue, sent, admin, attempts>>

\* Past the limit the rest stays pending; a failed translation skips the draft.
NextDraft(d) ==
  /\ mod.at = "loop" /\ d \in mod.batch /\ mod.count < Limit
  /\ mod' = [mod EXCEPT !.at = IF d \in Relevant THEN "translate" ELSE "reject",
                        !.batch = @ \ {d}, !.draft = d]
  /\ UNCHANGED <<status, slug, posts, file, queue, sent, admin, attempts>>

EndRun ==
  /\ mod.at = "loop" /\ (mod.batch = {} \/ mod.count >= Limit)
  /\ mod' = ModRest
  /\ UNCHANGED <<status, slug, posts, file, queue, sent, admin, attempts>>

ModReject ==
  /\ mod.at = "reject"
  /\ LET m == MarkRejected(mod.draft) IN Registers(m) \/ Fails(m)
  /\ ModTo("loop")
  /\ UNCHANGED <<status, slug, posts, file, admin, attempts>>

\* The model names the slug.
Translate ==
  /\ mod.at = "translate"
  /\ \/ ModTo("loop")
     \/ \E s \in Slugs : mod' = [mod EXCEPT !.at = "insert", !.slug = s, !.left = Languages]
  /\ UNCHANGED <<status, slug, posts, file, queue, sent, admin, attempts>>

ModInsert ==
  /\ mod.at = "insert"
  /\ \/ posts' = [posts EXCEPT ![mod.slug] = mod.draft] /\ (ModTo("mark") \/ ModTo("loop"))
     \/ UNCHANGED posts /\ ModTo("loop")
  /\ UNCHANGED <<status, slug, file, queue, sent, admin, attempts>>

ModMark ==
  /\ mod.at = "mark"
  /\ LET m == MarkPublished(mod.draft, mod.slug) IN
     \/ /\ Registers(m)
        /\ mod' = IF mod.left > 1 THEN [mod EXCEPT !.at = "insert", !.left = @ - 1]
                  ELSE [mod EXCEPT !.at = "loop", !.left = 0, !.count = @ + 1]
     \/ Fails(m) /\ ModTo("loop")
  /\ UNCHANGED <<status, slug, posts, file, admin, attempts>>

-----------------------------------------------------------------------------
\* The process dies: what it had under way is forgotten, and an article being
\* written may be left in part.
Crash ==
  /\ \/ UNCHANGED file
     \/ \E a \in Admins : /\ admin[a].at = "promote" /\ MayPromote(a) /\ MayCreate(a)
                          /\ file' = [file EXCEPT ![admin[a].slug] = Torn]
  /\ admin' = [a \in Admins |-> Rest] /\ mod' = ModRest
  /\ UNCHANGED <<status, slug, posts, queue, sent, attempts>>

Init ==
  /\ status = [d \in Drafts |-> "absent"]
  /\ slug = [d \in Drafts |-> None]
  /\ posts = [s \in Slugs |-> None]
  /\ file \in [Slugs -> {None, Operator}]
  /\ queue = <<>> /\ sent = {}
  /\ admin = [a \in Admins |-> Rest] /\ mod = ModRest
  /\ attempts = 0

Next ==
  \/ Apply \/ Crash
  \/ \E m \in sent : RegisterLate(m)
  \/ \E d \in Drafts : Ingest(d) \/ NextDraft(d)
  \/ \E a \in Admins :
       \/ \E d \in Drafts, s \in Slugs, step \in {"publish", "promote"} : Decide(a, d, step, s)
       \/ \E d \in Drafts : Decide(a, d, "reject", None)
       \/ Reject(a) \/ ReadFails(a) \/ ReadPublish(a) \/ Insert(a) \/ Mark(a)
       \/ ReadPromote(a) \/ Update(a) \/ Wait(a) \/ Check(a)
  \/ StartRun \/ Fetch \/ EndRun \/ ModReject \/ Translate \/ ModInsert \/ ModMark

Spec == Init /\ [][Next]_vars

-----------------------------------------------------------------------------
(* Properties.                                                             *)

\* Files and ClickHouse agree about what is an article, through every failure,
\* late update, retry and crash: a draft whose row says promoted has its own
\* article at its slug.  (specs/000-platform-baseline/contracts/content-seo.md:
\* the article "is preserved", and a conflict "removes only the file created
\* by that request".)
PromotedHasArticle ==
  \A d \in Drafts : status[d] = "promoted" => file[slug[d]] = d

\* No decision ever replaces or removes an article that is the operator's, or
\* that another draft became.
ArticlesAreKept ==
  [][ \A s \in Slugs : file[s] # None /\ file'[s] # file[s] =>
        /\ file'[s] = None
        /\ \E a \in Admins : admin[a].at # "idle" /\ admin[a].draft = file[s] ]_vars

\* A rejection by the administrator stands.  False of the code: the moderator
\* marks what it read as pending before, and no run checks it.
RejectionStands ==
  [][ \A d \in Drafts : status[d] = "rejected" => status'[d] = "rejected" ]_vars
=============================================================================
