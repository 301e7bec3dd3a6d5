------------------------------ MODULE Migration ------------------------------
(***************************************************************************)
(* The Migration tab: the advisor of OpenRTB 2.5 -> 2.6 changes            *)
(* (packages/core/migrate/index.js) and the tab that lists what it         *)
(* proposes for the request in the editor, applies what is ticked and      *)
(* offers an Undo (public/modules/migrate/index.js).                       *)
(*                                                                         *)
(* The list describes the text it was drawn from.  The editor stays        *)
(* writable beside it, and Apply asks the advisor again.                   *)
(*                                                                         *)
(* Abstractions.  A request is a function from the pointers of its leaves  *)
(* to values; a container is there when a leaf is under it.  A text is a   *)
(* request, other JSON or broken JSON, in the user's spacing or in         *)
(* Apply's.  Operations are sets: one removal has one partner at most, so  *)
(* their order does not show.  A fresh operation always has its parent,    *)
(* so none is skipped.  Rationales, specifications and the badge are left  *)
(* out.                                                                    *)
(***************************************************************************)
EXTENDS Naturals, Sequences, SequencesExt, TLC

CONSTANTS
  Texts,       \* what the editor may be given
  Contexts,    \* members of the request that carry categories: site, app
  Impressions  \* indices of imp[]

None == "none"

VARIABLES
  text,      \* the editor
  drawn,     \* the proposals on screen
  choice,    \* boxes ticked or unticked by hand
  undo,      \* undoText
  outcome,   \* lastOutcome: none, or whether Apply changed anything
  button     \* an Undo button is on screen

vars == <<text, drawn, choice, undo, outcome, button>>

-----------------------------------------------------------------------------
(* The advisor.                                                            *)

Promotion(rule, kind, confidence, source, target) ==
  [rule |-> rule, kind |-> kind, confidence |-> confidence,
   source |-> source, target |-> target]

\* Out of an ext member, into the object that has it.
Extensions ==
  {Promotion("regs.gdpr", "binary", "certain", <<"regs", "ext", "gdpr">>, <<"regs", "gdpr">>),
   Promotion("regs.us_privacy", "text", "certain", <<"regs", "ext", "us_privacy">>, <<"regs", "us_privacy">>),
   Promotion("source.schain", "object", "likely", <<"source", "ext", "schain">>, <<"source", "schain">>),
   Promotion("user.consent", "text", "certain", <<"user", "ext", "consent">>, <<"user", "consent">>),
   Promotion("user.eids", "array", "likely", <<"user", "ext", "eids">>, <<"user", "eids">>)}

ContentPromotion(c) ==
  Promotion("content.prodq", "integer", "certain",
            <<c, "content", "videoquality">>, <<c, "content", "prodq">>)
RewardPromotion(i) ==
  Promotion("imp.rwdd", "binary", "likely",
            <<"imp", i, "video", "ext", "rewarded">>, <<"imp", i, "rwdd">>)
ProtocolPromotion(i) ==
  Promotion("video.protocols", "listed", "certain",
            <<"imp", i, "video", "protocol">>, <<"imp", i, "video", "protocols">>)

Promotions == Extensions \cup {ContentPromotion(c) : c \in Contexts}
              \cup {RewardPromotion(i) : i \in Impressions}
              \cup {ProtocolPromotion(i) : i \in Impressions}

\* Values of each kind that normalize accepts, and what it makes of them.
Invalid == "invalid"
Accepted == [binary |-> {"0", "1", "true", "false"}, integer |-> {"0", "1", "2"},
             listed |-> {"0", "1", "2"}, text |-> {"a", "b"},
             object |-> {"{a}", "{b}"}, array |-> {"[a]", "[b]"}]

Normal(kind, v) ==
  CASE v \notin Accepted[kind] -> Invalid
    [] kind = "binary" /\ v = "true" -> "1"
    [] kind = "binary" /\ v = "false" -> "0"
    [] kind = "listed" -> ("0" :> "[0]" @@ "1" :> "[1]" @@ "2" :> "[2]")[v]
    [] OTHER -> v

Operation(op, rule, confidence, path, value) ==
  [op |-> op, rule |-> rule, confidence |-> confidence, path |-> path, value |-> value]

\* A field of 2.6 with another value is the sender's: nothing is proposed.
Promoted(doc, p) ==
  LET v == Normal(p.kind, doc[p.source])
      add == Operation("add", p.rule, p.confidence, p.target, v)
      remove == Operation("remove", p.rule, p.confidence, p.source, doc[p.source])
  IN IF p.source \notin DOMAIN doc \/ v = Invalid THEN {}
     ELSE IF p.target \notin DOMAIN doc THEN {add, remove}
     ELSE IF doc[p.target] = v THEN {remove} ELSE {}

CategoryTargets ==
  {[at |-> <<>>, keys |-> {"bcat"}]}
  \cup {[at |-> <<c>>, keys |-> {"cat", "sectioncat", "pagecat"}] : c \in Contexts}
  \cup {[at |-> <<c, "publisher">>, keys |-> {"cat"}] : c \in Contexts}
  \cup {[at |-> <<c, "content">>, keys |-> {"cat"}] : c \in Contexts}
  \cup {[at |-> <<c, "content", "producer">>, keys |-> {"cat"}] : c \in Contexts}

\* An array of codes: of taxonomy 1.0, of anything else, or empty.
CodeLists == {"[IAB1]", "[x]", "[]"}
Codes(doc, t) ==
  {doc[Append(t.at, k)] : k \in {j \in t.keys : Append(t.at, j) \in DOMAIN doc}} \cap CodeLists

Named(doc, t) == FALSE
Cattax(doc, t) == Append(t.at, "cattax") \in DOMAIN doc

Categorized(doc, t) ==
  IF Codes(doc, t) = {} \/ Cattax(doc, t) THEN {}
  ELSE {Operation("add", "category.cattax",
                  IF Codes(doc, t) \subseteq {"[IAB1]", "[]"} /\ "[IAB1]" \in Codes(doc, t)
                  THEN "certain" ELSE "review",
                  Append(t.at, "cattax"), "1")}

IsRequest(t) == t.is = "request"

Advice(t) ==
  IF ~IsRequest(t) THEN {}
  ELSE UNION ({Promoted(t.doc, p) : p \in Promotions}
              \cup {Categorized(t.doc, c) : c \in CategoryTargets})

-----------------------------------------------------------------------------
(* Operations back into proposals.                                         *)

Apart(a, r) == FALSE

\* An addition is the other half of a removal underneath its parent.
Under(a, r) ==
  /\ a.rule = r.rule /\ Len(a.path) > 1
  /\ IsStrictPrefix(Front(a.path), r.path)

Halves(ops) == {h \in {o \in ops : o.op = "add"} \X {o \in ops : o.op = "remove"} : Under(h[1], h[2])}

GroupProposals(ops) ==
  {{h[1], h[2]} : h \in Halves(ops)}
  \cup {{o} : o \in {x \in ops : \A h \in Halves(ops) : x \notin {h[1], h[2]}}}

\* key: what is written and removed, not the value, nor how sure the advice is.
Key(p) == {<<o.op, o.path>> : o \in p}

\* Both halves of a move have one confidence.
Confidence(p) == (CHOOSE o \in p : TRUE).confidence

DEFAULT_SELECTED == {"certain", "likely"}

IsSelected(p) ==
  IF Key(p) \in DOMAIN choice THEN choice[Key(p)] ELSE Confidence(p) \in DEFAULT_SELECTED

-----------------------------------------------------------------------------
(* The tab.                                                                *)

Render(picks) ==
  /\ drawn' = GroupProposals(Advice(text'))
  /\ choice' = [k \in DOMAIN picks \cap {Key(p) : p \in drawn'} |-> picks[k]]
  /\ button' = (outcome' # None /\ IsRequest(text'))

NoChoice == <<>>
NoText == [is |-> None]

\* The user types, pastes, or loads something into the editor.
Edit(t) ==
  /\ text' = t
  /\ UNCHANGED <<drawn, choice, undo, outcome, button>>

\* The tab is opened, or Refresh pressed.
Refresh ==
  /\ outcome' = None
  /\ UNCHANGED <<text, undo>>
  /\ Render(choice)

Tick(p, ticked) ==
  /\ p \in drawn
  /\ choice' = (Key(p) :> ticked) @@ choice
  /\ UNCHANGED <<text, drawn, undo, outcome, button>>

TickAll(ticked) ==
  /\ drawn # {}
  /\ choice' = [k \in {Key(p) : p \in drawn} |-> ticked] @@ choice
  /\ UNCHANGED <<text, drawn, undo, outcome, button>>

Added(doc, ops) ==
  LET paths == {o.path : o \in {x \in ops : x.op = "add"}}
  IN [q \in DOMAIN doc \cup paths |->
        IF q \in paths THEN (CHOOSE o \in ops : o.op = "add" /\ o.path = q).value ELSE doc[q]]

ApplyOperations(doc, ops) ==
  LET removed == {o.path : o \in {x \in ops : x.op = "remove"}}
      added == Added(doc, ops)
  IN [q \in DOMAIN added \ removed |-> added[q]]

\* Of what is ticked on screen, what the advisor still proposes.
Wanted == {p \in drawn : IsSelected(p)}
Live == {p \in GroupProposals(Advice(text)) : Key(p) \in {Key(w) : w \in Wanted}}

ApplySelected ==
  /\ Wanted # {}
  /\ IF text.is = "broken" THEN UNCHANGED <<text, undo, outcome>> /\ Render(choice)
     ELSE IF Live = {}
       THEN outcome' = "unchanged" /\ UNCHANGED <<text, undo>> /\ Render(choice)
     ELSE /\ undo' = text
          /\ text' = [is |-> "request", spacing |-> "tab",
                      doc |-> ApplyOperations(text.doc, UNION Live)]
          /\ outcome' = "changed"
          /\ Render(NoChoice)

Undo ==
  /\ button
  /\ IF undo = NoText THEN UNCHANGED vars
     ELSE /\ text' = undo /\ undo' = NoText /\ outcome' = None
          /\ Render(NoChoice)

Init ==
  /\ text \in Texts
  /\ drawn = GroupProposals(Advice(text)) /\ choice = NoChoice
  /\ undo = NoText /\ outcome = None /\ button = FALSE

Next ==
  \/ \E t \in Texts : Edit(t)
  \/ Refresh
  \/ \E p \in drawn, ticked \in BOOLEAN : Tick(p, ticked)
  \/ \E ticked \in BOOLEAN : TickAll(ticked)
  \/ ApplySelected
  \/ Undo

Spec == Init /\ [][Next]_vars

-----------------------------------------------------------------------------
(* Properties.                                                             *)

\* The step is an Apply that rewrites the editor.
Applies == outcome' = "changed" /\ ApplySelected /\ Live # {}

Carried(p, old, new) ==
  p.target \in DOMAIN new /\ new[p.target] = Normal(p.kind, old[p.source])

\* Whatever is ticked, Apply loses no value and overwrites none: each one is
\* where it was, or a promotion brought it to its new place; and all that is
\* new came that way or is a cattax.  (modules/migrate/index.js:17-22: nobody
\* can "silently DELETE a consent string".)
NothingLost ==
  [][ Applies =>
        /\ \A q \in DOMAIN text.doc :
             \/ q \in DOMAIN text'.doc /\ text'.doc[q] = text.doc[q]
             \/ \E p \in Promotions : p.source = q /\ Carried(p, text.doc, text'.doc)
        /\ \A q \in DOMAIN text'.doc \ DOMAIN text.doc :
             \/ Last(q) = "cattax"
             \/ \E p \in Promotions : p.target = q /\ p.source \in DOMAIN text.doc
                                      /\ Carried(p, text.doc, text'.doc) ]_vars

\* What was applied is never proposed again, and applying it changes nothing
\* about the rest of the advice: the migration ends.
AdviceIsSpent ==
  [][ Applies => Advice(text') = Advice(text) \ UNION Live ]_vars

\* An Undo is offered only after an Apply that changed the editor
\* (modules/migrate/index.js:483-485).  False of the code.
UndoIsHonest == button => outcome = "changed"

\* What needs review is applied only where its box was ticked by hand
\* (modules/migrate/index.js:24-27).  False of the code: a text edited since it
\* was drawn may need review where the one on screen did not.
ReviewIsChosen ==
  [][ Applies => \A o \in Advice(text) \ Advice(text') :
        o.confidence = "review" =>
          \E k \in DOMAIN choice : <<o.op, o.path>> \in k /\ choice[k] ]_vars
=============================================================================
