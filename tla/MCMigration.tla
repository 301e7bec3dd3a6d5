----------------------------- MODULE MCMigration -----------------------------
(***************************************************************************)
(* One request for each thing the advisor looks at, and a few that bring   *)
(* two of them together.                                                   *)
(***************************************************************************)
EXTENDS Migration

Typed(doc) == [is |-> "request", spacing |-> "user", doc |-> doc]

Rewarded(i) == <<"imp", i, "video", "ext", "rewarded">>
Rwdd(i) == <<"imp", i, "rwdd">>

\* Every promotion of the request and of its first impression.
Each == {p.source :> v : p \in {q \in Promotions : q.source[2] # "1"},
                         v \in {"1", "a", "{a}", "[a]"}}

\* What may already be where a value would go.
Met == {(<<"user", "ext", "consent">> :> "a") @@ (<<"user", "consent">> :> v) : v \in {"a", "b"}}
       \cup {(Rewarded("0") :> "true") @@ (Rwdd("0") :> v) : v \in {"1", "0"}}

\* Two impressions that need different halves of one rule.
Two == {(Rewarded("0") :> "true") @@ (Rwdd("0") :> "1") @@ (Rewarded("1") :> v) : v \in {"true", "0", "bad"}}
       \cup {(Rewarded("0") :> "0") @@ (Rewarded("1") :> "true")}

Categories == {<<"bcat">> :> v : v \in CodeLists}
              \cup {(<<"site", "cat">> :> "[IAB1]") @@ (<<"site", "pagecat">> :> "[x]"),
                    (<<"bcat">> :> "[IAB1]") @@ (<<"site", "content", "producer", "cat">> :> "[x]"),
                    (<<"app", "cat">> :> "[x]") @@ (<<"app", "cattax">> :> "2")}

AllTexts ==
  {Typed(d) : d \in {e \in Each : \E p \in Promotions :
                       \E q \in DOMAIN e : p.source = q /\ e[q] \in Accepted[p.kind]}
                    \cup Met \cup Two \cup Categories}
  \cup {[is |-> i, spacing |-> "user"] : i \in {"broken", "other"}}
=============================================================================
