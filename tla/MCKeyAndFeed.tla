---------------------------- MODULE MCKeyAndFeed ----------------------------
(***************************************************************************)
(* Two parts that share no state: the account key, two tabs of one         *)
(* browser, and the live feed, one page at its address with other tabs.  A *)
(* behaviour is one of one part, chosen in Init; the other stays where it  *)
(* begins.                                                                 *)
(***************************************************************************)
EXTENDS MCAccountCrypto, FiniteSets

CONSTANTS
  Corpus, Dirty, RingMax, ReplayMax, StoreMax, EvictCount, SlotLimit, Ids,
  MaxRows, SeenMax, BatchMax, CallBudget, MaxFrames, MaxProbes

\* What the code's own limits satisfy: a replay is of the ring and is remembered, every
\* row is, and evicting a tenth of the specimens leaves those in the ring.
ASSUME FeedLimits ==
  /\ ReplayMax <= RingMax /\ ReplayMax <= SeenMax /\ MaxRows <= SeenMax
  /\ RingMax + EvictCount <= StoreMax + 1

ASSUME FeedConstants ==
  /\ IsFiniteSet(Ids) /\ Ids \subseteq Nat \ {0}
  /\ Corpus \in Nat \ {0}
  /\ {RingMax, ReplayMax, StoreMax, EvictCount, SlotLimit, SeenMax} \subseteq Nat
  /\ {MaxRows, BatchMax} \subseteq Nat \ {0}

VARIABLES half, feed, line, table, grading

stream == <<feed, line, table, grading>>

S == INSTANCE LiveStream WITH server <- feed

BothInit == Init /\ S!Init /\ half \in {"key", "feed"}

KeyMoves == half = "key" /\ Next /\ UNCHANGED <<half, stream>>
FeedMoves == half = "feed" /\ S!Next /\ UNCHANGED <<half, vars>>

BothNext == KeyMoves \/ FeedMoves

BothSpec == BothInit /\ [][BothNext]_<<half, vars, stream>>

-----------------------------------------------------------------------------

\* Live feed: reconnections, replays, pauses, evictions and late grades leave the table
\* the newest frames, once each and in order, graded and filtered as the page knows.
TableIsFeed == S!FeedIsWhole /\ S!ViewIsGraded

\* Live feed: a slot is held as long as a viewer, the generator runs for viewers only,
\* and what is replayed can be opened by its link.
SlotsAreViewers == S!SlotsAreViewers
=============================================================================
