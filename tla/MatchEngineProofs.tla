------------------------- MODULE MatchEngineProofs --------------------------
(***************************************************************************)
(* The inductive invariant of MatchEngine, and the steps of a submission,    *)
(* from submit to the rest of the order in the book, that keep it.           *)
(***************************************************************************)
EXTENDS MatchEngine, OrderBookProofs

-----------------------------------------------------------------------------
(* Cancels, and the empty book.                                             *)

\* What a removal of slot s leaves.
Cancelled(b, c, s) ==
    /\ BookInv(c, Live(c), {}) /\ IsInjective(c.free) /\ Live(c) = Live(b) \ {s}
    /\ Follows(b, Live(b), c, Live(c), s) /\ SameOrders(b, c, Live(c)) /\ FewerQuotes(b, c)
    /\ c.level_price = b.level_price
    /\ \A sd \in Sides : c.best[sd] = b.best[sd] \/ (c.best[sd] = NULL /\ sd = b.at[s][1])

\* The slot that Detach frees joins the free stack.
LEMMA RemoveFrees ==
    ASSUME NEW b, NEW E, BookInv(b, Live(b), E), IsInjective(b.free), NEW s \in Live(b),
           NEW c, c.free = Append(b.free, s)
    PROVE  IsInjective(c.free) /\ Live(c) = Live(b) \ {s}
<1>1. b.free \in Seq(Slots)
  BY DEF BookInv, BookOK
<1>2. s \in Slots /\ s \notin Range(b.free)
  BY DEF Live
<1>3. Range(Append(b.free, s)) = Range(b.free) \cup {s} /\ IsInjective(Append(b.free, s))
  BY <1>1, <1>2, Pushed
<1>4. Range(c.free) = Range(b.free) \cup {s} /\ IsInjective(c.free)
  BY Zenon, <1>3
<1> QED BY <1>4 DEF Live

\* cancel_order takes its order out, and its level too when that leaves it empty.
LEMMA CancelKeeps ==
    ASSUME NEW b, BookInv(b, Live(b), {}), IsInjective(b.free), NEW s \in Live(b),
           EmptyAgree(Detach(b, b.at[s], s))
    PROVE  Cancelled(b, cancel_order(b, s), s)
<1> DEFINE L == Live(b)
           k == b.at[s]
           d == Detach(b, k, s)
           c == DropEmpty(d, k)
<1>0. c = cancel_order(b, s)
  BY DEF cancel_order
<1>1. /\ BookInv(d, L \ {s}, {k}) /\ Follows(b, L, d, L \ {s}, s)
      /\ FewerQuotes(b, d) /\ d.free = Append(b.free, s)
      /\ SameBut(b, d, {"qty", "total", "next", "prev", "head", "tail", "cnt", "free"})
      /\ \A t \in L \ {s} : d.qty[t] = b.qty[t]
  <2>1. Removed(b, d, L, s)
    <3> DEFINE E == {}
    <3> (\A j \in E : j = k) /\ BookInv(b, L, E) /\ s \in L
      OBVIOUS
    <3> HIDE DEF L, E
    <3> QED BY Zenon, RemoveKeeps
  <2> HIDE DEF d
  <2> QED BY Zenon, <2>1 DEF Removed
<1>2. IsInjective(d.free) /\ Live(d) = L \ {s}
  BY Zenon, <1>1, RemoveFrees
<1>3. k \in Levels /\ b.active[k] /\ EmptyAgree(d)
  BY DEF BookInv, BookOK, OrdersInv
<1> HIDE DEF d, k, L
<1>4. /\ d.active = b.active /\ d.cid = b.cid /\ d.coid = b.coid /\ d.best = b.best
      /\ d.level_price = b.level_price
  BY <1>1 DEF SameBut, Fields
<1>5. /\ BookInv(c, L \ {s}, {}) /\ SameBut(d, c, {"active", "map", "best"})
      /\ FewerQuotes(d, c)
      /\ \A sd \in Sides : c.best[sd] = d.best[sd] \/ (c.best[sd] = NULL /\ sd = k[1])
  <2> d.active[k]
    BY Zenon, <1>3, <1>4
  <2>1. Dropped(d, c, L \ {s}, k)
    BY Zenon, <1>1, <1>3, DropKeeps
  <2> HIDE DEF c
  <2> QED BY Zenon, <2>1 DEF Dropped
<1> HIDE DEF c
<1>6. /\ c.free = d.free /\ c.cid = d.cid /\ c.coid = d.coid /\ c.qty = d.qty
      /\ c.at = d.at /\ c.cnt = d.cnt /\ c.total = d.total /\ c.level_price = d.level_price
  BY <1>5 DEF SameBut, Fields
<1>7. Live(c) = L \ {s} /\ IsInjective(c.free)
  BY Zenon, <1>2, <1>6 DEF Live
<1>8. SameOrders(b, c, L \ {s})
  BY Zenon, <1>1, <1>4, <1>6 DEF SameOrders
<1>9. Follows(b, L, c, L \ {s}, s)
  BY Zenon, <1>1, <1>6 DEF Follows
<1>10. FewerQuotes(b, c)
  BY Zenon, <1>1, <1>5 DEF FewerQuotes
<1>11. /\ c.level_price = b.level_price
       /\ \A sd \in Sides : c.best[sd] = b.best[sd] \/ (c.best[sd] = NULL /\ sd = k[1])
  BY Zenon, <1>4, <1>5, <1>6
<1> QED BY Zenon, <1>0, <1>5, <1>7, <1>8, <1>9, <1>10, <1>11 DEF Cancelled, L, k

\* The book starts empty, with every slot free once.
LEMMA EmptyBookInv ==
    /\ BookInv(EmptyBook, Live(EmptyBook), {}) /\ IsInjective(EmptyBook.free)
    /\ Live(EmptyBook) = {}
    /\ \A side \in Sides : Cached(EmptyBook, side) /\ NoneQuoted(EmptyBook, side)
<1> DEFINE b == EmptyBook
           f == [i \in 1 .. NumSlots |-> NumSlots - i]
<1>0. {MaxPrice, NumSlots, NumLevels} \subseteq Nat \ {0}
  BY BookAssumption
<1>1. /\ DOMAIN b = Fields /\ b.free = f /\ b.next_xid = 1
      /\ b.cid = [s \in Slots |-> NULL] /\ b.coid = [s \in Slots |-> NULL]
      /\ b.price = [s \in Slots |-> 0] /\ b.qty = [s \in Slots |-> 0]
      /\ b.at = [s \in Slots |-> <<"BUY", 0>>] /\ b.xid = [s \in Slots |-> 0]
      /\ b.next = [s \in Slots |-> NULL] /\ b.prev = [s \in Slots |-> NULL]
  BY Zenon DEF EmptyBook, Fields
<1>2. /\ b.level_price = [k \in Levels |-> 0] /\ b.total = [k \in Levels |-> 0]
      /\ b.cnt = [k \in Levels |-> 0] /\ b.active = [k \in Levels |-> FALSE]
      /\ b.head = [k \in Levels |-> NULL] /\ b.tail = [k \in Levels |-> NULL]
      /\ b.count = [side \in Sides |-> 0] /\ b.best = [side \in Sides |-> NULL]
      /\ b.map = [x \in Sides \X Prices |-> NULL]
  BY Zenon DEF EmptyBook
<1> HIDE DEF b
<1>3. b.free \in Seq(Slots) /\ IsInjective(b.free)
  <2>1. NumSlots \in Nat /\ \A i \in 1 .. NumSlots : NumSlots - i \in Slots
    BY <1>0 DEF Slots
  <2>2. f \in Seq(Slots) /\ IsInjective(f)
    BY <2>1 DEF IsInjective
  <2> QED BY Zenon, <1>1, <2>2
<1>4. Live(b) = {}
  <2>1. \A s \in Slots : s \in Range(f)
    <3> SUFFICES ASSUME NEW s \in Slots PROVE \E i \in DOMAIN f : f[i] = s
      BY DEF Range
    <3>1. NumSlots - s \in 1 .. NumSlots /\ NumSlots - (NumSlots - s) = s
      BY <1>0 DEF Slots
    <3> QED BY <3>1
  <2> QED BY Zenon, <1>1, <2>1 DEF Live
<1>5. BookOK(b)
  <2>1. /\ DOMAIN b.cid = Slots /\ DOMAIN b.coid = Slots /\ b.price \in [Slots -> Int]
        /\ b.qty \in [Slots -> Int] /\ b.xid \in [Slots -> Int] /\ b.next_xid \in Int
        /\ b.next \in [Slots -> Slots \cup {NULL}] /\ b.prev \in [Slots -> Slots \cup {NULL}]
    BY <1>1
  <2>2. b.at \in [Slots -> Levels]
    <3> <<"BUY", 0>> \in Levels
      BY <1>0 DEF Levels, Sides, Indices
    <3> QED BY Zenon, <1>1
  <2>3. /\ b.level_price \in [Levels -> Int] /\ b.total \in [Levels -> Int]
        /\ b.cnt \in [Levels -> Int] /\ b.active \in [Levels -> BOOLEAN]
    BY <1>2
  <2>4. /\ b.head \in [Levels -> Slots \cup {NULL}] /\ b.tail \in [Levels -> Slots \cup {NULL}]
        /\ b.count \in [Sides -> Nat] /\ b.best \in [Sides -> Indices \cup {NULL}]
        /\ b.map \in [Sides \X Prices -> Indices \cup {NULL}]
    BY <1>2
  <2> QED BY Zenon, <1>1, <1>3, <2>1, <2>2, <2>3, <2>4 DEF BookOK
<1>6. OrdersInv(b, {})
  BY DEF OrdersInv
<1>7. \A k \in Levels : ~b.active[k] /\ b.head[k] = NULL /\ b.tail[k] = NULL
  BY <1>2
<1>8. ListsInv(b, {})
  BY Zenon, <1>7 DEF ListsInv, Lists, EndsOK
<1>9. LevelsInv(b, {})
  <2>1. /\ \A side \in Sides : b.count[side] <= NumLevels /\ b.best[side] = NULL
        /\ \A side \in Sides, p \in Prices : b.map[<<side, p>>] = NULL
    BY <1>0, <1>2
  <2> QED BY Zenon, <1>7, <2>1 DEF LevelsInv
<1>10. BookInv(b, {}, {})
  BY Zenon, <1>5, <1>6, <1>8, <1>9 DEF BookInv
<1>11. \A side \in Sides : NoneQuoted(b, side) /\ b.best[side] = NULL
  BY <1>2, <1>7, LevelParts DEF NoneQuoted, HasQty
<1> QED BY Zenon, <1>3, <1>4, <1>10, <1>11 DEF b, Cached, CacheTop

-----------------------------------------------------------------------------
(* The invariant of the engine.                                             *)

Busy == pc \in {"match", "walk", "finish"}

\* What the other parts need of types.  The order in progress is the last one submitted;
\* each fill takes at least one from what remains of it.
TypeInv ==
    /\ pc \in {"idle", "match", "walk", "finish", "forward"}
    /\ corrupted \in BOOLEAN /\ misled \in BOOLEAN /\ holed \in [Sides -> BOOLEAN]
    /\ position \in [Contestants -> Int] /\ DOMAIN cancel_map = Contestants \X ClientIds
    /\ submitted \in 0 .. MaxOrders
    /\ filled \in [ClientIds -> Int] /\ asked \in [ClientIds -> Int]
    /\ corrupted => ~Busy
    /\ Busy => /\ taker.cid \in Contestants /\ taker.side \in Sides /\ taker.price \in Prices
               /\ taker.coid = submitted /\ submitted >= 1 /\ taker.qty \in 1 .. MaxOrderSize
               /\ remaining \in Nat /\ nfills \in Nat /\ remaining + nfills <= taker.qty

\* enqueue_outbound: the queue holds the messages of one handler.
QueueInv ==
    /\ outbound \in Nat /\ (pc = "idle" => outbound = 0)
    /\ Busy => outbound = 2 * nfills
    /\ pc = "forward" => outbound <= 2 * MaxFills + 1

\* The level that match walks may be empty and still active.
Walked == IF pc = "walk" THEN {<<Contra, best>>} ELSE {}

\* The book, and where the walk is in its level.  A walk without a fill has not moved.
BookPart ==
    ~corrupted =>
      /\ BookInv(book, Live(book), Walked) /\ IsInjective(book.free)
      /\ pc = "walk" => /\ best \in Indices /\ book.active[<<Contra, best>>]
                        /\ oidx # NULL => oidx \in Live(book) /\ book.at[oidx] = <<Contra, best>>
                        /\ nfills = 0 => oidx # NULL /\ remaining > 0

\* A resting order has an id of its own, older than the order in progress, and the cancel
\* map leads to it.
IdsPart ==
    ~corrupted =>
      /\ \A s \in Live(book) : /\ book.cid[s] \in Contestants
                               /\ book.coid[s] \in ClientIds /\ book.coid[s] <= submitted
                               /\ Busy => book.coid[s] < submitted
                               /\ cancel_map[<<book.cid[s], book.coid[s]>>] = s
      /\ \A s, t \in Live(book) : book.coid[s] = book.coid[t] => s = t

\* Fills and rest make up what was asked.
FillsPart ==
    /\ \A i \in ClientIds : /\ filled[i] <= asked[i]
                            /\ i > submitted => filled[i] = 0 /\ asked[i] = 0
    /\ ~corrupted =>
         \A s \in Live(book) : book.qty[s] + filled[book.coid[s]] = asked[book.coid[s]]
    /\ Busy => /\ asked[submitted] = taker.qty
               /\ remaining + filled[submitted] = taker.qty

\* The cache of a side is right unless it is holed; while match takes from a side, the
\* cache may be empty although the side is not.
Matched(side) == Busy /\ side = Contra /\ nfills > 0
CachePart ==
    ~corrupted => \A side \in Sides : ~holed[side] =>
      CacheTop(book, side) /\ (~Matched(side) => Cached(book, side))

\* No bid is at or above an ask; and when match gave up with a rest, nothing it could
\* trade with is left.
Crossed(b) ==
    \E i, j \in Indices : /\ HasQty(b, <<"BUY", i>>) /\ HasQty(b, <<"SELL", j>>)
                          /\ b.level_price[<<"BUY", i>>] >= b.level_price[<<"SELL", j>>]
CrossPart ==
    ~corrupted /\ ~misled =>
      /\ ~Crossed(book)
      /\ pc = "finish" /\ remaining > 0 =>
           \A m \in Indices : HasQty(book, <<Contra, m>>) =>
                              BeyondLimit(book.level_price[<<Contra, m>>])

EngineInv ==
    TypeInv /\ QueueInv /\ BookPart /\ IdsPart /\ FillsPart /\ CachePart /\ CrossPart

-----------------------------------------------------------------------------
(* The book as match uses it.                                               *)

\* A book that does not change follows itself.
LEMMA FollowsSelf ==
    ASSUME NEW b, NEW L, L \subseteq Slots
    PROVE  Follows(b, L, b, L, NULL)
BY NullNoSlot DEF Follows, Counted, Here

\* More levels may be taken to be empty.
LEMMA MayBeEmpty ==
    ASSUME NEW b, NEW L, NEW E, BookInv(b, L, {})
    PROVE  BookInv(b, L, E)
<1> LevelsInv(b, E)
  BY Zenon DEF BookInv, LevelsInv
<1> QED BY Zenon DEF BookInv

\* The head of a level in use rests there.
LEMMA HeadRests ==
    ASSUME NEW b, NEW L, BookInv(b, L, {}), NEW k \in Levels, b.active[k]
    PROVE  b.head[k] # NULL /\ b.head[k] \in L /\ b.at[b.head[k]] = k
<1>1. b.head[k] # NULL
  BY Zenon DEF BookInv, LevelsInv
<1>2. EndsOK(L, b.at, b.next, b.prev, b.head, b.tail, k)
  BY DEF BookInv, ListsInv, Lists
<1> QED BY <1>1, <1>2 DEF EndsOK

\* The next slot of a list rests on the same level.
LEMMA NextRests ==
    ASSUME NEW b, NEW L, NEW E, BookInv(b, L, E), NEW s \in L, b.next[s] # NULL
    PROVE  b.next[s] \in L /\ b.next[s] # s /\ b.at[b.next[s]] = b.at[s]
<1>1. NextOK(L, b.at, b.xid, b.next, b.prev, b.tail, s) /\ b.xid[s] \in Int
  BY DEF BookInv, ListsInv, Lists
<1> QED BY <1>1 DEF NextOK, Older

\* A cache that does not change stays right when quantity only goes.
LEMMA CacheStays ==
    ASSUME NEW b, NEW c, NEW side \in Sides, FewerQuotes(b, c), c.best[side] = b.best[side],
           c.level_price = b.level_price
    PROVE  /\ CacheTop(b, side) => CacheTop(c, side)
           /\ Cached(b, side) => Cached(c, side)
<1>1. \A m \in Indices : HasQty(c, <<side, m>>) => HasQty(b, <<side, m>>)
  BY Zenon, LevelParts DEF FewerQuotes
<1>2. CacheTop(b, side) => CacheTop(c, side)
  BY Zenon, <1>1 DEF CacheTop, Top
<1>3. NoneQuoted(b, side) => NoneQuoted(c, side)
  BY Zenon, <1>1 DEF NoneQuoted
<1> QED BY Zenon, <1>2, <1>3 DEF Cached

\* send_fill and the ticks look at both sides: only caches change, and they are right
\* afterwards unless they were wrong and hit.
BothSeen(b, c, L) ==
    /\ BookInv(c, L, {}) /\ SameBut(b, c, {"best"})
    /\ \A sd \in Sides : CacheTop(b, sd) \/ ~CacheHit(b, sd) => Cached(c, sd)

\* Two find_best in a row, one for each side, do so.
LEMMA BothLooks ==
    ASSUME NEW b, NEW L, BookInv(b, L, {}), WellOrdered
    PROVE  BothSeen(b, LookedBoth(b), L)
<1> DEFINE d == Looked(b, "BUY")
           c == Looked(d, "SELL")
<1>0. c = LookedBoth(b) /\ "BUY" \in Sides /\ "SELL" \in Sides
  BY DEF LookedBoth, Sides
<1>1. BookInv(d, L, {}) /\ SameBut(b, d, {"best"})
  BY Zenon, <1>0, LookKeeps
<1>2. /\ CacheTop(b, "BUY") \/ ~CacheHit(b, "BUY") => Cached(d, "BUY")
      /\ CacheHit(d, "SELL") <=> CacheHit(b, "SELL")
      /\ CacheTop(b, "SELL") => CacheTop(d, "SELL")
  BY <1>0, LookCached
<1> HIDE DEF d
<1>3. BookInv(c, L, {}) /\ SameBut(d, c, {"best"})
  BY Zenon, <1>0, <1>1, LookKeeps
<1>4. /\ CacheTop(d, "SELL") \/ ~CacheHit(d, "SELL") => Cached(c, "SELL")
      /\ Cached(d, "BUY") => Cached(c, "BUY")
  BY <1>0, <1>1, LookCached
<1> HIDE DEF c
<1>5. SameBut(b, c, {"best"})
  BY Zenon, <1>1, <1>3 DEF SameBut
<1>6. \A sd \in Sides : CacheTop(b, sd) \/ ~CacheHit(b, sd) => Cached(c, sd)
  BY <1>2, <1>4 DEF Sides
<1> QED BY Zenon, <1>0, <1>3, <1>5, <1>6 DEF BothSeen

\* What a fill leaves: slot s has given q, and rests or is free.
FilledBook(b, c, k, s, q) ==
    /\ BookInv(c, Live(c), {k}) /\ IsInjective(c.free)
    /\ \E t : Follows(b, Live(b), c, Live(c), t)
    /\ Live(c) \subseteq Live(b) /\ Live(b) \ {s} \subseteq Live(c)
    /\ \A t \in Live(c) : t # s => c.qty[t] = b.qty[t]
    /\ s \in Live(c) => c.qty[s] = b.qty[s] - q
    /\ FewerQuotes(b, c)
    /\ c.cid = b.cid /\ c.coid = b.coid /\ c.at = b.at /\ c.active = b.active
    /\ c.level_price = b.level_price /\ c.best = b.best

\* One round of match's loop over the resting orders does so, whether it takes a part of the
\* order or all of it.
LEMMA FillKeeps ==
    ASSUME NEW b, NEW k, BookInv(b, Live(b), {k}), IsInjective(b.free), NEW s \in Live(b),
           b.at[s] = k, NEW q \in Nat, q <= b.qty[s]
    PROVE  FilledBook(b, Fill(b, k, s, q), k, s, q)
<1> DEFINE c == Fill(b, k, s, q)
           L == Live(b)
<1>0. b.qty[s] \in Int /\ L \subseteq Slots
  BY DEF BookInv, BookOK, Live
<1>1. CASE b.qty[s] = q
  <2>1. c = Detach(b, b.at[s], s)
    BY <1>1 DEF Fill
  <2>2. Removed(b, c, L, s)
    <3> DEFINE E == {k}
    <3> BookInv(b, L, E) /\ \A j \in E : j = b.at[s]
      OBVIOUS
    <3> HIDE DEF E, L, c
    <3> QED BY Zenon, <2>1, RemoveKeeps DEF L
  <2> HIDE DEF c
  <2>3. IsInjective(c.free) /\ Live(c) = L \ {s}
    <3> c.free = Append(b.free, s)
      BY Zenon, <2>2 DEF Removed
    <3> QED BY Zenon, RemoveFrees
  <2> HIDE DEF L
  <2>4. SameBut(b, c, {"qty", "total", "next", "prev", "head", "tail", "cnt", "free"})
    BY Zenon, <2>2 DEF Removed
  <2>5. /\ c.cid = b.cid /\ c.coid = b.coid /\ c.at = b.at /\ c.active = b.active
        /\ c.level_price = b.level_price /\ c.best = b.best
    BY <2>4 DEF SameBut, Fields
  <2>6. Live(c) \subseteq L /\ L \ {s} \subseteq Live(c) /\ s \notin Live(c)
    BY <2>3
  <2>7. /\ BookInv(c, Live(c), {k}) /\ Follows(b, L, c, Live(c), s) /\ FewerQuotes(b, c)
        /\ \A t \in Live(c) : c.qty[t] = b.qty[t]
    BY Zenon, <2>2, <2>3 DEF Removed
  <2> QED BY Zenon, <2>3, <2>5, <2>6, <2>7 DEF FilledBook, c, L
<1>2. CASE b.qty[s] # q
  <2>1. c = Reduce(b, b.at[s], s, q)
    BY <1>2 DEF Fill
  <2>2. q < b.qty[s] /\ BookInv(b, L, {k})
    BY <1>0, <1>2
  <2>3. Reduced(b, c, L, {k}, s, q)
    <3> HIDE DEF c
    <3> QED BY Zenon, <2>1, <2>2, ReduceKeeps
  <2> HIDE DEF c
  <2>4. SameBut(b, c, {"qty", "total"})
    BY Zenon, <2>3 DEF Reduced
  <2>5. /\ c.cid = b.cid /\ c.coid = b.coid /\ c.at = b.at /\ c.active = b.active
        /\ c.level_price = b.level_price /\ c.best = b.best /\ c.free = b.free
    BY <2>4 DEF SameBut, Fields
  <2>6. Live(c) = L /\ IsInjective(c.free)
    BY Zenon, <2>5 DEF Live
  <2> HIDE DEF L
  <2>7. /\ BookInv(c, L, {k}) /\ Follows(b, L, c, L, s) /\ FewerQuotes(b, c)
        /\ c.qty[s] = b.qty[s] - q /\ \A t \in L \ {s} : c.qty[t] = b.qty[t]
    BY Zenon, <2>3 DEF Reduced
  <2>8. L \subseteq L /\ L \ {s} \subseteq L
    OBVIOUS
  <2> QED BY Zenon, <2>5, <2>6, <2>7, <2>8 DEF FilledBook, c, L
<1> QED BY <1>1, <1>2

-----------------------------------------------------------------------------
(* Every step keeps the invariant.                                          *)

\* What the counters are needed for.
CountsAgree ==
    ~corrupted => /\ EmptyAgree(book)
                  /\ pc = "idle" => \A s \in Live(book) :
                                      EmptyAgree(Detach(book, book.at[s], s))

\* The counters follow the book, and a fill moves as much in one account as in the other.
BookFollows == ~corrupted' => \E s : Follows(book, Live(book), book', Live(book'), s)
PositionMoves ==
    \/ position' = position
    \/ \E c \in Contestants, q \in Int :
         /\ taker.cid \in Contestants /\ taker.side \in Sides
         /\ position' = Settled(c, Contra, q)

\* The step of an order that is refused, or starts to match.
LEMMA OrderStep ==
    ASSUME EngineInv, NEW c \in Contestants, NEW side \in Sides, NEW type, NEW p \in Prices,
           NEW q \in 0 .. MaxOrderSize + 1, process_order(c, side, type, p, q)
    PROVE  EngineInv' /\ BookFollows /\ PositionMoves
<1>0. /\ pc = "idle" /\ ~corrupted /\ submitted < MaxOrders /\ submitted' = submitted + 1
      /\ asked' = [asked EXCEPT ![submitted'] = q] /\ book' = book /\ position' = position
      /\ cancel_map' = cancel_map /\ filled' = filled /\ holed' = holed
      /\ misled' = misled /\ corrupted' = corrupted
  BY Zenon DEF process_order
<1>1. \/ /\ pc' = "forward" /\ outbound' = outbound + 1
      \/ /\ pc' = "match" /\ outbound' = outbound /\ nfills' = 0 /\ remaining' = q
         /\ q \in 1 .. MaxOrderSize
         /\ taker' = [cid |-> c, coid |-> submitted', side |-> side, type |-> type,
                      price |-> p, qty |-> q]
  <2>1. ~Refused(c, side, q) => q \in 1 .. MaxOrderSize
    <3> ~Refused(c, side, q) => ~(q <= 0) /\ ~(q > MaxOrderSize)
      BY Zenon DEF Refused
    <3> QED BY EngineAssumption
  <2> QED BY Zenon, <2>1 DEF process_order
<1>2. /\ TypeInv /\ QueueInv /\ BookPart /\ IdsPart /\ FillsPart /\ CachePart /\ CrossPart
  BY Zenon DEF EngineInv
<1>3. submitted \in 0 .. MaxOrders /\ submitted' \in ClientIds /\ MaxOrders \in Nat
  BY <1>0, <1>2, EngineAssumption DEF TypeInv, ClientIds
<1>4. /\ pc' = "match" => /\ taker'.cid = c /\ taker'.coid = submitted' /\ taker'.side = side
                          /\ taker'.price = p /\ taker'.qty = q
      /\ pc' \in {"match", "forward"} /\ (Busy' => pc' = "match") /\ ~Busy
  BY <1>0, <1>1 DEF Busy
<1>5. filled \in [ClientIds -> Int] /\ asked \in [ClientIds -> Int] /\ asked' \in [ClientIds -> Int]
  BY <1>0, <1>2, <1>3 DEF TypeInv
<1>6. TypeInv'
  <2>1. Busy' => /\ remaining' \in Nat /\ nfills' \in Nat /\ remaining' + nfills' <= taker'.qty
                 /\ taker'.qty \in 1 .. MaxOrderSize /\ submitted' >= 1
    BY <1>1, <1>3, <1>4 DEF ClientIds
  <2>2. submitted' \in 0 .. MaxOrders
    BY <1>3 DEF ClientIds
  <2>3. pc' \in {"idle", "match", "walk", "finish", "forward"}
    BY <1>4
  <2> QED BY Zenon, <1>0, <1>2, <1>4, <1>5, <2>1, <2>2, <2>3 DEF TypeInv
<1>7. QueueInv'
  <2> outbound = 0 /\ MaxFills \in Nat
    BY <1>0, <1>2, EngineAssumption DEF QueueInv
  <2> QED BY <1>1, <1>4 DEF QueueInv
<1>8. BookPart'
  <2> pc # "walk" /\ pc' # "walk"
    BY <1>0, <1>4
  <2> QED BY Zenon, <1>0, <1>2 DEF BookPart, Walked
<1>9. IdsPart'
  <2>1. \A s \in Live(book) : book.coid[s] \in ClientIds /\ book.coid[s] <= submitted
    BY Zenon, <1>0, <1>2 DEF IdsPart
  <2>2. \A s \in Live(book) : book.coid[s] <= submitted' /\ book.coid[s] < submitted'
    BY <1>0, <1>3, <2>1 DEF ClientIds
  <2> QED BY Zenon, <1>0, <1>2, <2>1, <2>2 DEF IdsPart
<1>10. FillsPart'
  <2>1. \A i \in ClientIds : /\ filled[i] <= asked[i] /\ filled[i] \in Int
                             /\ i > submitted => filled[i] = 0 /\ asked[i] = 0
    BY SMTT(60), <1>2, <1>5 DEF FillsPart
  <2>2. \A i \in ClientIds : i # submitted' => asked'[i] = asked[i]
    BY Zenon, <1>0, <1>3, <1>5
  <2>3. asked'[submitted'] = q /\ filled[submitted'] = 0
    BY <1>0, <1>3, <1>5, <2>1 DEF ClientIds
  <2>4. \A i \in ClientIds : /\ filled'[i] <= asked'[i]
                             /\ i > submitted' => filled'[i] = 0 /\ asked'[i] = 0
    <3> TAKE i \in ClientIds
    <3> i \in Int /\ submitted \in Int /\ q >= 0
      BY <1>3 DEF ClientIds
    <3>1. CASE i = submitted'
      BY <1>0, <2>3, <3>1
    <3>2. CASE i # submitted'
      <4> asked'[i] = asked[i] /\ filled'[i] = filled[i]
        BY Zenon, <1>0, <2>2, <3>2
      <4> i > submitted' => i > submitted
        BY <1>0
      <4> QED BY <2>1
    <3> QED BY <3>1, <3>2
  <2>5. \A s \in Live(book) : book.qty[s] + filled[book.coid[s]] = asked'[book.coid[s]]
    <3>0. \A s \in Live(book) : book.coid[s] \in ClientIds /\ book.coid[s] <= submitted
      BY Zenon, <1>0, <1>2 DEF IdsPart
    <3>1. \A s \in Live(book) : book.coid[s] \in ClientIds /\ book.coid[s] # submitted'
      BY <1>0, <1>3, <3>0 DEF ClientIds
    <3>2. \A s \in Live(book) : book.qty[s] + filled[book.coid[s]] = asked[book.coid[s]]
      BY Zenon, <1>0, <1>2 DEF FillsPart
    <3> QED BY Zenon, <2>2, <3>1, <3>2
  <2>6. Busy' => asked'[submitted'] = taker'.qty /\ remaining' + filled'[submitted'] = taker'.qty
    BY <1>0, <1>1, <1>4, <2>3
  <2> QED BY Zenon, <1>0, <2>4, <2>5, <2>6 DEF FillsPart
<1>11. CachePart'
  <2>1. \A sd \in Sides : ~holed[sd] => CacheTop(book, sd) /\ Cached(book, sd)
    BY Zenon, <1>0, <1>2, <1>4 DEF CachePart, Matched
  <2> QED BY Zenon, <1>0, <2>1 DEF CachePart
<1>12. CrossPart'
  <2> pc' # "finish"
    BY <1>4
  <2> QED BY Zenon, <1>0, <1>2 DEF CrossPart
<1>13. BookFollows
  <2> Live(book) \subseteq Slots
    BY DEF Live
  <2> QED BY Zenon, <1>0, FollowsSelf DEF BookFollows
<1> QED BY Zenon, <1>0, <1>6, <1>7, <1>8, <1>9, <1>10, <1>11, <1>12, <1>13
           DEF EngineInv, PositionMoves

\* The step of match's outer loop.
LEMMA LevelStep ==
    ASSUME EngineInv, WellOrdered, MatchLevel
    PROVE  EngineInv' /\ BookFollows /\ PositionMoves
<1>0. /\ pc = "match" /\ position' = position /\ cancel_map' = cancel_map
      /\ outbound' = outbound /\ taker' = taker /\ remaining' = remaining /\ nfills' = nfills
      /\ submitted' = submitted /\ filled' = filled /\ asked' = asked
      /\ corrupted' = corrupted
  BY Zenon DEF MatchLevel
<1>1. /\ TypeInv /\ QueueInv /\ BookPart /\ IdsPart /\ FillsPart /\ CachePart /\ CrossPart
  BY Zenon DEF EngineInv
<1> DEFINE S == Contra
           l == find_best(book, S)
           L == Live(book)
<1>2. ~corrupted /\ Busy /\ S \in Sides /\ S' = S /\ taker.price \in Int
  <2>1. Busy
    BY <1>0 DEF Busy
  <2>2. taker.side \in Sides /\ taker.price \in Prices /\ ~corrupted
    BY Zenon, <1>1, <2>1 DEF TypeInv
  <2> QED BY <1>0, <2>1, <2>2 DEF Contra, Opposite, Sides, Prices
<1>3. BookInv(book, L, {}) /\ IsInjective(book.free)
  <2> Walked = {}
    BY <1>0 DEF Walked
  <2> QED BY Zenon, <1>1, <1>2 DEF BookPart
<1>4. /\ pc' \in {"finish", "walk"} /\ Busy'
      /\ Live(book') = L /\ book'.cid = book.cid /\ book'.coid = book.coid
      /\ book'.qty = book.qty /\ book'.free = book.free /\ BookInv(book', L, {})
      /\ book'.active = book.active /\ book'.total = book.total
      /\ book'.level_price = book.level_price /\ book'.at = book.at /\ book'.cnt = book.cnt
  <2>1. pc' \in {"finish", "walk"}
    BY DEF MatchLevel
  <2>2. book' = Looked(book, S) \/ book' = book
    BY Zenon DEF MatchLevel
  <2>3. CASE book' = book
    BY <1>3, <2>1, <2>3 DEF Busy
  <2>4. CASE book' = Looked(book, S)
    <3>1. BookInv(book', L, {}) /\ SameBut(book, book', {"best"})
      BY Zenon, <1>2, <1>3, <2>4, LookKeeps
    <3>2. /\ book'.cid = book.cid /\ book'.coid = book.coid /\ book'.qty = book.qty
          /\ book'.free = book.free /\ book'.active = book.active /\ book'.total = book.total
          /\ book'.level_price = book.level_price /\ book'.at = book.at
          /\ book'.cnt = book.cnt
      BY <3>1 DEF SameBut, Fields
    <3>3. Live(book') = L
      BY Zenon, <3>2 DEF Live
    <3> QED BY SMTT(60), <2>1, <3>1, <3>2, <3>3 DEF Busy
  <2> QED BY Zenon, <2>2, <2>3, <2>4
<1> HIDE DEF S, l, L
<1>5. TypeInv' /\ QueueInv'
  <2>1. /\ misled' \in BOOLEAN /\ holed' \in [Sides -> BOOLEAN]
    <3> misled \in BOOLEAN /\ holed \in [Sides -> BOOLEAN]
      BY Zenon, <1>1 DEF TypeInv
    <3> QED BY Zenon DEF MatchLevel
  <2>2. pc' \in {"idle", "match", "walk", "finish", "forward"} /\ pc' # "idle" /\ pc' # "forward"
    BY <1>4
  <2>3. TypeInv'
    BY Zenon, <1>0, <1>1, <1>2, <2>1, <2>2 DEF TypeInv
  <2> QED BY Zenon, <1>0, <1>1, <1>2, <2>2, <2>3 DEF QueueInv
<1>6. IdsPart' /\ FillsPart'
  <2>1. IdsPart'
    BY Zenon, <1>0, <1>1, <1>2, <1>4 DEF IdsPart, L
  <2>2. FillsPart'
    BY Zenon, <1>0, <1>1, <1>2, <1>4 DEF FillsPart, L
  <2> QED BY <2>1, <2>2
<1>7. BookFollows
  <2>1. Follows(book, L, book, L, NULL)
    BY FollowsSelf DEF Live, L
  <2>2. Follows(book, L, book', L, NULL)
    BY Zenon, <1>4, <2>1 DEF Follows
  <2> QED BY Zenon, <1>4, <2>2 DEF BookFollows, L
<1>8. ~Crossed(book) => ~Crossed(book')
  BY Zenon, <1>4 DEF Crossed, HasQty
<1>9. CASE ~(remaining > 0 /\ nfills < MaxFills)
  <2>1. pc' = "finish" /\ book' = book /\ holed' = holed /\ misled' = misled
    BY Zenon, <1>9 DEF MatchLevel
  <2>2. ~(remaining > 0)
    <3> /\ taker.qty \in 1 .. MaxOrderSize /\ remaining \in Nat /\ nfills \in Nat
        /\ remaining + nfills <= taker.qty
      BY Zenon, <1>1, <1>2 DEF TypeInv
    <3> QED BY <1>9, EngineAssumption
  <2>3. BookPart'
    <3> pc' # "walk" /\ Walked' = {}
      BY <2>1 DEF Walked
    <3> QED BY Zenon, <1>3, <2>1 DEF BookPart, L
  <2>4. CachePart'
    <3> \A sd \in Sides : Matched(sd) <=> Matched(sd)'
      BY Zenon, <1>0, <1>2, <1>4 DEF Matched, S
    <3> QED BY Zenon, <1>0, <1>1, <2>1 DEF CachePart
  <2>5. CrossPart'
    BY Zenon, <1>0, <1>1, <2>1, <2>2 DEF CrossPart
  <2> QED BY Zenon, <1>0, <1>5, <1>6, <1>7, <2>3, <2>4, <2>5 DEF EngineInv, PositionMoves
<1>10. CASE remaining > 0 /\ nfills < MaxFills
  <2>1. /\ book' = Looked(book, S)
        /\ holed' = [holed EXCEPT ![S] = @ /\ CacheHit(book, S)]
        /\ misled' = (misled \/ ~BestIsBest(book, S))
    BY Zenon, <1>10 DEF MatchLevel, S
  <2>2. \/ pc' = "finish" /\ (l = NULL \/ BeyondLimit(book.level_price[<<S, l>>]))
        \/ pc' = "walk" /\ l # NULL /\ best' = l /\ oidx' = book.head[<<S, l>>]
    BY Zenon, <1>10 DEF MatchLevel, S, l
  <2>3. /\ l \in Indices \cup {NULL} /\ (l = NULL => NoneQuoted(book, S))
        /\ l # NULL => HasQty(book, <<S, l>>)
    BY <1>2, <1>3, FindBest DEF l
  <2>4. BookPart'
    <3>1. CASE pc' = "finish"
      <4> pc' # "walk" /\ Walked' = {}
        BY <3>1 DEF Walked
      <4> QED BY Zenon, <1>3, <1>4 DEF BookPart, L
    <3>2. CASE pc' = "walk"
      <4>1. l \in Indices /\ best' = l /\ oidx' = book.head[<<S, l>>] /\ <<S, l>> \in Levels
        BY <1>2, <2>2, <2>3, <3>2, LevelParts
      <4>2. book.active[<<S, l>>]
        BY Zenon, <2>3, <4>1, NullNoSlot DEF HasQty
      <4>3. oidx' # NULL /\ oidx' \in L /\ book.at[oidx'] = <<S, l>>
        BY Zenon, <1>3, <4>1, <4>2, HeadRests
      <4>4. Contra' = S /\ Walked' = {<<S, l>>}
        BY Zenon, <1>2, <3>2, <4>1 DEF Walked, S
      <4>5. BookInv(book', L, {<<S, l>>})
        BY Zenon, <1>4, MayBeEmpty
      <4> QED BY Zenon, <1>0, <1>3, <1>4, <1>10, <4>1, <4>2, <4>3, <4>4, <4>5 DEF BookPart, L
    <3> QED BY Zenon, <1>4, <2>2, <3>1, <3>2
  <2>5. CachePart'
    <3>1. /\ CacheTop(book, S) \/ ~CacheHit(book, S) => Cached(book', S)
          /\ \A sd \in Sides : sd # S /\ Cached(book, sd) => Cached(book', sd)
      BY <1>2, <1>3, <2>1, LookCached
    <3>2. \A sd \in Sides : ~holed[sd] => /\ CacheTop(book, sd)
                                          /\ sd # S => Cached(book, sd)
      BY Zenon, <1>1, <1>2 DEF CachePart, Matched, S
    <3>3. \A sd \in Sides : /\ sd = S /\ ~holed'[sd] => ~holed[sd] \/ ~CacheHit(book, S)
                            /\ sd # S => holed'[sd] = holed[sd]
      <4> holed \in [Sides -> BOOLEAN]
        BY Zenon, <1>1 DEF TypeInv
      <4> QED BY Zenon, <1>2, <2>1
    <3>4. \A sd \in Sides : ~holed'[sd] => Cached(book', sd)
      BY Zenon, <3>1, <3>2, <3>3
    <3> QED BY Zenon, <3>4 DEF CachePart, Cached
  <2>6. CrossPart'
    <3> SUFFICES ASSUME ~misled'
                 PROVE  /\ ~Crossed(book')
                        /\ pc' = "finish" => \A m \in Indices : HasQty(book', <<S, m>>) =>
                             BeyondLimit(book.level_price[<<S, m>>])
      <4> \A x : BeyondLimit(x) <=> BeyondLimit(x)'
        BY Zenon, <1>0 DEF BeyondLimit, Contra
      <4> QED BY Zenon, <1>2, <1>4 DEF CrossPart, S
    <3>1. ~misled /\ BestIsBest(book, S)
      BY Zenon, <2>1
    <3>2. ~Crossed(book')
      BY Zenon, <1>1, <1>2, <1>8, <3>1 DEF CrossPart
    <3>3. ASSUME pc' = "finish", NEW m \in Indices, HasQty(book', <<S, m>>)
          PROVE  BeyondLimit(book.level_price[<<S, m>>])
      <4>1. HasQty(book, <<S, m>>)
        BY Zenon, <1>4, <3>3 DEF HasQty
      <4>2. l # NULL
        BY Zenon, <2>3, <4>1 DEF NoneQuoted
      <4>3. BeyondLimit(book.level_price[<<S, l>>])
        BY <2>2, <3>3, <4>2
      <4>4. ~Better(S, book.level_price[<<S, m>>], book.level_price[<<S, l>>])
        BY Zenon, <3>1, <4>1, <4>2 DEF BestIsBest, l
      <4>5. book.level_price[<<S, m>>] \in Int /\ book.level_price[<<S, l>>] \in Int
        <5> book.level_price \in [Levels -> Int] /\ <<S, m>> \in Levels /\ <<S, l>> \in Levels
          BY <1>2, <1>3, <2>3, <4>2, LevelParts DEF BookInv, BookOK
        <5> QED OBVIOUS
      <4> QED BY <1>2, <4>3, <4>4, <4>5 DEF BeyondLimit, Better, S
    <3> QED BY Zenon, <3>2, <3>3
  <2> QED BY Zenon, <1>0, <1>5, <1>6, <1>7, <2>4, <2>5, <2>6 DEF EngineInv, PositionMoves
<1> QED BY <1>9, <1>10

\* A book with fewer quotes is not crossed either.
LEMMA StaysUncrossed ==
    ASSUME NEW b, NEW c, FewerQuotes(b, c), ~Crossed(b)
    PROVE  ~Crossed(c)
<1> SUFFICES ASSUME NEW i \in Indices, NEW j \in Indices,
                    HasQty(c, <<"BUY", i>>), HasQty(c, <<"SELL", j>>),
                    c.level_price[<<"BUY", i>>] >= c.level_price[<<"SELL", j>>]
             PROVE  FALSE
  BY Zenon DEF Crossed
<1>1. <<"BUY", i>> \in Levels /\ <<"SELL", j>> \in Levels
  BY DEF Levels, Sides
<1> QED BY Zenon, <1>1 DEF Crossed, FewerQuotes

\* A fill: the maker's order is older than the taker's, so two different orders are filled.
LEMMA FillStep ==
    ASSUME EngineInv, MatchFill
    PROVE  EngineInv' /\ BookFollows /\ PositionMoves
<1>1. /\ TypeInv /\ QueueInv /\ BookPart /\ IdsPart /\ FillsPart /\ CachePart /\ CrossPart
  BY Zenon DEF EngineInv
<1> DEFINE S == Contra
           k == <<S, best>>
           s == oidx
           q == IF remaining < book.qty[s] THEN remaining ELSE book.qty[s]
           L == Live(book)
           i == book.coid[s]
           j == submitted
<1>2. /\ pc = "walk" /\ s # NULL /\ remaining > 0 /\ nfills < MaxFills
      /\ book' = Fill(book, k, s, q) /\ position' = Settled(book.cid[s], book.at[s][1], q)
      /\ filled' = [filled EXCEPT ![i] = @ + q, ![taker.coid] = @ + q]
      /\ remaining' = remaining - q /\ oidx' = book.next[s]
      /\ nfills' = nfills + 1 /\ outbound' = outbound + 2
      /\ cancel_map' = cancel_map /\ pc' = pc /\ taker' = taker /\ best' = best
      /\ submitted' = submitted /\ asked' = asked /\ holed' = holed
      /\ misled' = misled /\ corrupted' = corrupted
  BY Zenon DEF MatchFill
<1>3. /\ ~corrupted /\ Busy /\ S \in Sides /\ taker.coid = j /\ taker.side \in Sides
      /\ taker.cid \in Contestants
  <2>1. Busy
    BY <1>2 DEF Busy
  <2>2. taker.side \in Sides /\ ~corrupted /\ taker.coid = submitted /\ taker.cid \in Contestants
    BY Zenon, <1>1, <2>1 DEF TypeInv
  <2> QED BY SMTT(60), <2>1, <2>2 DEF Contra, Opposite, Sides
<1>4. /\ BookInv(book, L, {k}) /\ IsInjective(book.free) /\ best \in Indices
      /\ book.active[k] /\ s \in L /\ book.at[s] = k
  <2> Walked = {k}
    BY <1>2 DEF Walked
  <2> QED BY Zenon, <1>1, <1>2, <1>3 DEF BookPart
<1>5. /\ remaining \in Nat /\ nfills \in Nat /\ remaining + nfills <= taker.qty
      /\ taker.qty \in 1 .. MaxOrderSize /\ j \in 1 .. MaxOrders
      /\ filled \in [ClientIds -> Int] /\ asked \in [ClientIds -> Int]
      /\ position \in [Contestants -> Int]
  <2> submitted \in 0 .. MaxOrders /\ submitted >= 1
    BY Zenon, <1>1, <1>3 DEF TypeInv
  <2> submitted \in 1 .. MaxOrders
    BY SMTT(60)
  <2> QED BY Zenon, <1>1, <1>3 DEF TypeInv
<1>6. book.qty[s] \in Int /\ book.qty[s] > 0
  BY SMTT(60), <1>4 DEF BookInv, BookOK, OrdersInv
<1>7. q \in Nat \ {0} /\ q <= remaining /\ q <= book.qty[s]
  BY <1>2, <1>5, <1>6
<1> HIDE DEF q, L, k
<1>8. FilledBook(book, book', k, s, q)
  BY Zenon, <1>2, <1>4, <1>7, FillKeeps DEF L
<1>9. /\ BookInv(book', Live(book'), {k}) /\ IsInjective(book'.free)
      /\ \E t : Follows(book, L, book', Live(book'), t)
      /\ Live(book') \subseteq L /\ L \ {s} \subseteq Live(book')
      /\ \A t \in Live(book') : t # s => book'.qty[t] = book.qty[t]
      /\ s \in Live(book') => book'.qty[s] = book.qty[s] - q
      /\ FewerQuotes(book, book')
      /\ book'.cid = book.cid /\ book'.coid = book.coid /\ book'.at = book.at
      /\ book'.active = book.active
      /\ book'.level_price = book.level_price /\ book'.best = book.best
  BY Zenon, <1>8 DEF FilledBook, L
<1>10. /\ book.cid[s] \in Contestants /\ i \in ClientIds /\ j \in ClientIds /\ i # j
       /\ i < j
  <2>1. /\ book.cid[s] \in Contestants /\ i \in ClientIds /\ i < submitted
    BY Zenon, <1>1, <1>3, <1>4 DEF IdsPart, L
  <2> QED BY <1>5, <2>1 DEF ClientIds
<1>11. position' = Settled(book.cid[s], S, q)
  BY SMTT(60), <1>2, <1>4 DEF k
<1>12. position' \in [Contestants -> Int]
  <2>1. Signed(S, q) \in Int /\ Signed(taker.side, q) \in Int
    BY <1>7 DEF Signed
  <2> QED BY SMTT(60), <1>3, <1>5, <1>10, <1>11, <2>1 DEF Settled
<1>13. /\ filled' \in [ClientIds -> Int]
       /\ filled'[i] = filled[i] + q /\ filled'[j] = filled[j] + q
       /\ \A n \in ClientIds : n # i /\ n # j => filled'[n] = filled[n]
  <2> filled' = [filled EXCEPT ![i] = @ + q, ![j] = @ + q]
    BY Zenon, <1>2, <1>3
  <2> HIDE DEF i, j
  <2> QED BY <1>5, <1>7, <1>10
<1>14. Busy' /\ S' = S /\ nfills' > 0 /\ remaining' \in Nat /\ nfills' \in Nat
       /\ remaining' + nfills' <= taker.qty
  BY <1>2, <1>5, <1>7 DEF Busy, Contra
<1>15. TypeInv'
  BY Zenon, <1>1, <1>2, <1>3, <1>12, <1>13, <1>14 DEF TypeInv
<1>16. QueueInv'
  <2>1. outbound \in Nat /\ outbound = 2 * nfills
    BY Zenon, <1>1, <1>3 DEF QueueInv
  <2>2. outbound' \in Nat /\ outbound' = 2 * nfills'
    BY SMTT(60), <1>2, <1>5, <2>1
  <2> pc' # "idle" /\ pc' # "forward"
    BY <1>2
  <2> QED BY Zenon, <2>2 DEF QueueInv
<1>17. BookPart'
  <2>1. Walked' = {k} /\ <<S', best'>> = k
    BY SMTT(60), <1>2, <1>14 DEF Walked, k
  <2>2. oidx' # NULL => oidx' \in Live(book') /\ book'.at[oidx'] = k
    <3> SUFFICES ASSUME book.next[s] # NULL
                 PROVE  book.next[s] \in Live(book') /\ book.at[book.next[s]] = k
      BY Zenon, <1>2, <1>9
    <3>1. /\ book.next[s] \in L /\ book.next[s] # s
          /\ book.at[book.next[s]] = k
      <4> DEFINE E == {k}
      <4> BookInv(book, L, E)
        BY SMTT(60), <1>4
      <4> HIDE DEF E
      <4>1. /\ book.next[s] \in L /\ book.next[s] # s /\ book.at[book.next[s]] = book.at[s]
        BY <1>4, NextRests
      <4> QED BY Zenon, <1>4, <4>1
    <3> QED BY <1>9, <3>1
  <2>3. ~(nfills' = 0)
    BY <1>14
  <2> QED BY Zenon, <1>2, <1>4, <1>9, <2>1, <2>2, <2>3 DEF BookPart
<1>18. IdsPart'
  <2>1. /\ \A t \in L : /\ book.cid[t] \in Contestants
                        /\ book.coid[t] \in ClientIds /\ book.coid[t] <= submitted
                        /\ book.coid[t] < submitted
                        /\ cancel_map[<<book.cid[t], book.coid[t]>>] = t
        /\ \A t, u \in L : book.coid[t] = book.coid[u] => t = u
    BY Zenon, <1>1, <1>3 DEF IdsPart, L
  <2>2. \A t \in Live(book') : t \in L
    BY <1>9
  <2>3. \A t \in Live(book') : /\ book'.cid[t] \in Contestants
                               /\ book'.coid[t] \in ClientIds /\ book'.coid[t] <= submitted'
                               /\ book'.coid[t] < submitted'
                               /\ cancel_map'[<<book'.cid[t], book'.coid[t]>>] = t
    BY ZenonT(60), <1>2, <1>9, <2>1, <2>2
  <2>4. \A t, u \in Live(book') : book'.coid[t] = book'.coid[u] => t = u
    <3> book'.coid = book.coid
      BY <1>9
    <3> QED BY Zenon, <2>1, <2>2
  <2> QED BY Zenon, <2>3, <2>4 DEF IdsPart
<1>19. FillsPart'
  <2>1. /\ \A n \in ClientIds : /\ filled[n] <= asked[n]
                                /\ n > submitted => filled[n] = 0 /\ asked[n] = 0
        /\ \A t \in L : book.qty[t] + filled[book.coid[t]] = asked[book.coid[t]]
        /\ asked[j] = taker.qty /\ remaining + filled[j] = taker.qty
    BY ZenonT(60), <1>1, <1>3 DEF FillsPart, L
  <2>2. /\ \A t \in L : book.coid[t] \in ClientIds /\ book.coid[t] < j
        /\ \A t, u \in L : book.coid[t] = book.coid[u] => t = u
    BY Zenon, <1>1, <1>3 DEF IdsPart, L
  <2>3. book.qty[s] + filled[i] = asked[i]
    BY Zenon, <1>4, <2>1
  <2>4. filled[i] \in Int /\ asked[i] \in Int /\ filled[j] \in Int /\ asked[j] \in Int
    BY Zenon, <1>5, <1>10
  <2> HIDE DEF i, j
  <2>5. filled'[i] <= asked[i] /\ filled'[j] <= asked[j] /\ remaining' + filled'[j] = taker.qty
        /\ (book.qty[s] - q) + filled'[i] = asked[i]
    <3> DEFINE fi == filled[i]
               fj == filled[j]
               ai == asked[i]
               qs == book.qty[s]
    <3>1. filled'[i] = fi + q /\ filled'[j] = fj + q /\ fi \in Int /\ fj \in Int
      BY Zenon, <1>13, <2>4
    <3>2. qs + fi = ai /\ ai \in Int /\ remaining + fj = taker.qty /\ asked[j] = taker.qty
      BY Zenon, <2>1, <2>3, <2>4
    <3>3. qs \in Int /\ q <= qs /\ q \in Nat /\ q <= remaining /\ remaining \in Nat
      BY <1>5, <1>6, <1>7
    <3> HIDE DEF fi, fj, ai, qs
    <3>4. /\ fi + q <= ai /\ fj + q <= taker.qty /\ (remaining - q) + (fj + q) = taker.qty
          /\ (qs - q) + (fi + q) = ai
      BY <3>1, <3>2, <3>3
    <3> QED BY Zenon, <1>2, <3>1, <3>2, <3>4 DEF ai, qs
  <2>6. ~(i > submitted) /\ ~(j > submitted)
    BY <1>5, <1>10 DEF ClientIds, j
  <2>7. \A n \in ClientIds : /\ filled'[n] <= asked[n]
                             /\ n > submitted => filled'[n] = 0 /\ asked[n] = 0
    <3> TAKE n \in ClientIds
    <3>1. CASE n = i
      BY Zenon, <2>5, <2>6, <3>1
    <3>2. CASE n = j
      BY Zenon, <2>5, <2>6, <3>2
    <3>3. CASE n # i /\ n # j
      BY Zenon, <1>13, <2>1, <3>3
    <3> QED BY <3>1, <3>2, <3>3
  <2>8. ASSUME NEW t \in Live(book')
        PROVE  book'.qty[t] + filled'[book.coid[t]] = asked[book.coid[t]]
    <3>1. t \in L
      BY <1>9
    <3>2. CASE t = s
      BY Zenon, <1>9, <2>5, <3>2 DEF i
    <3>3. CASE t # s
      <4>1. book.coid[t] # i
        BY Zenon, <1>4, <2>2, <3>1, <3>3 DEF i
      <4>2. book.coid[t] # j /\ book.coid[t] \in ClientIds
        BY <1>5, <2>2, <3>1 DEF ClientIds, j
      <4> QED BY Zenon, <1>9, <1>13, <2>1, <3>1, <3>3, <4>1, <4>2
    <3> QED BY SMTT(60), <3>2, <3>3
  <2> QED BY Zenon, <1>2, <1>9, <2>1, <2>5, <2>7, <2>8 DEF FillsPart, j
<1>20. CachePart'
  <2>1. \A sd \in Sides : ~holed[sd] => CacheTop(book, sd) /\ (sd # S => Cached(book, sd))
    BY Zenon, <1>1, <1>3 DEF CachePart, Matched
  <2>2. \A sd \in Sides : /\ CacheTop(book, sd) => CacheTop(book', sd)
                          /\ Cached(book, sd) => Cached(book', sd)
    BY Zenon, <1>9, CacheStays
  <2>3. \A sd \in Sides : ~Matched(sd)' => sd # S
    BY Zenon, <1>14 DEF Matched
  <2> QED BY Zenon, <1>2, <2>1, <2>2, <2>3 DEF CachePart
<1>21. CrossPart'
  <2>1. ~misled' => ~Crossed(book')
    BY Zenon, <1>1, <1>2, <1>3, <1>9, StaysUncrossed DEF CrossPart
  <2> pc' # "finish"
    BY <1>2
  <2> QED BY Zenon, <2>1 DEF CrossPart
<1>22. PositionMoves
  <2> q \in Int
    BY <1>7
  <2> QED BY Zenon, <1>3, <1>10, <1>11 DEF PositionMoves
<1> QED BY Zenon, <1>9, <1>15, <1>16, <1>17, <1>18, <1>19, <1>20, <1>21, <1>22
           DEF EngineInv, BookFollows, L

\* The end of a walk, which took at least one fill.
LEMMA NextLevelStep ==
    ASSUME EngineInv, CountsAgree, MatchNextLevel
    PROVE  EngineInv' /\ BookFollows /\ PositionMoves
<1>1. /\ TypeInv /\ QueueInv /\ BookPart /\ IdsPart /\ FillsPart /\ CachePart /\ CrossPart
  BY Zenon DEF EngineInv
<1> DEFINE S == Contra
           k == <<S, best>>
           L == Live(book)
<1>2. /\ pc = "walk" /\ ~(oidx # NULL /\ remaining > 0 /\ nfills < MaxFills)
      /\ book' = DropEmpty(book, k) /\ pc' = "match"
      /\ position' = position /\ cancel_map' = cancel_map /\ outbound' = outbound
      /\ taker' = taker /\ remaining' = remaining /\ nfills' = nfills
      /\ submitted' = submitted /\ filled' = filled /\ asked' = asked /\ holed' = holed
      /\ misled' = misled /\ corrupted' = corrupted
  BY Zenon DEF MatchNextLevel, matchVars, history
<1>3. ~corrupted /\ Busy /\ S \in Sides /\ Busy' /\ S' = S
  <2>1. Busy
    BY <1>2 DEF Busy
  <2>2. taker.side \in Sides /\ ~corrupted
    BY Zenon, <1>1, <2>1 DEF TypeInv
  <2> QED BY <1>2, <2>1, <2>2 DEF Contra, Opposite, Sides, Busy
<1>4. /\ BookInv(book, L, {k}) /\ IsInjective(book.free) /\ best \in Indices
      /\ book.active[k] /\ (nfills = 0 => oidx # NULL /\ remaining > 0)
  <2> Walked = {k}
    BY <1>2 DEF Walked
  <2> QED BY Zenon, <1>1, <1>2, <1>3 DEF BookPart
<1>5. nfills > 0
  <2> nfills \in Nat
    BY Zenon, <1>1, <1>3 DEF TypeInv
  <2> QED BY <1>2, <1>4, EngineAssumption
<1>6. k \in Levels
  BY <1>3, <1>4, LevelParts
<1> HIDE DEF k, L
<1>7. Dropped(book, book', L, k)
  <2> EmptyAgree(book)
    BY Zenon, <1>3 DEF CountsAgree
  <2> QED BY Zenon, <1>2, <1>4, <1>6, DropKeeps
<1>8. /\ BookInv(book', L, {}) /\ SameBut(book, book', {"active", "map", "best"})
      /\ FewerQuotes(book, book')
      /\ \A side \in Sides : \/ book'.best[side] = book.best[side]
                             \/ book'.best[side] = NULL /\ side = k[1]
  BY Zenon, <1>7 DEF Dropped
<1>9. /\ book'.cid = book.cid /\ book'.coid = book.coid /\ book'.at = book.at
      /\ book'.qty = book.qty /\ book'.free = book.free /\ book'.cnt = book.cnt
      /\ book'.total = book.total /\ book'.level_price = book.level_price
  BY <1>8 DEF SameBut, Fields
<1>10. Live(book') = L
  BY Zenon, <1>9 DEF Live, L
<1>11. TypeInv' /\ QueueInv'
  <2>1. pc' \in {"idle", "match", "walk", "finish", "forward"} /\ pc' # "idle" /\ pc' # "forward"
    BY <1>2
  <2>2. TypeInv'
    BY Zenon, <1>1, <1>2, <1>3, <2>1 DEF TypeInv
  <2> QED BY Zenon, <1>1, <1>2, <1>3, <2>1, <2>2 DEF QueueInv
<1>12. BookPart'
  <2> Walked' = {} /\ pc' # "walk"
    BY <1>2 DEF Walked
  <2> QED BY Zenon, <1>4, <1>8, <1>9, <1>10 DEF BookPart
<1>13. IdsPart' /\ FillsPart'
  <2>1. /\ book'.cid = book.cid /\ book'.coid = book.coid /\ book'.qty = book.qty
        /\ Live(book') = Live(book)
    BY Zenon, <1>9, <1>10 DEF L
  <2>2. /\ cancel_map' = cancel_map /\ taker' = taker /\ remaining' = remaining
        /\ submitted' = submitted /\ filled' = filled /\ asked' = asked
    BY <1>2
  <2>3. IdsPart'
    BY Zenon, <1>1, <1>3, <2>1, <2>2 DEF IdsPart
  <2>4. FillsPart'
    BY Zenon, <1>1, <1>3, <2>1, <2>2 DEF FillsPart
  <2> QED BY <2>3, <2>4
<1>15. CachePart'
  <2>1. \A sd \in Sides : ~holed[sd] => CacheTop(book, sd) /\ (sd # S => Cached(book, sd))
    BY Zenon, <1>1, <1>3 DEF CachePart, Matched
  <2>2. \A sd \in Sides : book'.best[sd] = book.best[sd] =>
                          /\ CacheTop(book, sd) => CacheTop(book', sd)
                          /\ Cached(book, sd) => Cached(book', sd)
    BY Zenon, <1>8, <1>9, CacheStays
  <2>3. \A sd \in Sides : ~Matched(sd)' => sd # S
    BY Zenon, <1>2, <1>3, <1>5 DEF Matched
  <2>4. \A sd \in Sides : book'.best[sd] # book.best[sd] => CacheTop(book', sd) /\ sd = S
    <3> k[1] = S
      BY DEF k
    <3> QED BY Zenon, <1>8 DEF CacheTop
  <2> QED BY Zenon, <1>2, <2>1, <2>2, <2>3, <2>4 DEF CachePart
<1>16. CrossPart'
  <2>1. ~misled' => ~Crossed(book')
    BY Zenon, <1>1, <1>2, <1>3, <1>8, StaysUncrossed DEF CrossPart
  <2> pc' # "finish"
    BY <1>2
  <2> QED BY Zenon, <2>1 DEF CrossPart
<1>17. BookFollows
  <2>1. Follows(book, L, book, L, NULL)
    BY FollowsSelf DEF Live, L
  <2>2. Follows(book, L, book', L, NULL)
    BY Zenon, <1>9, <2>1 DEF Follows
  <2> QED BY Zenon, <1>10, <2>2 DEF BookFollows, L
<1> QED BY Zenon, <1>2, <1>11, <1>12, <1>13, <1>15, <1>16, <1>17
           DEF EngineInv, PositionMoves

\* The book that Finish adds to: send_fill has looked at both sides, if there was a fill.
LEMMA FinishSees ==
    ASSUME EngineInv, CountsAgree, WellOrdered, Finish,
           NEW seen, seen = IF nfills > 0 THEN LookedBoth(book) ELSE book
    PROVE  /\ BookInv(seen, Live(seen), {}) /\ SameBut(book, seen, {"best"})
           /\ Live(seen) = Live(book) /\ IsInjective(seen.free) /\ EmptyAgree(seen)
           /\ \A sd \in Sides : ~holed'[sd] => Cached(seen, sd)
           /\ holed' \in [Sides -> BOOLEAN]
<1>1. /\ TypeInv /\ BookPart /\ CachePart
  BY Zenon DEF EngineInv
<1>2. /\ pc = "finish" /\ holed' = IF nfills > 0 THEN StillHoled ELSE holed
  BY Zenon DEF Finish
<1>3. ~corrupted /\ Busy /\ Walked = {} /\ nfills \in Nat /\ holed \in [Sides -> BOOLEAN]
  <2>1. Busy /\ Walked = {}
    BY <1>2 DEF Busy, Walked
  <2> QED BY Zenon, <1>1, <2>1 DEF TypeInv
<1> DEFINE L == Live(book)
<1>4. BookInv(book, L, {}) /\ IsInjective(book.free) /\ EmptyAgree(book)
  BY Zenon, <1>1, <1>3 DEF BookPart, CountsAgree
<1>5. \A sd \in Sides : ~holed[sd] => /\ CacheTop(book, sd)
                                      /\ ~(nfills > 0) => Cached(book, sd)
  BY Zenon, <1>1, <1>3 DEF CachePart, Matched
<1> HIDE DEF L
<1>6. /\ BookInv(seen, L, {}) /\ SameBut(book, seen, {"best"})
      /\ \A sd \in Sides : ~holed'[sd] => Cached(seen, sd)
      /\ holed' \in [Sides -> BOOLEAN]
  <2>1. CASE nfills > 0
    <3>1. seen = LookedBoth(book) /\ holed' = StillHoled
      BY <1>2, <2>1
    <3>2. BothSeen(book, seen, L)
      BY Zenon, <1>4, <3>1, BothLooks
    <3>3. \A sd \in Sides : holed'[sd] <=> holed[sd] /\ CacheHit(book, sd)
      BY Zenon, <1>3, <3>1 DEF StillHoled
    <3>4. holed' \in [Sides -> BOOLEAN]
      BY <1>3, <3>1 DEF StillHoled
    <3> QED BY Zenon, <1>5, <3>2, <3>3, <3>4 DEF BothSeen
  <2>2. CASE ~(nfills > 0)
    <3>1. seen = book /\ holed' = holed
      BY <1>2, <2>2
    <3>2. SameBut(book, book, {"best"})
      BY Zenon, <1>4 DEF BookInv, BookOK, SameBut
    <3> QED BY Zenon, <1>3, <1>4, <1>5, <2>2, <3>1, <3>2
  <2> QED BY <2>1, <2>2
<1>7. /\ seen.free = book.free /\ seen.cnt = book.cnt /\ seen.head = book.head
      /\ seen.total = book.total
  BY <1>6 DEF SameBut, Fields
<1>8. Live(seen) = L
  BY Zenon, <1>7 DEF Live, L
<1>9. EmptyAgree(seen)
  BY Zenon, <1>4, <1>7 DEF EmptyAgree
<1> QED BY Zenon, <1>4, <1>6, <1>7, <1>8, <1>9 DEF L

\* What Finish adds: the rest of the order in slot s, or nothing.
FinishAdds(seen, s) ==
    /\ Added(seen, book', s, taker.cid, submitted, taker.side, taker.price, remaining)
    /\ FewerQuotes(seen, book') \/ remaining > 0
    /\ s = NULL => cancel_map' = cancel_map
    /\ s # NULL => cancel_map' = [cancel_map EXCEPT ![<<taker.cid, submitted>>] = s]

\* The end of match adds the rest of the order, if any, in one slot or none.
LEMMA FinishAdd ==
    ASSUME EngineInv, CountsAgree, WellOrdered, Finish,
           NEW seen, seen = IF nfills > 0 THEN LookedBoth(book) ELSE book
    PROVE  \E s : FinishAdds(seen, s)
<1>0. /\ BookInv(seen, Live(seen), {}) /\ IsInjective(seen.free) /\ EmptyAgree(seen)
  BY Zenon, FinishSees
<1>1. Busy
  <2> pc = "finish"
    BY Zenon DEF Finish
  <2> QED BY DEF Busy
<1>2. /\ remaining \in Nat /\ taker.coid = submitted /\ taker.side \in Sides
      /\ taker.price \in Prices
  <2> TypeInv
    BY Zenon DEF EngineInv
  <2> QED BY Zenon, <1>1 DEF TypeInv
<1> DEFINE r == add_order(seen, taker.cid, taker.coid, taker.side, taker.price, remaining)
           A(c, s) == Added(seen, c, s, taker.cid, submitted, taker.side, taker.price, remaining)
<1>3. \/ /\ book' = seen /\ cancel_map' = cancel_map
      \/ /\ book' = r.book /\ remaining > 0
         /\ \/ r.idx # NULL /\ cancel_map' = cancel_map_insert(r.idx)
            \/ r.idx = NULL /\ cancel_map' = cancel_map
  BY Zenon DEF Finish
<1>4. r = add_order(seen, taker.cid, submitted, taker.side, taker.price, remaining)
  BY Zenon, <1>2
<1>5. CASE book' = seen /\ cancel_map' = cancel_map
  <2>1. MoreQuotes(seen, seen, taker.side, taker.price) /\ SameOrders(seen, seen, Live(seen))
    BY Zenon DEF MoreQuotes, SameOrders
  <2>2. Follows(seen, Live(seen), seen, Live(seen), NULL)
    BY FollowsSelf DEF Live
  <2>3. A(seen, NULL)
    BY Zenon, <1>0, <2>1, <2>2 DEF Added
  <2>4. FewerQuotes(seen, seen)
    BY Zenon DEF FewerQuotes
  <2> QED BY Zenon, <1>5, <2>3, <2>4 DEF FinishAdds
<1>6. CASE book' = r.book /\ remaining > 0 /\ r.idx # NULL
           /\ cancel_map' = cancel_map_insert(r.idx)
  <2>1. remaining \in Nat \ {0}
    BY <1>2, <1>6
  <2>2. A(book', r.idx)
    <3> HIDE DEF r
    <3> QED BY Zenon, <1>0, <1>2, <1>4, <1>6, <2>1, AddRests
  <2> HIDE DEF r
  <2>3. cancel_map' = [cancel_map EXCEPT ![<<taker.cid, submitted>>] = r.idx]
    BY Zenon, <1>2, <1>6 DEF cancel_map_insert
  <2> QED BY Zenon, <1>6, <2>2, <2>3 DEF FinishAdds
<1>7. CASE book' = r.book /\ remaining > 0 /\ r.idx = NULL /\ cancel_map' = cancel_map
  <2>1. remaining \in Nat \ {0}
    BY <1>2, <1>7
  <2>2. A(book', NULL)
    <3> HIDE DEF r
    <3> QED BY Zenon, <1>0, <1>2, <1>4, <1>7, <2>1, AddFails
  <2> HIDE DEF r
  <2> QED BY Zenon, <1>7, <2>2 DEF FinishAdds
<1> QED BY Zenon, <1>3, <1>5, <1>6, <1>7

\* The rest of an order joins its side at its limit; what it could trade with is gone.
LEMMA RestUncrossed ==
    ASSUME NEW b, NEW c, NEW side \in Sides, NEW p \in Int, MoreQuotes(b, c, side, p),
           ~Crossed(b), c.level_price \in [Levels -> Int], b.level_price \in [Levels -> Int],
           \A m \in Indices : HasQty(b, <<Opposite(side), m>>) =>
             Better(Opposite(side), p, b.level_price[<<Opposite(side), m>>])
    PROVE  ~Crossed(c)
<1> SUFFICES ASSUME NEW i \in Indices, NEW j \in Indices,
                    HasQty(c, <<"BUY", i>>), HasQty(c, <<"SELL", j>>),
                    c.level_price[<<"BUY", i>>] >= c.level_price[<<"SELL", j>>]
             PROVE  FALSE
  BY Zenon DEF Crossed
<1> DEFINE k == <<"BUY", i>>
           n == <<"SELL", j>>
<1>1. k \in Levels /\ n \in Levels /\ k[1] = "BUY" /\ n[1] = "SELL"
  BY DEF Levels, Sides
<1>2. ~( /\ HasQty(b, k) /\ c.level_price[k] = b.level_price[k]
         /\ HasQty(b, n) /\ c.level_price[n] = b.level_price[n])
  BY Zenon DEF Crossed
<1>3. /\ \/ HasQty(b, k) /\ c.level_price[k] = b.level_price[k]
         \/ "BUY" = side /\ c.level_price[k] = p
      /\ \/ HasQty(b, n) /\ c.level_price[n] = b.level_price[n]
         \/ "SELL" = side /\ c.level_price[n] = p
  <2> HasQty(c, k) /\ HasQty(c, n)
    OBVIOUS
  <2> HIDE DEF k, n
  <2>1. \/ HasQty(b, k) /\ c.level_price[k] = b.level_price[k]
        \/ k[1] = side /\ c.level_price[k] = p
    BY Zenon, <1>1 DEF MoreQuotes
  <2>2. \/ HasQty(b, n) /\ c.level_price[n] = b.level_price[n]
        \/ n[1] = side /\ c.level_price[n] = p
    BY Zenon, <1>1 DEF MoreQuotes
  <2> QED BY SMTT(60), <1>1, <2>1, <2>2
<1>4. /\ c.level_price[k] \in Int /\ c.level_price[n] \in Int
      /\ c.level_price[k] >= c.level_price[n]
  <2> HIDE DEF k, n
  <2> QED BY SMTT(60), <1>1 DEF k, n
<1>5. CASE side = "BUY"
  <2>1. /\ c.level_price[k] = p /\ HasQty(b, n) /\ c.level_price[n] = b.level_price[n]
    BY SMTT(60), <1>2, <1>3, <1>5
  <2>2. p < b.level_price[n]
    BY SMTT(60), <1>5, <2>1 DEF Better, Opposite
  <2> HIDE DEF k, n
  <2> QED BY SMTT(60), <1>4, <2>1, <2>2
<1>6. CASE side = "SELL"
  <2>1. /\ c.level_price[n] = p /\ HasQty(b, k) /\ c.level_price[k] = b.level_price[k]
    BY SMTT(60), <1>2, <1>3, <1>6
  <2>2. p > b.level_price[k]
    BY <1>6, <2>1 DEF Better, Opposite
  <2> HIDE DEF k, n
  <2> QED BY SMTT(60), <1>4, <2>1, <2>2
<1> QED BY <1>5, <1>6 DEF Sides

\* The end of an order: its rest joins the book, or is dropped.
LEMMA FinishStep ==
    ASSUME EngineInv, CountsAgree, WellOrdered, Finish
    PROVE  EngineInv' /\ BookFollows /\ PositionMoves
<1>1. /\ TypeInv /\ QueueInv /\ BookPart /\ IdsPart /\ FillsPart /\ CachePart /\ CrossPart
  BY Zenon DEF EngineInv
<1> DEFINE seen == IF nfills > 0 THEN LookedBoth(book) ELSE book
           L == Live(book)
           key == <<taker.cid, submitted>>
<1>2. /\ pc = "finish" /\ pc' = "forward" /\ position' = position /\ submitted' = submitted
      /\ filled' = filled /\ asked' = asked /\ misled' = misled /\ corrupted' = corrupted
  BY Zenon DEF Finish
<1>3. outbound' = outbound \/ outbound' = outbound + 1
  BY Zenon DEF Finish
<1>4. Busy /\ ~Busy'
  BY <1>2 DEF Busy
<1>5. /\ ~corrupted /\ taker.cid \in Contestants /\ taker.side \in Sides
      /\ taker.price \in Prices /\ submitted \in 0 .. MaxOrders /\ submitted >= 1
      /\ taker.qty \in 1 .. MaxOrderSize /\ remaining \in Nat /\ nfills \in Nat
      /\ remaining + nfills <= taker.qty
      /\ DOMAIN cancel_map = Contestants \X ClientIds
      /\ filled \in [ClientIds -> Int] /\ asked \in [ClientIds -> Int]
  BY Zenon, <1>1, <1>4 DEF TypeInv
<1>6. submitted \in ClientIds /\ taker.price \in Int
  BY <1>5, EngineAssumption DEF ClientIds, Prices
<1>7. /\ BookInv(seen, Live(seen), {}) /\ SameBut(book, seen, {"best"})
      /\ Live(seen) = L
      /\ \A sd \in Sides : ~holed'[sd] => Cached(seen, sd)
      /\ holed' \in [Sides -> BOOLEAN]
  BY Zenon, FinishSees
<1>8. \E s : FinishAdds(seen, s)
  BY Zenon, FinishAdd
<1> HIDE DEF seen, L, key
<1>9. PICK s : FinishAdds(seen, s)
  BY Zenon, <1>8
<1>10. /\ Added(seen, book', s, taker.cid, submitted, taker.side, taker.price, remaining)
       /\ FewerQuotes(seen, book') \/ remaining > 0
       /\ s = NULL => cancel_map' = cancel_map
       /\ s # NULL => cancel_map' = [cancel_map EXCEPT ![key] = s]
  BY Zenon, <1>9 DEF FinishAdds, key
<1>11. /\ seen.cid = book.cid /\ seen.coid = book.coid /\ seen.qty = book.qty
       /\ seen.at = book.at /\ seen.cnt = book.cnt /\ seen.total = book.total
       /\ seen.active = book.active /\ seen.level_price = book.level_price
  BY <1>7 DEF SameBut, Fields
<1>12. /\ BookInv(book', Live(book'), {}) /\ IsInjective(book'.free)
       /\ \E t : Follows(seen, Live(seen), book', Live(book'), t)
       /\ MoreQuotes(seen, book', taker.side, taker.price)
       /\ \A sd \in Sides : Cached(seen, sd) => Cached(book', sd)
  BY Zenon, <1>10 DEF Added
<1>13. /\ SameOrders(seen, book', L)
       /\ s = NULL => Live(book') = L
       /\ s # NULL => /\ s \in Slots \ L /\ Live(book') = L \cup {s}
                      /\ book'.cid[s] = taker.cid /\ book'.coid[s] = submitted
                      /\ book'.qty[s] = remaining
  BY Zenon, <1>7, <1>10 DEF Added
<1>14. \A t \in L : /\ book'.cid[t] = book.cid[t] /\ book'.coid[t] = book.coid[t]
                    /\ book'.qty[t] = book.qty[t]
  BY Zenon, <1>11, <1>13 DEF SameOrders
<1>15. key \in Contestants \X ClientIds
  BY <1>5, <1>6 DEF key
<1>16. TypeInv'
  <2>1. DOMAIN cancel_map' = Contestants \X ClientIds
    BY Zenon, <1>5, <1>10
  <2>2. pc' \in {"idle", "match", "walk", "finish", "forward"}
    BY <1>2
  <2> QED BY Zenon, <1>1, <1>2, <1>4, <1>7, <2>1, <2>2 DEF TypeInv
<1>17. QueueInv'
  <2>1. outbound = 2 * nfills
    BY Zenon, <1>1, <1>4 DEF QueueInv
  <2>2. outbound' \in Nat /\ outbound' <= 2 * MaxFills + 1
    BY <1>3, <1>5, <2>1, EngineAssumption
  <2> pc' # "idle"
    BY <1>2
  <2> QED BY Zenon, <1>4, <2>2 DEF QueueInv
<1>18. BookPart'
  <2> Walked' = {} /\ pc' # "walk"
    BY <1>2 DEF Walked
  <2> QED BY Zenon, <1>12 DEF BookPart
<1>19. /\ \A t \in L : /\ book.cid[t] \in Contestants /\ book.coid[t] \in ClientIds
                       /\ book.coid[t] <= submitted /\ book.coid[t] < submitted
                       /\ cancel_map[<<book.cid[t], book.coid[t]>>] = t
       /\ \A t, u \in L : book.coid[t] = book.coid[u] => t = u
  BY Zenon, <1>1, <1>4, <1>5 DEF IdsPart, L
<1>20. \A t \in L : book.coid[t] # submitted
  <2> TAKE t \in L
  <2>1. book.coid[t] \in ClientIds /\ book.coid[t] < submitted
    BY Zenon, <1>19
  <2> QED BY <1>6, <2>1 DEF ClientIds
<1>21. \A t \in Live(book') : t \in L \/ (t = s /\ s # NULL)
  <2>1. Live(book') = L \/ (s # NULL /\ Live(book') = L \cup {s})
    BY Zenon, <1>13
  <2> QED BY <2>1
<1>22. IdsPart'
  <2>1. ASSUME NEW t \in Live(book')
        PROVE  /\ book'.cid[t] \in Contestants
               /\ book'.coid[t] \in ClientIds /\ book'.coid[t] <= submitted
               /\ cancel_map'[<<book'.cid[t], book'.coid[t]>>] = t
    <3>1. CASE t \in L
      <4> DEFINE n == <<book.cid[t], book.coid[t]>>
      <4>1. n # key
        BY SMTT(60), <1>20, <3>1 DEF key
      <4>2. n \in DOMAIN cancel_map /\ cancel_map[n] = t /\ n = <<book'.cid[t], book'.coid[t]>>
        BY <1>5, <1>14, <1>19, <3>1
      <4> HIDE DEF n
      <4>3. cancel_map'[n] = t
        BY Zenon, <1>10, <4>1, <4>2
      <4> QED BY Zenon, <1>14, <1>19, <3>1, <4>2, <4>3
    <3>2. CASE t = s /\ s # NULL
      <4>1. cancel_map'[key] = s
        BY Zenon, <1>5, <1>10, <1>15, <3>2
      <4>2. submitted <= submitted
        BY <1>5
      <4> QED BY Zenon, <1>5, <1>6, <1>13, <3>2, <4>1, <4>2 DEF key
    <3> QED BY <1>21, <3>1, <3>2
  <2>2. ASSUME NEW t \in Live(book'), NEW u \in Live(book'), book'.coid[t] = book'.coid[u]
        PROVE  t = u
    <3>1. CASE t \in L /\ u \in L
      BY Zenon, <1>14, <1>19, <2>2, <3>1
    <3>2. CASE t \in L /\ u = s /\ s # NULL
      BY Zenon, <1>13, <1>14, <1>20, <2>2, <3>2
    <3>3. CASE u \in L /\ t = s /\ s # NULL
      BY Zenon, <1>13, <1>14, <1>20, <2>2, <3>3
    <3> QED BY Zenon, <1>21, <3>1, <3>2, <3>3
  <2> QED BY Zenon, <1>2, <1>4, <2>1, <2>2 DEF IdsPart
<1>23. FillsPart'
  <2>1. /\ \A n \in ClientIds : /\ filled[n] <= asked[n]
                                /\ n > submitted => filled[n] = 0 /\ asked[n] = 0
        /\ \A t \in L : book.qty[t] + filled[book.coid[t]] = asked[book.coid[t]]
        /\ asked[submitted] = taker.qty /\ remaining + filled[submitted] = taker.qty
    BY ZenonT(60), <1>1, <1>4, <1>5 DEF FillsPart, L
  <2>2. ASSUME NEW t \in Live(book')
        PROVE  book'.qty[t] + filled[book'.coid[t]] = asked[book'.coid[t]]
    <3>1. CASE t \in L
      BY Zenon, <1>14, <2>1, <3>1
    <3>2. CASE t = s /\ s # NULL
      BY Zenon, <1>13, <2>1, <3>2
    <3> QED BY <1>21, <3>1, <3>2
  <2> QED BY Zenon, <1>2, <1>4, <2>1, <2>2 DEF FillsPart
<1>24. CachePart'
  BY Zenon, <1>7, <1>12 DEF CachePart, Cached
<1>25. CrossPart'
  <2> SUFFICES ASSUME ~misled PROVE ~Crossed(book')
    <3> pc' # "finish"
      BY <1>2
    <3> QED BY Zenon, <1>2 DEF CrossPart
  <2>1. /\ ~Crossed(book)
        /\ remaining > 0 => \A m \in Indices : HasQty(book, <<Contra, m>>) =>
                                               BeyondLimit(book.level_price[<<Contra, m>>])
    BY Zenon, <1>1, <1>2, <1>5 DEF CrossPart
  <2>2. /\ ~Crossed(seen)
        /\ remaining > 0 => \A m \in Indices : HasQty(seen, <<Contra, m>>) =>
                                               BeyondLimit(seen.level_price[<<Contra, m>>])
    BY Zenon, <1>11, <2>1 DEF Crossed, HasQty
  <2>3. CASE FewerQuotes(seen, book')
    BY Zenon, <2>2, <2>3, StaysUncrossed
  <2>4. CASE remaining > 0
    <3>1. \A m \in Indices : HasQty(seen, <<Opposite(taker.side), m>>) =>
            Better(Opposite(taker.side), taker.price, seen.level_price[<<Opposite(taker.side), m>>])
      BY Zenon, <2>2, <2>4 DEF Contra, BeyondLimit
    <3>2. seen.level_price \in [Levels -> Int] /\ book'.level_price \in [Levels -> Int]
      BY Zenon, <1>7, <1>12 DEF BookInv, BookOK
    <3> QED BY Zenon, <1>5, <1>6, <1>12, <2>2, <3>1, <3>2, RestUncrossed
  <2> QED BY <1>10, <2>3, <2>4
<1>26. BookFollows
  <2> PICK t : Follows(seen, Live(seen), book', Live(book'), t)
    BY Zenon, <1>12
  <2>1. Follows(book, L, book', Live(book'), t)
    BY Zenon, <1>7, <1>11 DEF Follows
  <2> QED BY Zenon, <2>1 DEF BookFollows, L
<1> QED BY Zenon, <1>2, <1>16, <1>17, <1>18, <1>22, <1>23, <1>24, <1>25, <1>26
           DEF EngineInv, PositionMoves

=============================================================================
