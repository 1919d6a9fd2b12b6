------------------------ MODULE MatchEngineTheorems -------------------------
(***************************************************************************)
(* The remaining steps of MatchEngine, the sums that BookSound and           *)
(* QuantityConserved speak of, and the theorems.                             *)
(***************************************************************************)
EXTENDS MatchEngineProofs, FiniteSetTheorems, WellFoundedInduction, NaturalsInduction

\* A cancel: the slot that the map names is taken out of the book, whatever rests in it.
LEMMA CancelStep ==
    ASSUME EngineInv, CountsAgree, WellOrdered, NEW c \in Contestants, NEW i \in ClientIds,
           process_cancel(c, i)
    PROVE  EngineInv' /\ BookFollows /\ PositionMoves
<1>1. /\ TypeInv /\ QueueInv /\ BookPart /\ IdsPart /\ FillsPart /\ CachePart /\ CrossPart
  BY Zenon DEF EngineInv
<1> DEFINE s == cancel_map[<<c, i>>]
           side == book.at[s][1]
           d == cancel_order(book, s)
           L == Live(book)
           key == <<c, i>>
           hole == /\ book.best[side] # NULL /\ d.best[side] = NULL
                   /\ rebuild_best(d, side) # NULL
<1>2. /\ pc = "idle" /\ ~corrupted /\ pc' = "forward" /\ outbound' = outbound + 1
      /\ position' = position /\ submitted' = submitted
      /\ filled' = filled /\ asked' = asked /\ misled' = misled
  BY Zenon DEF process_cancel
<1>3. \/ /\ book' = book /\ cancel_map' = cancel_map /\ holed' = holed /\ corrupted' = corrupted
      \/ /\ book' = d /\ cancel_map' = [cancel_map EXCEPT ![key] = NULL]
         /\ holed' = [holed EXCEPT ![side] = @ \/ hole]
         /\ corrupted' = (corrupted \/ s \notin L)
  BY Zenon DEF process_cancel
<1> HIDE DEF d, hole, key, side, L
<1>4. ~Busy /\ ~Busy' /\ Walked = {} /\ Walked' = {}
  BY <1>2 DEF Busy, Walked
<1>5. /\ holed \in [Sides -> BOOLEAN] /\ DOMAIN cancel_map = Contestants \X ClientIds
      /\ outbound \in Nat /\ (pc = "idle" => outbound = 0)
  BY Zenon, <1>1 DEF TypeInv, QueueInv
<1>6. key \in Contestants \X ClientIds /\ cancel_map[key] = s
  BY DEF key
<1>7. TypeInv'
  <2>1. DOMAIN cancel_map' = Contestants \X ClientIds
    BY Zenon, <1>3, <1>5
  <2>2. holed' \in [Sides -> BOOLEAN]
    <3> HIDE DEF s
    <3>1. holed' = holed \/ holed' = [holed EXCEPT ![side] = @ \/ hole]
      BY Zenon, <1>3
    <3> QED BY Zenon, <1>5, <3>1
  <2>4. corrupted' \in BOOLEAN
    <3> HIDE DEF s
    <3>1. corrupted' = corrupted \/ corrupted' = (corrupted \/ s \notin L)
      BY Zenon, <1>3
    <3>2. corrupted \in BOOLEAN
      BY Zenon, <1>1 DEF TypeInv
    <3> QED BY Zenon, <3>1, <3>2
  <2>3. pc' \in {"idle", "match", "walk", "finish", "forward"}
    BY <1>2
  <2> QED BY Zenon, <1>1, <1>2, <1>4, <2>1, <2>2, <2>3, <2>4 DEF TypeInv
<1>8. QueueInv'
  <2> outbound' \in Nat /\ outbound' <= 2 * MaxFills + 1 /\ pc' # "idle"
    BY <1>2, <1>5, EngineAssumption
  <2> QED BY Zenon, <1>4 DEF QueueInv
<1>9. /\ BookInv(book, L, {}) /\ IsInjective(book.free)
  BY Zenon, <1>1, <1>2, <1>4 DEF BookPart, L
<1>10. /\ \A t \in L : /\ book.cid[t] \in Contestants
                       /\ book.coid[t] \in ClientIds /\ book.coid[t] <= submitted
                       /\ cancel_map[<<book.cid[t], book.coid[t]>>] = t
       /\ \A t, u \in L : book.coid[t] = book.coid[u] => t = u
  BY Zenon, <1>1, <1>2 DEF IdsPart, L
<1>11. /\ \A n \in ClientIds : /\ filled[n] <= asked[n]
                               /\ n > submitted => filled[n] = 0 /\ asked[n] = 0
       /\ \A t \in L : book.qty[t] + filled[book.coid[t]] = asked[book.coid[t]]
  BY ZenonT(60), <1>1, <1>2 DEF FillsPart, L
<1>12. \A sd \in Sides : ~holed[sd] => CacheTop(book, sd) /\ Cached(book, sd)
  BY Zenon, <1>1, <1>2, <1>4 DEF CachePart, Matched
<1>13. ~misled => ~Crossed(book)
  BY Zenon, <1>1, <1>2 DEF CrossPart
<1>14. pc' # "walk" /\ pc' # "finish"
  BY <1>2
<1>15. CASE /\ book' = book /\ cancel_map' = cancel_map /\ holed' = holed
            /\ corrupted' = corrupted
  <2>1. BookPart'
    BY Zenon, <1>4, <1>9, <1>14, <1>15 DEF BookPart, L
  <2>2. IdsPart'
    BY Zenon, <1>2, <1>4, <1>10, <1>15 DEF IdsPart, L
  <2>3. FillsPart'
    BY Zenon, <1>2, <1>4, <1>11, <1>15 DEF FillsPart, L
  <2>4. CachePart'
    BY Zenon, <1>12, <1>15 DEF CachePart
  <2>5. CrossPart'
    BY Zenon, <1>2, <1>13, <1>14, <1>15 DEF CrossPart
  <2>6. Follows(book, L, book, L, NULL)
    BY FollowsSelf DEF Live, L
  <2>7. BookFollows
    BY Zenon, <1>15, <2>6 DEF BookFollows, L
  <2> QED BY Zenon, <1>2, <1>7, <1>8, <2>1, <2>2, <2>3, <2>4, <2>5, <2>7
             DEF EngineInv, PositionMoves
<1>16. CASE /\ book' = d /\ cancel_map' = [cancel_map EXCEPT ![key] = NULL]
            /\ holed' = [holed EXCEPT ![side] = @ \/ hole]
            /\ corrupted' = (corrupted \/ s \notin L)
  <2>1. CASE corrupted'
    <3>1. BookPart' /\ IdsPart' /\ CachePart' /\ CrossPart' /\ BookFollows
      BY Zenon, <2>1 DEF BookPart, IdsPart, CachePart, CrossPart, BookFollows
    <3>2. FillsPart'
      BY Zenon, <1>2, <1>4, <1>11, <2>1 DEF FillsPart
    <3> QED BY Zenon, <1>2, <1>7, <1>8, <3>1, <3>2 DEF EngineInv, PositionMoves
  <2>2. CASE ~corrupted'
    <3>1. s \in L
      BY Zenon, <1>16, <2>2
    <3>2. Cancelled(book, d, s)
      <4> EmptyAgree(Detach(book, book.at[s], s))
        BY Zenon, <1>2, <3>1 DEF CountsAgree, L
      <4> QED BY Zenon, <1>9, <3>1, CancelKeeps DEF d, L
    <3> HIDE DEF s
    <3>3. /\ BookInv(d, Live(d), {}) /\ IsInjective(d.free) /\ Live(d) = L \ {s}
          /\ Follows(book, L, d, Live(d), s) /\ FewerQuotes(book, d)
          /\ d.level_price = book.level_price
          /\ \A sd \in Sides : \/ d.best[sd] = book.best[sd]
                               \/ d.best[sd] = NULL /\ sd = side
      BY Zenon, <3>2 DEF Cancelled, L, side
    <3>4. \A t \in Live(d) : /\ d.cid[t] = book.cid[t] /\ d.coid[t] = book.coid[t]
                             /\ d.qty[t] = book.qty[t]
      BY Zenon, <3>2 DEF Cancelled, SameOrders
    <3>5. \A t \in Live(d) : t \in L /\ t # s
      BY <3>3
    <3>6. BookPart'
      BY Zenon, <1>4, <1>14, <1>16, <3>3 DEF BookPart
    <3>7. IdsPart'
      <4>1. ASSUME NEW t \in Live(d)
            PROVE  /\ d.cid[t] \in Contestants
                   /\ d.coid[t] \in ClientIds /\ d.coid[t] <= submitted
                   /\ cancel_map'[<<d.cid[t], d.coid[t]>>] = t
        <5> DEFINE n == <<d.cid[t], d.coid[t]>>
        <5>1. /\ d.cid[t] = book.cid[t] /\ d.coid[t] = book.coid[t] /\ t \in L /\ t # s
          BY Zenon, <3>4, <3>5
        <5>2. /\ d.cid[t] \in Contestants /\ d.coid[t] \in ClientIds /\ d.coid[t] <= submitted
              /\ cancel_map[n] = t
          BY Zenon, <1>10, <5>1
        <5>3. n \in Contestants \X ClientIds
          BY <5>2
        <5> HIDE DEF n
        <5>4. n # key
          BY Zenon, <1>6, <5>1, <5>2
        <5>5. cancel_map'[n] = t
          BY Zenon, <1>5, <1>16, <5>2, <5>3, <5>4
        <5> QED BY Zenon, <5>2, <5>5 DEF n
      <4>2. \A t, u \in Live(d) : d.coid[t] = d.coid[u] => t = u
        BY Zenon, <1>10, <3>4, <3>5
      <4> QED BY Zenon, <1>2, <1>4, <1>16, <4>1, <4>2 DEF IdsPart
    <3>8. FillsPart'
      <4>1. \A t \in Live(d) : d.qty[t] + filled[d.coid[t]] = asked[d.coid[t]]
        BY Zenon, <1>11, <3>4, <3>5
      <4> QED BY Zenon, <1>2, <1>4, <1>11, <1>16, <4>1 DEF FillsPart
    <3>9. CachePart'
      <4> SUFFICES ASSUME NEW sd \in Sides, ~holed'[sd] PROVE Cached(d, sd)
        BY Zenon, <1>16 DEF CachePart, Cached
      <4>1. ~holed[sd] /\ (sd = side => ~hole)
        BY Zenon, <1>5, <1>16
      <4>2. Cached(book, sd)
        BY Zenon, <1>12, <4>1
      <4>3. CASE d.best[sd] = book.best[sd]
        BY Zenon, <3>3, <4>2, <4>3, CacheStays
      <4>4. CASE d.best[sd] # book.best[sd]
        <5>1. d.best[sd] = NULL /\ sd = side /\ book.best[sd] # NULL
          BY Zenon, <3>3, <4>4
        <5>2. rebuild_best(d, sd) = NULL
          BY Zenon, <4>1, <5>1 DEF hole
        <5>3. NoneQuoted(d, sd)
          BY Zenon, <3>3, <5>2, RebuildBest
        <5> QED BY Zenon, <5>1, <5>3 DEF Cached, CacheTop
      <4> QED BY <4>3, <4>4
    <3>10. CrossPart'
      <4>1. ~misled => ~Crossed(d)
        BY Zenon, <1>13, <3>3, StaysUncrossed
      <4> QED BY Zenon, <1>2, <1>14, <1>16, <4>1 DEF CrossPart
    <3>11. BookFollows
      BY Zenon, <1>16, <3>3 DEF BookFollows, L
    <3> QED BY Zenon, <1>2, <1>7, <1>8, <3>6, <3>7, <3>8, <3>9, <3>10, <3>11
               DEF EngineInv, PositionMoves
  <2> QED BY <2>1, <2>2
<1> QED BY Zenon, <1>3, <1>15, <1>16

\* A tick looks at both sides.
LEMMA TickStep ==
    ASSUME EngineInv, WellOrdered, generate_tick
    PROVE  EngineInv' /\ BookFollows /\ PositionMoves
<1>1. /\ TypeInv /\ QueueInv /\ BookPart /\ IdsPart /\ FillsPart /\ CachePart /\ CrossPart
  BY Zenon DEF EngineInv
<1> DEFINE L == Live(book)
<1>2. /\ pc = "idle" /\ pc' = pc /\ book' = LookedBoth(book) /\ holed' = StillHoled
      /\ position' = position /\ submitted' = submitted /\ cancel_map' = cancel_map
      /\ outbound' = outbound
      /\ filled' = filled /\ asked' = asked /\ misled' = misled /\ corrupted' = corrupted
  BY Zenon DEF generate_tick
<1>3. /\ ~Busy /\ ~Busy' /\ Walked = {} /\ Walked' = {} /\ pc' # "walk" /\ pc' # "finish"
      /\ pc' # "forward"
  BY <1>2 DEF Busy, Walked
<1>4. holed \in [Sides -> BOOLEAN]
  BY Zenon, <1>1 DEF TypeInv
<1>5. /\ holed' \in [Sides -> BOOLEAN]
      /\ \A sd \in Sides : holed'[sd] <=> holed[sd] /\ CacheHit(book, sd)
  BY Zenon, <1>2, <1>4 DEF StillHoled
<1>6. TypeInv' /\ QueueInv'
  <2>1. TypeInv'
    BY Zenon, <1>1, <1>2, <1>3, <1>5 DEF TypeInv
  <2> QED BY Zenon, <1>1, <1>2, <1>3, <2>1 DEF QueueInv
<1>7. CASE corrupted'
  <2>1. BookPart' /\ IdsPart' /\ CachePart' /\ CrossPart' /\ BookFollows
    BY Zenon, <1>7 DEF BookPart, IdsPart, CachePart, CrossPart, BookFollows
  <2>2. FillsPart'
    BY Zenon, <1>1, <1>2, <1>3, <1>7 DEF FillsPart
  <2> QED BY Zenon, <1>2, <1>6, <2>1, <2>2 DEF EngineInv, PositionMoves
<1>8. CASE ~corrupted'
  <2>1. ~corrupted /\ BookInv(book, L, {}) /\ IsInjective(book.free)
    BY Zenon, <1>1, <1>2, <1>3, <1>8 DEF BookPart
  <2> HIDE DEF L
  <2>2. BothSeen(book, book', L)
    BY Zenon, <1>2, <2>1, BothLooks
  <2>3. /\ BookInv(book', L, {}) /\ SameBut(book, book', {"best"})
        /\ \A sd \in Sides : CacheTop(book, sd) \/ ~CacheHit(book, sd) => Cached(book', sd)
    BY Zenon, <2>2 DEF BothSeen
  <2>4. /\ book'.cid = book.cid /\ book'.coid = book.coid /\ book'.qty = book.qty
        /\ book'.at = book.at /\ book'.cnt = book.cnt /\ book'.total = book.total
        /\ book'.active = book.active /\ book'.level_price = book.level_price
        /\ book'.free = book.free
    BY <2>3 DEF SameBut, Fields
  <2>5. Live(book') = L
    BY Zenon, <2>4 DEF Live, L
  <2>6. BookPart'
    BY Zenon, <1>3, <2>1, <2>3, <2>4, <2>5 DEF BookPart
  <2>7. IdsPart' /\ FillsPart'
    <3>1. /\ book'.cid = book.cid /\ book'.coid = book.coid /\ book'.qty = book.qty
          /\ Live(book') = Live(book)
      BY Zenon, <2>4, <2>5 DEF L
    <3>2. /\ cancel_map' = cancel_map /\ submitted' = submitted /\ filled' = filled
          /\ asked' = asked
      BY <1>2
    <3>3. IdsPart'
      BY Zenon, <1>1, <1>3, <2>1, <3>1, <3>2 DEF IdsPart
    <3>4. FillsPart'
      BY Zenon, <1>1, <1>3, <2>1, <3>1, <3>2 DEF FillsPart
    <3> QED BY <3>3, <3>4
  <2>8. CachePart'
    <3> \A sd \in Sides : ~holed[sd] => CacheTop(book, sd)
      BY Zenon, <1>1, <2>1 DEF CachePart
    <3> \A sd \in Sides : ~holed'[sd] => Cached(book', sd)
      BY Zenon, <1>5, <2>3
    <3> QED BY Zenon DEF CachePart, Cached
  <2>9. CrossPart'
    <3> ~Crossed(book) => ~Crossed(book')
      BY Zenon, <2>4 DEF Crossed, HasQty
    <3> QED BY Zenon, <1>1, <1>2, <1>3, <2>1 DEF CrossPart
  <2>10. BookFollows
    <3>1. Follows(book, L, book, L, NULL)
      BY FollowsSelf DEF Live, L
    <3>2. Follows(book, L, book', L, NULL)
      BY Zenon, <2>4, <3>1 DEF Follows
    <3> QED BY Zenon, <2>5, <3>2 DEF BookFollows, L
  <2> QED BY Zenon, <1>2, <1>6, <2>6, <2>7, <2>8, <2>9, <2>10 DEF EngineInv, PositionMoves
<1> QED BY <1>7, <1>8

\* The outbound queue is forwarded.
LEMMA ForwardStep ==
    ASSUME EngineInv, ForwardOutbound
    PROVE  EngineInv' /\ BookFollows /\ PositionMoves
<1>1. /\ TypeInv /\ QueueInv /\ BookPart /\ IdsPart /\ FillsPart /\ CachePart /\ CrossPart
  BY Zenon DEF EngineInv
<1>2. /\ pc = "forward" /\ pc' = "idle" /\ outbound' = 0 /\ book' = book /\ holed' = holed
      /\ position' = position /\ submitted' = submitted /\ cancel_map' = cancel_map
      /\ filled' = filled /\ asked' = asked /\ misled' = misled /\ corrupted' = corrupted
  BY Zenon DEF ForwardOutbound, history
<1>3. /\ ~Busy /\ ~Busy' /\ Walked = {} /\ Walked' = {} /\ pc' # "walk" /\ pc' # "finish"
      /\ pc' # "forward"
  BY <1>2 DEF Busy, Walked
<1>4. TypeInv'
  <2> pc' \in {"idle", "match", "walk", "finish", "forward"}
    BY <1>2
  <2> QED BY Zenon, <1>1, <1>2, <1>3 DEF TypeInv
<1>5. QueueInv'
  <2> 0 \in Nat
    OBVIOUS
  <2> QED BY Zenon, <1>2, <1>3 DEF QueueInv
<1>6. BookPart'
  BY Zenon, <1>1, <1>2, <1>3 DEF BookPart
<1>7. IdsPart'
  BY Zenon, <1>1, <1>2, <1>3 DEF IdsPart
<1>8. FillsPart'
  BY Zenon, <1>1, <1>2, <1>3 DEF FillsPart
<1>9. CachePart'
  BY Zenon, <1>1, <1>2, <1>3 DEF CachePart, Matched
<1>10. CrossPart'
  BY Zenon, <1>1, <1>2, <1>3 DEF CrossPart
<1>11. BookFollows
  <2> Live(book) \subseteq Slots
    BY DEF Live
  <2> QED BY Zenon, <1>2, FollowsSelf DEF BookFollows
<1> QED BY Zenon, <1>2, <1>4, <1>5, <1>6, <1>7, <1>8, <1>9, <1>10, <1>11
           DEF EngineInv, PositionMoves

\* A step that changes nothing.
LEMMA IdleStep ==
    ASSUME EngineInv, UNCHANGED vars
    PROVE  EngineInv' /\ BookFollows /\ PositionMoves
<1>1. /\ TypeInv /\ QueueInv /\ BookPart /\ IdsPart /\ FillsPart /\ CachePart /\ CrossPart
  BY Zenon DEF EngineInv
<1>2. /\ pc' = pc /\ outbound' = outbound /\ book' = book /\ holed' = holed
      /\ position' = position /\ submitted' = submitted /\ cancel_map' = cancel_map
      /\ filled' = filled /\ asked' = asked /\ misled' = misled /\ corrupted' = corrupted
      /\ taker' = taker /\ remaining' = remaining /\ nfills' = nfills
      /\ best' = best /\ oidx' = oidx
  BY DEF vars, matchVars, history
<1>3. (Busy' <=> Busy) /\ Contra' = Contra /\ Walked' = Walked
  BY Zenon, <1>2 DEF Busy, Contra, Walked
<1>4. TypeInv' /\ QueueInv'
  <2>1. TypeInv'
    BY Zenon, <1>1, <1>2, <1>3 DEF TypeInv
  <2> QED BY Zenon, <1>1, <1>2, <1>3, <2>1 DEF QueueInv
<1>6. BookPart'
  BY Zenon, <1>1, <1>2, <1>3 DEF BookPart
<1>7. IdsPart'
  BY Zenon, <1>1, <1>2, <1>3 DEF IdsPart
<1>8. FillsPart'
  BY Zenon, <1>1, <1>2, <1>3 DEF FillsPart
<1>9. CachePart'
  BY Zenon, <1>1, <1>2, <1>3 DEF CachePart, Matched
<1>10. CrossPart'
  <2> \A x : BeyondLimit(x)' <=> BeyondLimit(x)
    BY Zenon, <1>2, <1>3 DEF BeyondLimit
  <2> QED BY Zenon, <1>1, <1>2, <1>3 DEF CrossPart
<1>11. BookFollows
  <2> Live(book) \subseteq Slots
    BY DEF Live
  <2> QED BY Zenon, <1>2, FollowsSelf DEF BookFollows
<1> QED BY Zenon, <1>2, <1>4, <1>6, <1>7, <1>8, <1>9, <1>10, <1>11
           DEF EngineInv, PositionMoves

\* Every step keeps the invariant, and what the sums need.
LEMMA EngineStep ==
    ASSUME EngineInv, CountsAgree, WellOrdered, [Next]_vars
    PROVE  EngineInv' /\ BookFollows /\ PositionMoves
<1>1. CASE UNCHANGED vars
  BY Zenon, <1>1, IdleStep
<1>2. ASSUME NEW c \in Contestants, NEW side \in Sides, NEW type, NEW p \in Prices,
             NEW q \in 0 .. MaxOrderSize + 1, process_order(c, side, type, p, q)
      PROVE  EngineInv' /\ BookFollows /\ PositionMoves
  BY Zenon, <1>2, OrderStep
<1>3. ASSUME NEW c \in Contestants, NEW i \in ClientIds, process_cancel(c, i)
      PROVE  EngineInv' /\ BookFollows /\ PositionMoves
  BY Zenon, <1>3, CancelStep
<1>4. CASE MatchLevel
  BY Zenon, <1>4, LevelStep
<1>5. CASE MatchFill
  BY Zenon, <1>5, FillStep
<1>6. CASE MatchNextLevel
  BY Zenon, <1>6, NextLevelStep
<1>7. CASE Finish
  BY Zenon, <1>7, FinishStep
<1>8. CASE generate_tick
  BY Zenon, <1>8, TickStep
<1>9. CASE ForwardOutbound
  BY Zenon, <1>9, ForwardStep
<1> QED BY Zenon, <1>1, <1>2, <1>3, <1>4, <1>5, <1>6, <1>7, <1>8, <1>9 DEF Next

\* The invariant holds at the start.
LEMMA EngineStart == Init => EngineInv
<1> SUFFICES ASSUME Init PROVE EngineInv
  OBVIOUS
<1>1. /\ book = EmptyBook /\ position = [c \in Contestants |-> 0]
      /\ cancel_map = [k \in Contestants \X ClientIds |-> NULL]
      /\ outbound = 0 /\ pc = "idle" /\ submitted = 0
      /\ filled = [i \in ClientIds |-> 0] /\ asked = [i \in ClientIds |-> 0]
      /\ misled = FALSE /\ holed = [side \in Sides |-> FALSE] /\ corrupted = FALSE
  BY Zenon DEF Init
<1>2. ~Busy /\ Walked = {} /\ pc # "walk" /\ pc # "finish" /\ pc # "forward"
  BY <1>1 DEF Busy, Walked
<1>3. /\ BookInv(book, Live(book), {}) /\ IsInjective(book.free)
      /\ Live(book) = {}
      /\ \A side \in Sides : Cached(book, side) /\ NoneQuoted(book, side)
  BY Zenon, <1>1, EmptyBookInv
<1>4. TypeInv
  <2>1. /\ position \in [Contestants -> Int] /\ filled \in [ClientIds -> Int]
        /\ asked \in [ClientIds -> Int] /\ holed \in [Sides -> BOOLEAN]
    BY <1>1
  <2>2. submitted \in 0 .. MaxOrders
    BY <1>1, EngineAssumption
  <2>3. DOMAIN cancel_map = Contestants \X ClientIds
    BY Zenon, <1>1
  <2>4. /\ pc \in {"idle", "match", "walk", "finish", "forward"} /\ corrupted \in BOOLEAN
        /\ misled \in BOOLEAN
    BY Zenon, <1>1
  <2> QED BY Zenon, <1>2, <2>1, <2>2, <2>3, <2>4 DEF TypeInv
<1>5. QueueInv
  BY <1>1, <1>2 DEF QueueInv
<1>6. BookPart
  BY Zenon, <1>2, <1>3 DEF BookPart
<1>7. IdsPart
  BY Zenon, <1>3 DEF IdsPart
<1>8. FillsPart
  <2> \A i \in ClientIds : filled[i] <= asked[i] /\ (i > submitted => filled[i] = 0 /\ asked[i] = 0)
    BY <1>1
  <2> QED BY Zenon, <1>2, <1>3 DEF FillsPart
<1>9. CachePart
  BY Zenon, <1>3 DEF CachePart, Cached
<1>10. CrossPart
  <2> "BUY" \in Sides
    BY DEF Sides
  <2> ~Crossed(book)
    BY Zenon, <1>3 DEF Crossed, NoneQuoted
  <2> QED BY Zenon, <1>2 DEF CrossPart
<1> QED BY Zenon, <1>4, <1>5, <1>6, <1>7, <1>8, <1>9, <1>10 DEF EngineInv

-----------------------------------------------------------------------------
(* What the invariant says of the properties.                               *)

\* A book whose cache is right answers with the best level.
LEMMA CacheGivesBest ==
    ASSUME NEW b, NEW L, NEW E, BookInv(b, L, E), NEW side \in Sides, WellOrdered,
           CacheTop(b, side)
    PROVE  BestIsBest(b, side)
<1> DEFINE r == find_best(b, side)
<1>1. /\ ~CacheHit(b, side) => (r # NULL => Top(b, side, r))
      /\ CacheHit(b, side) => r = b.best[side]
  BY Zenon, FindBest
<1> HIDE DEF r
<1>2. r # NULL => Top(b, side, r)
  BY Zenon, <1>1 DEF CacheTop, CacheHit
<1> QED BY Zenon, <1>2 DEF BestIsBest, Top, r

\* The caches of the engine give the best level, the book is not crossed, the cancel map
\* leads to every order, and fills add up.
LEMMA InvGives ==
    ASSUME EngineInv, WellOrdered
    PROVE  /\ BestUnlessHoled /\ NotCrossed /\ CancelReaches /\ FillsAddUp
           /\ outbound <= QueueSize
<1>1. /\ TypeInv /\ QueueInv /\ BookPart /\ IdsPart /\ FillsPart /\ CachePart /\ CrossPart
  BY Zenon DEF EngineInv
<1>2. BestUnlessHoled
  <2> SUFFICES ASSUME ~corrupted, NEW side \in Sides, ~holed[side]
               PROVE  BestIsBest(book, side)
    BY Zenon DEF BestUnlessHoled
  <2>1. BookInv(book, Live(book), Walked) /\ CacheTop(book, side)
    BY Zenon, <1>1 DEF BookPart, CachePart
  <2> QED BY Zenon, <2>1, CacheGivesBest
<1>3. NotCrossed
  <2> SUFFICES ASSUME ~corrupted, ~misled, NEW i \in Quoted("BUY"), NEW j \in Quoted("SELL")
               PROVE  book.level_price[<<"BUY", i>>] < book.level_price[<<"SELL", j>>]
    BY Zenon DEF NotCrossed
  <2>1. /\ i \in Indices /\ j \in Indices
        /\ HasQty(book, <<"BUY", i>>) /\ HasQty(book, <<"SELL", j>>)
    BY DEF Quoted
  <2>2. ~(book.level_price[<<"BUY", i>>] >= book.level_price[<<"SELL", j>>])
    BY Zenon, <1>1, <2>1 DEF CrossPart, Crossed
  <2>3. book.level_price \in [Levels -> Int]
    BY Zenon, <1>1 DEF BookPart, BookInv, BookOK
  <2>4. <<"BUY", i>> \in Levels /\ <<"SELL", j>> \in Levels
    BY <2>1 DEF Levels, Sides
  <2>5. book.level_price[<<"BUY", i>>] \in Int /\ book.level_price[<<"SELL", j>>] \in Int
    BY Zenon, <2>3, <2>4
  <2> QED BY <2>2, <2>5
<1>4. CancelReaches
  BY Zenon, <1>1 DEF IdsPart, CancelReaches
<1>5. FillsAddUp
  <2>1. pc \in {"match", "walk"} => remaining + filled[taker.coid] = taker.qty
    <3> pc \in {"match", "walk"} => Busy
      BY DEF Busy
    <3> Busy => taker.coid = submitted
      BY Zenon, <1>1 DEF TypeInv
    <3> QED BY Zenon, <1>1 DEF FillsPart
  <2> QED BY ZenonT(60), <1>1, <2>1 DEF FillsPart, FillsAddUp
<1>6. outbound <= QueueSize
  <2>1. \/ pc = "idle" /\ outbound = 0
        \/ Busy /\ outbound = 2 * nfills /\ nfills \in Nat /\ remaining \in Nat
           /\ taker.qty \in 1 .. MaxOrderSize /\ remaining + nfills <= taker.qty
        \/ outbound \in Nat /\ outbound <= 2 * MaxFills + 1
    <3> pc = "idle" \/ Busy \/ pc = "forward"
      BY <1>1 DEF TypeInv, Busy
    <3> QED BY Zenon, <1>1 DEF TypeInv, QueueInv
  <2> QED BY <2>1, EngineAssumption
<1> QED BY Zenon, <1>2, <1>3, <1>4, <1>5, <1>6

\* A book that was corrupted stays so.
LEMMA StaysCorrupted == corrupted /\ [Next]_vars => corrupted'
<1> SUFFICES ASSUME corrupted, [Next]_vars PROVE corrupted'
  OBVIOUS
<1>1. CASE UNCHANGED vars
  <2> corrupted' = corrupted
    BY <1>1 DEF vars, history
  <2> QED OBVIOUS
<1>2. ASSUME NEW c, NEW side, NEW type, NEW p, NEW q, process_order(c, side, type, p, q)
      PROVE  corrupted'
  BY Zenon, <1>2 DEF process_order
<1>3. ASSUME NEW c, NEW i, process_cancel(c, i) PROVE corrupted'
  BY Zenon, <1>3 DEF process_cancel
<1>4. CASE MatchLevel
  BY Zenon, <1>4 DEF MatchLevel
<1>5. CASE MatchFill
  BY Zenon, <1>5 DEF MatchFill
<1>6. CASE MatchNextLevel
  BY Zenon, <1>6 DEF MatchNextLevel, history
<1>7. CASE Finish
  BY Zenon, <1>7 DEF Finish
<1>8. CASE generate_tick
  BY Zenon, <1>8 DEF generate_tick
<1>9. CASE ForwardOutbound
  BY Zenon, <1>9 DEF ForwardOutbound, history
<1> QED BY Zenon, <1>1, <1>2, <1>3, <1>4, <1>5, <1>6, <1>7, <1>8, <1>9 DEF Next

-----------------------------------------------------------------------------
(* Sums.  SumFunctionOnSet takes the elements one after the other, in an     *)
(* order that its definition leaves open; Sums says so of every subset.     *)

\* Among some subsets of a finite set one has no other of them below it: the form in which
\* these proofs use induction over finite sets.
LEMMA SmallestSubset ==
    ASSUME NEW S, IsFiniteSet(S), NEW F, F \subseteq SUBSET S, F # {}
    PROVE  \E T \in F : \A U \in F : U \subseteq T => U = T
<1> IsWellFoundedOn(StrictSubsetOrdering(S), SUBSET S)
  BY Zenon, FS_StrictSubsetOrderingWellFounded, FS_FiniteSubsetsOfFinite
<1> \E T \in F : \A U \in F : ~(<<U, T>> \in StrictSubsetOrdering(S))
  BY WFMin
<1> ASSUME NEW T \in F, NEW U \in F
    PROVE  <<U, T>> \in StrictSubsetOrdering(S) <=> U \subseteq T /\ U # T
  BY DEF StrictSubsetOrdering
<1> QED BY Zenon

Pick(s) == CHOOSE x \in s : TRUE
Below(s) == s \ {Pick(s)}

\* Taking one element from a set that is not empty leaves a smaller set.
LEMMA PickBelow == \A s : s # {} => Pick(s) \in s /\ Below(s) \subseteq s /\ Below(s) # s
BY DEF Pick, Below

\* g gives the sum of f on the subsets of U, element by element.
Sums(g, f, U) ==
    \A s \in SUBSET U : g[s] = IF s = {} THEN 0 ELSE f[Pick(s)] + g[Below(s)]

\* Two such functions agree, and there is one.
LEMMA SumsUnique ==
    ASSUME NEW S, IsFiniteSet(S), NEW f, NEW g, NEW h, NEW A \in SUBSET S, NEW B \in SUBSET S,
           Sums(g, f, A), Sums(h, f, B)
    PROVE  \A s \in SUBSET (A \cap B) : g[s] = h[s]
<1> DEFINE F == {s \in SUBSET (A \cap B) : g[s] # h[s]}
<1> SUFFICES ASSUME F # {} PROVE FALSE
  OBVIOUS
<1> F \subseteq SUBSET S
  OBVIOUS
<1> PICK T \in F : \A U \in F : U \subseteq T => U = T
  <2> HIDE DEF F
  <2> QED BY SmallestSubset
<1> T # {}
  BY DEF Sums
<1> Below(T) \subseteq T /\ Below(T) # T
  BY PickBelow
<1> g[Below(T)] = h[Below(T)]
  OBVIOUS
<1> QED BY DEF Sums

\* A finite set has such a function for every f.
LEMMA SumsExist ==
    ASSUME NEW S, IsFiniteSet(S), NEW f
    PROVE  \E g : Sums(g, f, S)
<1> DEFINE F == {T \in SUBSET S : ~\E g : Sums(g, f, T)}
<1> SUFFICES ASSUME F # {} PROVE FALSE
  OBVIOUS
<1> F \subseteq SUBSET S
  OBVIOUS
<1>1. PICK T \in F : \A U \in F : U \subseteq T => U = T
  <2> HIDE DEF F
  <2> QED BY SmallestSubset
<1> DEFINE G(U) == CHOOSE g : Sums(g, f, U)
<1>2. ASSUME NEW U \in SUBSET T, U # T PROVE Sums(G(U), f, U)
  <2> \E g : Sums(g, f, U)
    BY SMTT(60), <1>1, <1>2
  <2> QED OBVIOUS
<1> DEFINE h == [s \in SUBSET T |-> IF s = {} THEN 0 ELSE f[Pick(s)] + G(Below(s))[Below(s)]]
<1> HIDE DEF G, F
<1>3. ASSUME NEW s \in SUBSET T, s # {} PROVE h[Below(s)] = G(Below(s))[Below(s)]
  <2> DEFINE t == Below(s)
  <2> t \in SUBSET T /\ t # T
    BY <1>3, PickBelow
  <2> HIDE DEF t
  <2> Sums(G(t), f, t)
    BY <1>2
  <2>1. CASE t = {}
    BY SMTT(60), <2>1 DEF Sums, t
  <2>2. CASE t # {}
    <3> Below(t) \in SUBSET t /\ Below(t) \in SUBSET T /\ Below(t) # T
      BY Zenon, <2>2, PickBelow
    <3> Sums(G(Below(t)), f, Below(t))
      BY <1>2
    <3> t \in SUBSET S /\ Below(t) \in SUBSET S /\ Below(t) \in SUBSET (t \cap Below(t))
      BY <1>1 DEF F
    <3> G(t)[Below(t)] = G(Below(t))[Below(t)]
      BY SMTT(60), SumsUnique
    <3> G(t)[t] = f[Pick(t)] + G(t)[Below(t)]
      BY SMTT(60), <2>2 DEF Sums
    <3> h[t] = f[Pick(t)] + G(Below(t))[Below(t)]
      BY <2>2
    <3> QED BY DEF t
  <2> QED BY SMTT(60), <2>1, <2>2
<1> Sums(h, f, T)
  BY Zenon, <1>3 DEF Sums
<1> QED BY <1>1 DEF F

\* SumFunctionOnSet is such a function.
LEMMA SumIsSums ==
    ASSUME NEW S, IsFiniteSet(S), NEW f
    PROVE  \E g : Sums(g, f, S) /\ SumFunctionOnSet(f, S) = g[S]
<1> DEFINE Step(g) == [s \in SUBSET S |-> IF s = {} THEN 0 ELSE f[Pick(s)] + g[Below(s)]]
           I == CHOOSE g : g = Step(g)
<1>1. SumFunctionOnSet(f, S) = I[S]
  BY DEF SumFunctionOnSet, FoldFunctionOnSet, MapThenFoldSet, Pick, Below
<1>2. \E g : g = Step(g)
  <2> PICK h : Sums(h, f, S)
    BY SumsExist
  <2> DEFINE g == [s \in SUBSET S |-> h[s]]
  <2> \A s \in SUBSET S : Below(s) \in SUBSET S
    BY DEF Below
  <2> g = Step(g)
    BY DEF Sums
  <2> QED BY Zenon
<1> I = Step(I)
  BY Zenon, <1>2
<1> Sums(I, f, S)
  BY Zenon DEF Sums
<1> QED BY Zenon, <1>1

\* Nothing sums to 0.
LEMMA SumEmpty == \A f : SumFunctionOnSet(f, {}) = 0
BY SMTT(30), SumIsSums, FS_EmptySet DEF Sums

\* The sum over a set is the sum without the picked element, and that element.
LEMMA SumPick ==
    ASSUME NEW S, IsFiniteSet(S), NEW f, S # {}
    PROVE  SumFunctionOnSet(f, S) = f[Pick(S)] + SumFunctionOnSet(f, Below(S))
<1> PICK g : Sums(g, f, S) /\ SumFunctionOnSet(f, S) = g[S]
  BY SumIsSums
<1> IsFiniteSet(Below(S)) /\ Below(S) \in SUBSET S /\ S \in SUBSET S
  BY FS_Subset DEF Below
<1> PICK h : Sums(h, f, Below(S)) /\ SumFunctionOnSet(f, Below(S)) = h[Below(S)]
  BY SumIsSums
<1> \A s \in SUBSET (S \cap Below(S)) : g[s] = h[s]
  BY SumsUnique
<1> g[Below(S)] = h[Below(S)]
  OBVIOUS
<1> QED BY DEF Sums

\* Integers sum to an integer.
LEMMA SumType ==
    ASSUME NEW S, IsFiniteSet(S), NEW f, \A x \in S : f[x] \in Int
    PROVE  SumFunctionOnSet(f, S) \in Int
<1> DEFINE F == {s \in SUBSET S : SumFunctionOnSet(f, s) \notin Int}
<1> SUFFICES ASSUME F # {} PROVE FALSE
  OBVIOUS
<1> F \subseteq SUBSET S
  OBVIOUS
<1> PICK T \in F : \A U \in F : U \subseteq T => U = T
  <2> HIDE DEF F
  <2> QED BY SmallestSubset
<1>1. T # {}
  <2> SumFunctionOnSet(f, {}) \in Int
    BY SumEmpty
  <2> QED BY Zenon
<1> T \in SUBSET S /\ IsFiniteSet(T)
  BY FS_Subset
<1> Below(T) \in SUBSET S /\ Below(T) \notin F /\ Pick(T) \in S
  BY SMTT(60), <1>1, PickBelow
<1> SumFunctionOnSet(f, T) = f[Pick(T)] + SumFunctionOnSet(f, Below(T))
  BY ZenonT(60), <1>1, SumPick
<1> QED OBVIOUS

\* The sum over a set is one element's value and the sum over the others; the element does
\* not matter.
LEMMA SumTake ==
    ASSUME NEW S, IsFiniteSet(S), NEW f, \A x \in S : f[x] \in Int, NEW e \in S
    PROVE  SumFunctionOnSet(f, S) = f[e] + SumFunctionOnSet(f, S \ {e})
<1> DEFINE Good(s, x) == SumFunctionOnSet(f, s) = f[x] + SumFunctionOnSet(f, s \ {x})
           F == {s \in SUBSET S : \E x \in s : ~Good(s, x)}
<1> SUFFICES ASSUME F # {} PROVE FALSE
  BY Zenon
<1> F \subseteq SUBSET S
  OBVIOUS
<1>1. PICK T \in F : \A U \in F : U \subseteq T => U = T
  <2> HIDE DEF F
  <2> QED BY SMTT(60), SmallestSubset
<1>2. PICK x \in T : ~Good(T, x)
  BY SMTT(60), <1>1
<1> DEFINE p == Pick(T)
           R == T \ {x, p}
<1> p \in T /\ Below(T) = T \ {p} /\ T \in SUBSET S
  BY SMTT(60), PickBelow DEF Below
<1> IsFiniteSet(T) /\ IsFiniteSet(R) /\ T # {}
  BY FS_Subset
<1>3. SumFunctionOnSet(f, T) = f[p] + SumFunctionOnSet(f, T \ {p})
  BY Zenon, SumPick
<1> x # p
  BY Zenon, <1>2, <1>3
<1>4. ASSUME NEW y \in T, NEW z \in T, y # z PROVE Good(T \ {y}, z)
  <2> T \ {y} \in SUBSET T /\ T \ {y} # T /\ z \in T \ {y}
    BY <1>4
  <2> T \ {y} \notin F
    BY Zenon, <1>1
  <2> QED BY Zenon
<1>5. (T \ {p}) \ {x} = R /\ (T \ {x}) \ {p} = R
  OBVIOUS
<1>6. /\ SumFunctionOnSet(f, T \ {p}) = f[x] + SumFunctionOnSet(f, (T \ {p}) \ {x})
      /\ SumFunctionOnSet(f, T \ {x}) = f[p] + SumFunctionOnSet(f, (T \ {x}) \ {p})
  <2> HIDE DEF p, R, F
  <2> QED BY Zenon, <1>4
<1>7. /\ SumFunctionOnSet(f, T \ {p}) = f[x] + SumFunctionOnSet(f, R)
      /\ SumFunctionOnSet(f, T \ {x}) = f[p] + SumFunctionOnSet(f, R)
  <2> HIDE DEF p, R, F
  <2> QED BY Zenon, <1>5, <1>6
<1> f[x] \in Int /\ f[p] \in Int /\ \A y \in R : f[y] \in Int
  BY Zenon
<1> HIDE DEF R
<1> SumFunctionOnSet(f, R) \in Int
  BY SumType
<1> QED BY SMTT(60), <1>2, <1>3, <1>7

\* The sum depends on the values of the function on the set only.
LEMMA SumSame ==
    ASSUME NEW S, IsFiniteSet(S), NEW f, NEW g, \A x \in S : f[x] = g[x]
    PROVE  SumFunctionOnSet(f, S) = SumFunctionOnSet(g, S)
<1> PICK h : Sums(h, f, S) /\ SumFunctionOnSet(f, S) = h[S]
  BY SumIsSums
<1> PICK k : Sums(k, g, S) /\ SumFunctionOnSet(g, S) = k[S]
  BY SumIsSums
<1> Sums(k, f, S)
  BY PickBelow DEF Sums
<1> S \in SUBSET S /\ S \in SUBSET (S \cap S)
  OBVIOUS
<1> \A s \in SUBSET (S \cap S) : h[s] = k[s]
  BY SumsUnique
<1> QED OBVIOUS

\* A set of naturals that is not empty has a least element.
LEMMA LeastNat ==
    ASSUME NEW S, S \subseteq Nat, S # {}
    PROVE  \E n \in S : \A m \in S : n <= m
<1> DEFINE R == OpToRel(<, Nat)
<1>1. IsWellFoundedOn(R, Nat)
  BY Zenon, NatLessThanWellFounded
<1>2. \A m, n \in Nat : <<m, n>> \in R <=> m < n
  BY DEF OpToRel
<1> HIDE DEF R
<1>3. PICK n \in S : \A m \in S : ~(<<m, n>> \in R)
  BY Zenon, <1>1, WFMin
<1>4. \A m \in S : ~(m < n)
  BY Zenon, <1>2, <1>3
<1> QED BY <1>4

\* What one element adds to the counters of a place.
LEMMA CountOne ==
    ASSUME NEW L, NEW at, NEW qty, NEW cnt, NEW tot, Counts(L, at, qty, cnt, tot), NEW s,
           NEW p \in Levels, NEW R, R = Others(L, at, s, p)
    PROVE  /\ IsFiniteSet(R) /\ Cardinality(R) \in Int /\ SumFunctionOnSet(qty, R) \in Int
           /\ Here(L, at, s, p) => /\ cnt[p] = Cardinality(R) + 1
                                   /\ tot[p] = SumFunctionOnSet(qty, R) + qty[s]
           /\ ~Here(L, at, s, p) => /\ cnt[p] = Cardinality(R)
                                    /\ tot[p] = SumFunctionOnSet(qty, R)
<1> DEFINE A == AtPlace(L, at, p)
<1> /\ A \subseteq L /\ R \subseteq L /\ (s \in A <=> Here(L, at, s, p))
    /\ (s \notin A => R = A)
  BY DEF AtPlace, Here, Others
<1> /\ cnt[p] = Cardinality(A) /\ tot[p] = SumFunctionOnSet(qty, A)
    /\ IsFiniteSet(L) /\ \A t \in L : qty[t] \in Int
  BY DEF Counts
<1>0. R = A \ {s}
  BY DEF Others
<1> HIDE DEF A
<1> IsFiniteSet(A) /\ IsFiniteSet(R)
  BY Zenon, FS_Subset
<1> Cardinality(R) \in Int
  BY SMTT(60), FS_CardinalityType
<1> SumFunctionOnSet(qty, R) \in Int
  <2> \A t \in R : qty[t] \in Int
    BY SMTT(60)
  <2> QED BY SMTT(60), SumType
<1>1. ASSUME s \in A
      PROVE  cnt[p] = Cardinality(R) + 1 /\ tot[p] = SumFunctionOnSet(qty, R) + qty[s]
  <2> Cardinality(R) = Cardinality(A) - 1 /\ Cardinality(A) \in Int
    BY SMTT(60), <1>0, <1>1, FS_RemoveElement, FS_CardinalityType
  <2> SumFunctionOnSet(qty, A) = qty[s] + SumFunctionOnSet(qty, R)
    BY SMTT(60), <1>0, <1>1, SumTake
  <2> qty[s] \in Int
    BY <1>1
  <2> QED BY SMTT(60), <1>1
<1>2. ASSUME s \notin A PROVE cnt[p] = Cardinality(R) /\ tot[p] = SumFunctionOnSet(qty, R)
  BY Zenon, <1>2
<1> QED BY Zenon, <1>1, <1>2 DEF A

\* Counters that follow one order, as order_count and total_qty do in every operation, stay
\* the number and the sum of what rests at each level.
LEMMA CountChange ==
    ASSUME NEW L, NEW at, NEW qty, NEW cnt, NEW tot, NEW s, Counts(L, at, qty, cnt, tot),
           NEW K, NEW at2, NEW qty2, NEW cnt2, NEW tot2,
           Counted(L, at, qty, cnt, tot, s, K, at2, qty2, cnt2, tot2)
    PROVE  Counts(K, at2, qty2, cnt2, tot2)
<1> DEFINE cnt3 == [p \in Levels |-> Cardinality(AtPlace(K, at2, p))]
           tot3 == [p \in Levels |-> SumFunctionOnSet(qty2, AtPlace(K, at2, p))]
<1> /\ IsFiniteSet(L) /\ \A t \in L : qty[t] \in Int
  BY SMTT(60) DEF Counts
<1>1. IsFiniteSet(K) /\ \A t \in K : qty2[t] \in Int
  <2> IsFiniteSet(L \cup {s}) /\ K \subseteq L \cup {s}
    BY FS_AddElement DEF Counted
  <2> IsFiniteSet(K)
    BY Zenon, FS_Subset
  <2> QED BY SMTT(60) DEF Counted
<1>2. Counts(K, at2, qty2, cnt3, tot3)
  BY ZenonT(60), <1>1 DEF Counts
<1>3. ASSUME NEW p \in Levels PROVE cnt2[p] = cnt3[p] /\ tot2[p] = tot3[p]
  <2> DEFINE R == Others(L, at, s, p)
  <2>1. R = Others(K, at2, s, p) /\ \A t \in R : qty[t] = qty2[t]
    BY SMTT(60) DEF AtPlace, Counted, Others
  <2> HIDE DEF cnt3, tot3
  <2>2. /\ IsFiniteSet(R) /\ Cardinality(R) \in Int /\ SumFunctionOnSet(qty, R) \in Int
        /\ Here(L, at, s, p) => /\ cnt[p] = Cardinality(R) + 1
                                /\ tot[p] = SumFunctionOnSet(qty, R) + qty[s]
        /\ ~Here(L, at, s, p) => /\ cnt[p] = Cardinality(R)
                                 /\ tot[p] = SumFunctionOnSet(qty, R)
    <3> R = Others(L, at, s, p)
      BY SMTT(60)
    <3> HIDE DEF R
    <3> QED BY CountOne
  <2>3. /\ Here(K, at2, s, p) => /\ cnt3[p] = Cardinality(R) + 1
                                 /\ tot3[p] = SumFunctionOnSet(qty2, R) + qty2[s]
        /\ ~Here(K, at2, s, p) => /\ cnt3[p] = Cardinality(R)
                                  /\ tot3[p] = SumFunctionOnSet(qty2, R)
    <3> R = Others(K, at2, s, p)
      BY SMTT(60), <2>1
    <3> HIDE DEF R
    <3> QED BY SMTT(60), <1>2, CountOne
  <2> HIDE DEF R
  <2>4. SumFunctionOnSet(qty, R) = SumFunctionOnSet(qty2, R)
    BY SMTT(60), <2>1, <2>2, SumSame
  <2> (Here(L, at, s, p) => qty[s] \in Int) /\ (Here(K, at2, s, p) => qty2[s] \in Int)
    BY SMTT(60), <1>1 DEF Here
  <2> QED BY SMTT(60), <2>2, <2>3, <2>4 DEF Counted
<1> HIDE DEF cnt3, tot3
<1> QED BY ZenonT(60), <1>2, <1>3 DEF Counts

\* A level has no orders, no head and count 0 together; then it has no tail and no quantity.
LEMMA LevelEmpty ==
    ASSUME NEW b, NEW L, ListsInv(b, L), CountsInv(b, L), NEW k \in Levels
    PROVE  /\ b.cnt[k] = 0 <=> b.head[k] = NULL
           /\ b.head[k] = NULL <=> \A s \in L : b.at[s] # k
           /\ b.head[k] = NULL => b.tail[k] = NULL /\ b.total[k] = 0
<1> DEFINE A == AtPlace(L, b.at, k)
<1>1. EndsOK(L, b.at, b.next, b.prev, b.head, b.tail, k) /\ NULL \notin L
  BY DEF ListsInv, Lists
<1>2. /\ IsFiniteSet(L) /\ b.cnt[k] = Cardinality(A) /\ b.total[k] = SumFunctionOnSet(b.qty, A)
  BY DEF CountsInv, Counts
<1>3. A \subseteq L /\ (A = {} <=> \A s \in L : b.at[s] # k)
  BY SMTT(60) DEF AtPlace
<1>4. b.head[k] = NULL <=> A = {}
  BY SMTT(60), <1>1, <1>3 DEF EndsOK
<1> HIDE DEF A
<1>5. Cardinality(A) = 0 <=> A = {}
  BY SMTT(60), <1>2, <1>3, FS_Subset, FS_EmptySet
<1>6. A = {} => b.total[k] = 0
  BY SMTT(60), <1>2, SumEmpty
<1>7. b.head[k] = NULL => b.tail[k] = NULL
  BY <1>1 DEF EndsOK
<1> QED BY SMTT(60), <1>2, <1>3, <1>4, <1>5, <1>6, <1>7

\* Zeros sum to 0.
LEMMA SumZero ==
    ASSUME NEW S, IsFiniteSet(S), NEW f, \A x \in S : f[x] = 0
    PROVE  SumFunctionOnSet(f, S) = 0
<1> DEFINE F == {s \in SUBSET S : SumFunctionOnSet(f, s) # 0}
<1> SUFFICES ASSUME F # {} PROVE FALSE
  OBVIOUS
<1> F \subseteq SUBSET S
  OBVIOUS
<1> PICK T \in F : \A U \in F : U \subseteq T => U = T
  <2> HIDE DEF F
  <2> QED BY SmallestSubset
<1>1. T # {}
  <2> SumFunctionOnSet(f, {}) = 0
    BY SMTT(60), SumEmpty
  <2> QED BY Zenon
<1> T \in SUBSET S /\ IsFiniteSet(T)
  BY SMTT(60), FS_Subset
<1> Below(T) \in SUBSET S /\ Below(T) \notin F /\ Pick(T) \in S
  BY <1>1, PickBelow
<1> SumFunctionOnSet(f, T) = f[Pick(T)] + SumFunctionOnSet(f, Below(T))
  BY Zenon, <1>1, SumPick
<1> QED OBVIOUS

\* The sum of g is that of f and v.
SumGains(f, g, S, v) ==
    g \in [S -> Int] /\ SumFunctionOnSet(g, S) = SumFunctionOnSet(f, S) + v

\* Adding to one element adds to the sum.
LEMMA SumAdd ==
    ASSUME NEW S, IsFiniteSet(S), NEW f \in [S -> Int], NEW e \in S, NEW v \in Int,
           NEW g, g = [f EXCEPT ![e] = @ + v]
    PROVE  SumGains(f, g, S, v)
<1> DEFINE R == S \ {e}
<1>1. g \in [S -> Int] /\ g[e] = f[e] + v /\ \A x \in R : g[x] = f[x]
  OBVIOUS
<1>2. IsFiniteSet(R) /\ \A x \in R : f[x] \in Int
  BY FS_Subset
<1>3. SumFunctionOnSet(g, S) = g[e] + SumFunctionOnSet(g, R)
  BY Zenon, <1>1, SumTake
<1>4. SumFunctionOnSet(f, S) = f[e] + SumFunctionOnSet(f, R)
  BY SumTake
<1> HIDE DEF R
<1>5. SumFunctionOnSet(g, R) = SumFunctionOnSet(f, R)
  BY Zenon, <1>1, <1>2, SumSame
<1>6. SumFunctionOnSet(f, R) \in Int
  BY SMTT(60), <1>2, SumType
<1>7. f[e] \in Int
  OBVIOUS
<1>8. SumFunctionOnSet(g, S) = SumFunctionOnSet(f, S) + v
  BY SMTT(60), <1>1, <1>3, <1>4, <1>5, <1>6, <1>7
<1> QED BY Zenon, <1>1, <1>8 DEF SumGains

-----------------------------------------------------------------------------
(* The counters and the accounts.                                           *)

\* The counters of the levels are right, and what one account gained another lost.
SumsInv ==
    /\ ~corrupted => CountsInv(book, Live(book))
    /\ SumFunctionOnSet(position, Contestants) = 0

\* Counters that are right tell an empty level.
LEMMA CountsTellEmpty ==
    ASSUME NEW b, NEW L, ListsInv(b, L), CountsInv(b, L)
    PROVE  EmptyAgree(b)
BY LevelEmpty DEF EmptyAgree

\* The counters are right after a change that they follow.
LEMMA CountsFollow ==
    ASSUME NEW b, NEW L, NEW c, NEW K, NEW s, CountsInv(b, L), Follows(b, L, c, K, s)
    PROVE  CountsInv(c, K)
<1>1. /\ Counts(L, b.at, b.qty, b.cnt, b.total)
      /\ Counted(L, b.at, b.qty, b.cnt, b.total, s, K, c.at, c.qty, c.cnt, c.total)
  BY Zenon DEF CountsInv, Follows
<1>2. Counts(K, c.at, c.qty, c.cnt, c.total)
  BY Zenon, <1>1, CountChange
<1> QED BY Zenon, <1>2 DEF CountsInv

\* The step lemmas' hypothesis on the counters.
LEMMA SumsAgree ==
    ASSUME EngineInv, SumsInv
    PROVE  CountsAgree
<1> SUFFICES ASSUME ~corrupted
             PROVE  /\ EmptyAgree(book)
                    /\ pc = "idle" => \A s \in Live(book) :
                                        EmptyAgree(Detach(book, book.at[s], s))
  BY Zenon DEF CountsAgree
<1> DEFINE L == Live(book)
<1>1. BookInv(book, L, Walked) /\ CountsInv(book, L)
  BY Zenon DEF EngineInv, BookPart, SumsInv
<1>2. EmptyAgree(book)
  BY Zenon, <1>1, CountsTellEmpty DEF BookInv
<1>3. ASSUME pc = "idle", NEW s \in L PROVE EmptyAgree(Detach(book, book.at[s], s))
  <2> DEFINE c == Detach(book, book.at[s], s)
  <2> HIDE DEF L
  <2>1. \A j \in Walked : j = book.at[s]
    BY <1>3 DEF Walked
  <2>2. Removed(book, c, L, s)
    BY Zenon, <1>1, <1>3, <2>1, RemoveKeeps
  <2> HIDE DEF c
  <2>3. BookInv(c, L \ {s}, {book.at[s]}) /\ Follows(book, L, c, L \ {s}, s)
    BY Zenon, <2>2 DEF Removed
  <2>4. CountsInv(c, L \ {s}) /\ ListsInv(c, L \ {s})
    BY Zenon, <1>1, <2>3, CountsFollow DEF BookInv
  <2> QED BY Zenon, <2>4, CountsTellEmpty DEF c
<1> QED BY Zenon, <1>2, <1>3

\* The accounts of a fill's two sides move in opposite directions.
LEMMA SumsStep ==
    ASSUME EngineInv, SumsInv, BookFollows, PositionMoves, corrupted => corrupted'
    PROVE  SumsInv'
<1>1. ASSUME ~corrupted' PROVE CountsInv(book, Live(book))'
  BY Zenon, <1>1, CountsFollow DEF SumsInv, BookFollows
<1>2. SumFunctionOnSet(position, Contestants)' = 0
  <2>1. CASE position' = position
    BY Zenon, <2>1 DEF SumsInv
  <2>2. ASSUME NEW c \in Contestants, NEW q \in Int,
               taker.cid \in Contestants, taker.side \in Sides,
               position' = Settled(c, Contra, q)
        PROVE  SumFunctionOnSet(position, Contestants)' = 0
    <3> DEFINE v == Signed(Contra, q)
               w == Signed(taker.side, q)
               pos == [position EXCEPT ![c] = @ + v]
               new == [pos EXCEPT ![taker.cid] = @ + w]
    <3>1. v \in Int /\ w \in Int /\ v + w = 0
      BY <2>2 DEF Signed, Contra, Opposite, Sides
    <3>2. position' = new
      BY Zenon, <2>2 DEF Settled
    <3>3. position \in [Contestants -> Int] /\ IsFiniteSet(Contestants)
      BY Zenon, EngineAssumption DEF EngineInv, TypeInv
    <3> HIDE DEF v, w
    <3>4. pos = [position EXCEPT ![c] = @ + v] /\ new = [pos EXCEPT ![taker.cid] = @ + w]
      BY Zenon
    <3> HIDE DEF pos, new
    <3>5. SumGains(position, pos, Contestants, v)
      BY Zenon, <2>2, <3>1, <3>3, <3>4, SumAdd
    <3>6. pos \in [Contestants -> Int]
      BY Zenon, <3>5 DEF SumGains
    <3>7. SumGains(pos, new, Contestants, w)
      BY Zenon, <2>2, <3>1, <3>3, <3>4, <3>6, SumAdd
    <3>8. SumFunctionOnSet(position, Contestants) = 0
      BY Zenon DEF SumsInv
    <3>9. SumFunctionOnSet(new, Contestants) = 0
      BY SMTT(60), <3>1, <3>5, <3>7, <3>8 DEF SumGains
    <3> QED BY Zenon, <3>2, <3>9
  <2> QED BY Zenon, <2>1, <2>2 DEF PositionMoves
<1> QED BY Zenon, <1>1, <1>2 DEF SumsInv

\* The counters of the empty book, and the empty accounts.
LEMMA SumsStart == Init => SumsInv
<1> SUFFICES ASSUME Init PROVE SumsInv
  OBVIOUS
<1>1. book = EmptyBook /\ position = [c \in Contestants |-> 0]
  BY Zenon DEF Init
<1>2. SumFunctionOnSet(position, Contestants) = 0
  <2> IsFiniteSet(Contestants) /\ \A c \in Contestants : position[c] = 0
    BY Zenon, <1>1, EngineAssumption
  <2> QED BY Zenon, SumZero
<1>3. Live(book) = {}
  BY ZenonT(60), <1>1, EmptyBookInv
<1>4. book.cnt = [k \in Levels |-> 0] /\ book.total = [k \in Levels |-> 0]
  BY <1>1 DEF EmptyBook
<1>5. \A k \in Levels : AtPlace({}, book.at, k) = {}
  BY SMTT(60) DEF AtPlace
<1>6. Counts({}, book.at, book.qty, book.cnt, book.total)
  <2> IsFiniteSet({}) /\ Cardinality({}) = 0
    BY FS_EmptySet
  <2> QED BY SMTT(60), <1>4, <1>5, SumEmpty DEF Counts
<1> QED BY Zenon, <1>2, <1>3, <1>6 DEF SumsInv, CountsInv

-----------------------------------------------------------------------------
(* The theorems.                                                            *)

\* The naturals are well ordered, which the scan of rebuild_best relies on.
LEMMA NatWellOrdered == WellOrdered
BY Zenon, LeastNat DEF WellOrdered

\* The engine's invariant: of the book's pool, lists, price map and caches, of the ids, the
\* fills and the queue (EngineInv), and of the counters and the accounts (SumsInv), over
\* every order of submissions, fills, cancels and ticks.
THEOREM EngineInvariant == Spec => [](EngineInv /\ SumsInv)
<1>1. Init => EngineInv /\ SumsInv
  BY Zenon, EngineStart, SumsStart
<1>2. EngineInv /\ SumsInv /\ [Next]_vars => (EngineInv /\ SumsInv)'
  <2> SUFFICES ASSUME EngineInv, SumsInv, [Next]_vars PROVE (EngineInv /\ SumsInv)'
    OBVIOUS
  <2>1. CountsAgree
    BY Zenon, SumsAgree
  <2>2. EngineInv' /\ BookFollows /\ PositionMoves
    BY Zenon, <2>1, NatWellOrdered, EngineStep
  <2>3. corrupted => corrupted'
    BY Zenon, StaysCorrupted
  <2>4. SumsInv'
    BY Zenon, <2>2, <2>3, SumsStep
  <2> QED BY Zenon, <2>2, <2>4
<1> QED BY <1>1, <1>2, PTL DEF Spec

\* add_order, cancel_order and match keep the pool, the lists and the counters of the book
\* together, until a cancel hits a freed slot: for every number of slots, levels, prices
\* and orders.
THEOREM BookStaysSound == Spec => []BookSound
<1>1. EngineInv /\ SumsInv => BookSound
  <2> SUFFICES ASSUME EngineInv, SumsInv, ~corrupted, pc # "walk" PROVE Sound(book)
    BY Zenon DEF BookSound
  <2>1. BookInv(book, Live(book), {}) /\ IsInjective(book.free)
    <3> Walked = {}
      BY Zenon DEF Walked
    <3> QED BY Zenon DEF EngineInv, BookPart
  <2>2. Counts(Live(book), book.at, book.qty, book.cnt, book.total)
    BY Zenon DEF SumsInv, CountsInv
  <2>3. \A k \in Levels : /\ book.cnt[k] = Cardinality(Resting(book, k))
                          /\ book.total[k] = SumFunctionOnSet(book.qty, Resting(book, k))
    BY Zenon, <2>2 DEF Counts, AtPlace, Resting
  <2> QED BY Zenon, <2>1, <2>3, BookIsSound
<1> QED BY <1>1, EngineInvariant, PTL

\* match's fills add up to what was asked and leave the accounts balanced, and the
\* outbound queue has room for every report: for every number of contestants.
THEOREM QuantityIsConserved == Spec => []QuantityConserved
<1>1. EngineInv /\ SumsInv => QuantityConserved
  BY Zenon, InvGives, NatWellOrdered DEF QuantityConserved, SumsInv
<1> QED BY <1>1, EngineInvariant, PTL

\* find_best returns the best price with quantity on a side unless a cancel left a hole in
\* the side's cache.
THEOREM BestIsFound == Spec => []BestUnlessHoled
<1>1. EngineInv => BestUnlessHoled
  BY Zenon, InvGives, NatWellOrdered
<1> QED BY <1>1, EngineInvariant, PTL

\* A match that was given the best price at every step leaves no cross when its rest joins
\* the book.
THEOREM NeverCrossed == Spec => []NotCrossed
<1>1. EngineInv => NotCrossed
  BY Zenon, InvGives, NatWellOrdered
<1> QED BY <1>1, EngineInvariant, PTL

\* process_cancel finds every resting order through the cancel map.
THEOREM CancelFinds == Spec => []CancelReaches
<1>1. EngineInv => CancelReaches
  BY Zenon, InvGives, NatWellOrdered
<1> QED BY <1>1, EngineInvariant, PTL

=============================================================================
