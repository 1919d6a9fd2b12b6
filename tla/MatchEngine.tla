----------------------------- MODULE MatchEngine -----------------------------
(***************************************************************************)
(* The matching engine of exchange/include/exchange/match_engine.hpp over   *)
(* the book of OrderBook, driven by the main loop of exchange_local.cpp:    *)
(* orders, cancels and ticks arrive in any order, and the outbound queue is *)
(* forwarded after each.                                                    *)
(*                                                                          *)
(* The engine is one thread; a handler is split into steps (pc) only so     *)
(* that a loop is a repeated action.  No other handler runs in between.     *)
(* A client order id is used once: order n of the run has id n.  A run      *)
(* takes no further orders or cancels once a free slot was cancelled: what  *)
(* the lists then hold is not modelled.                                     *)
(***************************************************************************)
EXTENDS OrderBook

CONSTANTS Contestants,
          MaxOrderSize,    \* cfg.max_order_size
          MaxPosition,     \* cfg.max_position
          MaxFills,        \* the size of the fills array (64)
          QueueSize,       \* OUTBOUND_QUEUE_SIZE
          MaxOrders        \* bound: order entries in a behaviour

ASSUME EngineAssumption ==
    /\ IsFiniteSet(Contestants)
    /\ {MaxOrderSize, MaxPosition, MaxOrders} \subseteq Nat \ {0}
    /\ MaxFills \in Nat /\ MaxFills >= MaxOrderSize
    /\ QueueSize \in Nat /\ QueueSize >= 2 * MaxFills + 1

ClientIds == 1 .. MaxOrders

VARIABLES
    book,
    position, order_count,   \* per contestant
    cancel_map,              \* contestant and client order id -> slot
    outbound,                \* messages waiting in the outbound queue
    last_trade_price,
    pc,                      \* idle, match, walk, finish, forward
    taker,                   \* the order being processed
    remaining, nfills,       \* match's locals
    best, oidx,              \* match's level and slot
    submitted,               \* history: order entries so far
    filled,                  \* history: per id, the quantity of its fill messages
    asked,                   \* history: per id, the quantity of the order
    holed,                   \* history: per side, the best level was cancelled away and
                             \* the cache was not rebuilt since
    misled,                  \* history: a match was given a level that is not the best
    wrong_cancel,            \* history: a cancel removed an order of another id
    corrupted                \* history: a cancel took a free slot out of a list

matchVars == <<taker, remaining, nfills, best, oidx>>
history == <<submitted, filled, asked, holed, misled, wrong_cancel, corrupted>>
vars == <<book, position, order_count, cancel_map, outbound, last_trade_price, pc,
          matchVars, history>>

NoTaker == [cid |-> NULL, coid |-> NULL, side |-> "BUY", type |-> "LIMIT",
            price |-> 0, qty |-> 0]

Init ==
    /\ book = EmptyBook
    /\ position = [c \in Contestants |-> 0]
    /\ order_count = [c \in Contestants |-> 0]
    /\ cancel_map = [k \in Contestants \X ClientIds |-> NULL]
    /\ outbound = 0 /\ last_trade_price = 0
    /\ pc = "idle" /\ taker = NoTaker /\ remaining = 0 /\ nfills = 0
    /\ best = NULL /\ oidx = NULL
    /\ submitted = 0
    /\ filled = [i \in ClientIds |-> 0] /\ asked = [i \in ClientIds |-> 0]
    /\ misled = FALSE /\ holed = [side \in Sides |-> FALSE]
    /\ wrong_cancel = FALSE /\ corrupted = FALSE

Signed(side, q) == IF side = "BUY" THEN q ELSE -q

-----------------------------------------------------------------------------
(* process_order.                                                           *)

\* The checks on the size and on the position: a failure is answered and ends the call.
Refused(c, side, q) ==
    \/ q <= 0 \/ q > MaxOrderSize
    \/ side = "BUY" /\ position[c] + q > MaxPosition
    \/ side = "SELL" /\ position[c] - q < -MaxPosition

process_order(c, side, type, p, q) ==
    /\ pc = "idle" /\ ~corrupted /\ submitted < MaxOrders
    /\ submitted' = submitted + 1
    /\ asked' = [asked EXCEPT ![submitted'] = q]
    /\ IF Refused(c, side, q)
         THEN /\ outbound' = outbound + 1
              /\ pc' = "forward"
              /\ UNCHANGED matchVars
         ELSE /\ taker' = [cid |-> c, coid |-> submitted', side |-> side,
                           type |-> type, price |-> p, qty |-> q]
              /\ remaining' = q /\ nfills' = 0 /\ best' = NULL /\ oidx' = NULL
              /\ pc' = "match"
              /\ UNCHANGED outbound
    /\ UNCHANGED <<book, position, order_count, cancel_map, last_trade_price,
                   filled, holed, misled, wrong_cancel, corrupted>>

Contra == Opposite(taker.side)

\* Mutant: a level at the limit price is not taken.
BeyondLimitStrict(p) == Better(Contra, taker.price, p) \/ p = taker.price

\* The limit excludes the level's price.  The test is made for market orders too.
BeyondLimit(p) == Better(Contra, taker.price, p)

\* match, the outer loop: find the best level or stop.
MatchLevel ==
    /\ pc = "match"
    /\ IF remaining > 0 /\ nfills < MaxFills
         THEN LET l == find_best(book, Contra) IN
              /\ book' = Looked(book, Contra)
              /\ holed' = [holed EXCEPT ![Contra] = @ /\ CacheHit(book, Contra)]
              /\ misled' = (misled \/ ~BestIsBest(book, Contra))
              /\ IF l = NULL \/ BeyondLimit(book.level_price[<<Contra, l>>])
                   THEN pc' = "finish" /\ UNCHANGED <<best, oidx>>
                   ELSE pc' = "walk" /\ best' = l /\ oidx' = book.head[<<Contra, l>>]
         ELSE pc' = "finish" /\ UNCHANGED <<book, holed, misled, best, oidx>>
    /\ UNCHANGED <<position, order_count, cancel_map, outbound, last_trade_price,
                   taker, remaining, nfills, submitted, filled, asked, wrong_cancel,
                   corrupted>>

\* apply_fill for maker and taker, in that order.
Settled(cid, side, q) ==
    LET pos == [position EXCEPT ![cid] = @ + Signed(side, q)]
    IN [pos EXCEPT ![taker.cid] = @ + Signed(taker.side, q)]

\* One fill: the book, both accounts, both messages.
MatchFill ==
    /\ pc = "walk" /\ oidx # NULL /\ remaining > 0 /\ nfills < MaxFills
    /\ LET q == IF remaining < book.qty[oidx] THEN remaining ELSE book.qty[oidx]
       IN /\ book' = Fill(book, <<Contra, best>>, oidx, q)
          /\ position' = Settled(book.cid[oidx], book.at[oidx][1], q)
          /\ filled' = [filled EXCEPT ![book.coid[oidx]] = @ + q, ![taker.coid] = @ + q]
          /\ last_trade_price' = book.price[oidx]
          /\ remaining' = remaining - q
          /\ oidx' = book.next[oidx]
    /\ nfills' = nfills + 1
    /\ outbound' = outbound + 2
    /\ UNCHANGED <<order_count, cancel_map, pc, taker, best, submitted, asked, holed,
                   misled, wrong_cancel, corrupted>>

\* The walk of the level's list ends; an empty level is deactivated.
MatchNextLevel ==
    /\ pc = "walk" /\ ~(oidx # NULL /\ remaining > 0 /\ nfills < MaxFills)
    /\ book' = DropEmpty(book, <<Contra, best>>)
    /\ pc' = "match"
    /\ UNCHANGED <<position, order_count, cancel_map, outbound, last_trade_price,
                   matchVars, history>>

\* send_fill reads the best price of both sides, which refreshes both caches.
LookedBoth(b) == Looked(Looked(b, "BUY"), "SELL")
StillHoled == [side \in Sides |-> holed[side] /\ CacheHit(book, side)]

\* Mutant: the map is keyed with the first contestant for every order.
InsertSharedKey(s) ==
    [cancel_map EXCEPT ![<<CHOOSE c \in Contestants : TRUE, taker.coid>>] = s]

cancel_map_insert(s) == [cancel_map EXCEPT ![<<taker.cid, taker.coid>>] = s]

\* A limit order's rest is added to the book; an order that no slot or level takes, and a
\* market order without a fill, get no answer.
Finish ==
    /\ pc = "finish"
    /\ LET seen == IF nfills > 0 THEN LookedBoth(book) ELSE book
           r == add_order(seen, taker.cid, taker.coid, taker.side, taker.price, remaining)
       IN IF remaining > 0 /\ taker.type = "LIMIT"
            THEN /\ book' = r.book
                 /\ IF r.idx # NULL
                      THEN /\ outbound' = outbound + 1
                           /\ order_count' = [order_count EXCEPT ![taker.cid] = @ + 1]
                           /\ cancel_map' = cancel_map_insert(r.idx)
                      ELSE UNCHANGED <<outbound, order_count, cancel_map>>
            ELSE /\ book' = seen
                 /\ outbound' = IF nfills > 0 THEN outbound + 1 ELSE outbound
                 /\ UNCHANGED <<order_count, cancel_map>>
    /\ holed' = IF nfills > 0 THEN StillHoled ELSE holed
    /\ pc' = "forward"
    /\ UNCHANGED <<position, last_trade_price, matchVars, submitted, filled, asked, misled,
                   wrong_cancel, corrupted>>

-----------------------------------------------------------------------------
(* The other handlers.                                                      *)

\* The slot comes from the cancel map, whose entry outlives the order: only the slot's
\* contestant and its quantity are checked.
process_cancel(c, i) ==
    /\ pc = "idle" /\ ~corrupted
    /\ LET s == cancel_map[<<c, i>>]
           side == book.at[s][1]
           after == cancel_order(book, s)
       IN IF s = NULL \/ (book.cid[s] # c \/ book.qty[s] <= 0)
            THEN UNCHANGED <<book, cancel_map, order_count, holed, wrong_cancel, corrupted>>
            ELSE /\ book' = after
                 /\ cancel_map' = [cancel_map EXCEPT ![<<c, i>>] = NULL]
                 /\ order_count' = [order_count EXCEPT ![c] = @ - 1]
                 /\ holed' = [holed EXCEPT ![side] =
                       @ \/ /\ book.best[side] # NULL /\ after.best[side] = NULL
                            /\ rebuild_best(after, side) # NULL]
                 /\ wrong_cancel' = (wrong_cancel \/ book.coid[s] # i)
                 /\ corrupted' = (corrupted \/ s \notin Live(book))
    /\ outbound' = outbound + 1
    /\ pc' = "forward"
    /\ UNCHANGED <<position, last_trade_price, matchVars, submitted, filled, asked, misled>>

\* A tick, and the end of the session, read the best prices.
generate_tick ==
    /\ pc = "idle"
    /\ book' = LookedBoth(book)
    /\ holed' = StillHoled
    /\ UNCHANGED <<position, order_count, cancel_map, outbound, last_trade_price, pc,
                   matchVars, submitted, filled, asked, misled, wrong_cancel, corrupted>>

\* The main loop pops and forwards every outbound message.
ForwardOutbound ==
    /\ pc = "forward"
    /\ outbound' = 0 /\ pc' = "idle"
    /\ UNCHANGED <<book, position, order_count, cancel_map, last_trade_price, matchVars,
                   history>>

-----------------------------------------------------------------------------
Next ==
    \/ \E c \in Contestants, side \in Sides, type \in {"LIMIT", "MARKET"}, p \in Prices,
          q \in 0 .. MaxOrderSize + 1 : process_order(c, side, type, p, q)
    \/ MatchLevel \/ MatchFill \/ MatchNextLevel \/ Finish
    \/ \E c \in Contestants, i \in ClientIds : process_cancel(c, i)
    \/ generate_tick
    \/ ForwardOutbound

Spec == Init /\ [][Next]_vars

-----------------------------------------------------------------------------
(* Properties.                                                              *)

\* Whatever the order of adds, cancels and matches, slots, lists and counters agree and
\* each level is in order of arrival, until a cancel hits a slot that is free.  (A level
\* being walked may be empty and not yet deactivated.)
BookSound == ~corrupted /\ pc # "walk" => Sound(book)

FillsAddUp ==
    ~corrupted =>
      /\ \A i \in ClientIds : filled[i] <= asked[i]
      /\ \A s \in Live(book) : book.qty[s] + filled[book.coid[s]] = asked[book.coid[s]]
      /\ pc \in {"match", "walk"} => remaining + filled[taker.coid] = taker.qty

\* What an order got in fills and what it still has are what it asked for: while it is
\* being matched, and for as long as it rests, over every partial fill.  Every fill moves
\* the same quantity in both accounts, also when a contestant trades with itself
\* (apply_fill is called for maker and taker).  No report of a fill is overwritten:
\* enqueue_outbound does not test for room (match_engine.hpp:390) and relies on the loop
\* forwarding everything after each message.
QuantityConserved ==
    /\ SumFunctionOnSet(position, Contestants) = 0
    /\ outbound <= QueueSize
    /\ FillsAddUp

\* find_best returns the best price with quantity, unless a cancel emptied the best level
\* and nothing has looked at the side since.
BestUnlessHoled ==
    ~corrupted => \A side \in Sides : ~holed[side] => BestIsBest(book, side)

Quoted(side) == {l \in Indices : HasQty(book, <<side, l>>)}

\* Between handlers the book is not crossed: a limit order rests only after everything it
\* could trade with is gone, as long as no match was given a wrong best level.
NotCrossed ==
    ~corrupted /\ ~misled /\ pc = "idle" =>
      \A b \in Quoted("BUY"), a \in Quoted("SELL") :
        book.level_price[<<"BUY", b>>] < book.level_price[<<"SELL", a>>]

\* Every resting order can be cancelled: the cancel map leads from its contestant and
\* client id to its slot, also after slots were recycled and stale ids were cancelled.
CancelReaches ==
    ~corrupted /\ pc \in {"idle", "forward"} =>
      \A s \in Live(book) : cancel_map[<<book.cid[s], book.coid[s]>>] = s

-----------------------------------------------------------------------------
(* What comments claim and the code does not keep.                          *)

\* "cached best bid - highest price with quantity": no match is given another level.
PricePriority == ~misled

\* "client_order_id -> book pool index": a cancel removes the order it names.
CancelsNamedOrder == ~wrong_cancel

=============================================================================
