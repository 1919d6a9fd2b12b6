------------------------------ MODULE OrderBook ------------------------------
(***************************************************************************)
(* The limit order book of exchange/include/exchange/orderbook.hpp: a pool  *)
(* of order slots with a free stack, and per side a pool of price levels,   *)
(* each a doubly linked list of slots, with a cached best level.            *)
(*                                                                          *)
(* A book is a record of arrays; an operation is an operator from a book to *)
(* a book.  A level is named by its side and its index in the side's pool.  *)
(* price_map (a hash map from price to level) is the function it promises.  *)
(***************************************************************************)
EXTENDS Integers, Sequences, FiniteSets, Functions

CONSTANTS MaxPrice,     \* bound: prices are 1 .. MaxPrice
          NumSlots,     \* pool capacity (MAX_ORDERS * 2)
          NumLevels     \* levels per side (MAX_PRICE_LEVELS_OB)

ASSUME BookAssumption == {MaxPrice, NumSlots, NumLevels} \subseteq Nat \ {0}

Prices == 1 .. MaxPrice
Slots == 0 .. NumSlots - 1
Sides == {"BUY", "SELL"}
Indices == 0 .. NumLevels - 1
Levels == Sides \X Indices
NULL == -1        \* NULL_INDEX

Opposite(side) == IF side = "BUY" THEN "SELL" ELSE "BUY"

\* Price p is better than q for the resting orders of a side.
Better(side, p, q) == IF side = "BUY" THEN p > q ELSE p < q

\* Per slot the fields of Order: at is its side and level_idx, xid its exchange_id.  The
\* free stack is filled so that slot 0 is on top (the end of the sequence).  Per level the
\* arrays of PriceLevelPool; per side the levels used so far, the cache and the price map.
EmptyBook ==
    [cid |-> [s \in Slots |-> NULL], coid |-> [s \in Slots |-> NULL],
     price |-> [s \in Slots |-> 0], qty |-> [s \in Slots |-> 0],
     at |-> [s \in Slots |-> <<"BUY", 0>>], xid |-> [s \in Slots |-> 0],
     next |-> [s \in Slots |-> NULL], prev |-> [s \in Slots |-> NULL],
     free |-> [i \in 1 .. NumSlots |-> NumSlots - i], next_xid |-> 1,
     level_price |-> [k \in Levels |-> 0], total |-> [k \in Levels |-> 0],
     cnt |-> [k \in Levels |-> 0], active |-> [k \in Levels |-> FALSE],
     head |-> [k \in Levels |-> NULL], tail |-> [k \in Levels |-> NULL],
     count |-> [side \in Sides |-> 0], best |-> [side \in Sides |-> NULL],
     map |-> [x \in Sides \X Prices |-> NULL]]

-----------------------------------------------------------------------------
(* PriceLevelPool.                                                          *)

HasQty(b, k) == b.active[k] /\ b.total[k] > 0

\* The scan for the best level: the first index among equal prices.
rebuild_best(b, side) ==
    LET cands == {l \in 0 .. b.count[side] - 1 : HasQty(b, <<side, l>>)}
        top == {l \in cands : \A m \in cands :
                  ~Better(side, b.level_price[<<side, m>>], b.level_price[<<side, l>>])}
    IN IF cands = {} THEN NULL ELSE CHOOSE l \in top : \A m \in top : l <= m

CacheHit(b, side) == b.best[side] # NULL /\ HasQty(b, <<side, b.best[side]>>)

\* find_best returns the cached level, or rebuilds the cache.
find_best(b, side) == IF CacheHit(b, side) THEN b.best[side] ELSE rebuild_best(b, side)

\* The cache after a call of find_best on a side.
Looked(b, side) == [b EXCEPT !.best[side] = find_best(b, side)]

\* Mutant: only an empty cache is updated.
UpdateBestIfNone(b, side, l) == IF b.best[side] = NULL THEN l ELSE b.best[side]

update_best(b, side, l) ==
    IF \/ b.best[side] = NULL
       \/ Better(side, b.level_price[<<side, l>>], b.level_price[<<side, b.best[side]>>])
      THEN l ELSE b.best[side]

deactivate(b, side, l) ==
    [b EXCEPT !.active[<<side, l>>] = FALSE,
              !.map[<<side, b.level_price[<<side, l>>]>>] = NULL,
              !.best[side] = IF @ = l THEN NULL ELSE @]

\* [book, idx]: the level of a price, or NULL when a new one is needed and none is left.  A
\* level that was deactivated is never used again.
find_or_create(b, side, p) ==
    LET old == b.map[<<side, p>>]
        l == b.count[side]
        k == <<side, l>>
    IN IF old # NULL /\ b.active[<<side, old>>] THEN [book |-> b, idx |-> old]
       ELSE IF l >= NumLevels THEN [book |-> b, idx |-> NULL]
       ELSE [book |-> [b EXCEPT !.level_price[k] = p, !.total[k] = 0, !.cnt[k] = 0,
                                !.head[k] = NULL, !.tail[k] = NULL, !.active[k] = TRUE,
                                !.count[side] = l + 1, !.map[<<side, p>>] = l],
             idx |-> l]

-----------------------------------------------------------------------------
(* OrderPool and OrderBook.                                                 *)

Free(b, s) == [b EXCEPT !.free = Append(@, s)]

\* A slot is popped and the order is written to it.
Written(b, s, cid, coid, side, p, q) ==
    [b EXCEPT !.free = SubSeq(@, 1, Len(@) - 1), !.next_xid = @ + 1,
              !.cid[s] = cid, !.coid[s] = coid, !.price[s] = p, !.qty[s] = q,
              !.at[s] = <<side, @[2]>>, !.xid[s] = b.next_xid,
              !.next[s] = NULL, !.prev[s] = NULL]

\* Slot s goes to the end of the list of a level.
Linked(b, side, l, s) ==
    LET k == <<side, l>>
        t == b.tail[k]
    IN [b EXCEPT !.at[s] = k, !.prev[s] = t,
                 !.next = IF t = NULL THEN @ ELSE [@ EXCEPT ![t] = s],
                 !.head[k] = IF t = NULL THEN s ELSE @, !.tail[k] = s,
                 !.total[k] = @ + b.qty[s], !.cnt[k] = @ + 1,
                 !.best[side] = update_best(b, side, l)]

\* add_order: [book, idx], idx = NULL when there is no slot or no level.  An order that
\* finds no level has its slot freed again, with its quantity still in it.
add_order(b, cid, coid, side, p, q) ==
    LET s == b.free[Len(b.free)]
        w == Written(b, s, cid, coid, side, p, q)
        made == find_or_create(w, side, p)
    IN IF b.free = <<>> THEN [book |-> b, idx |-> NULL]
       ELSE IF made.idx = NULL THEN [book |-> Free(w, s), idx |-> NULL]
       ELSE [book |-> Linked(made.book, side, made.idx, s), idx |-> s]

\* Mutant: the tail of the level is left on a removed order.
UnlinkKeepsTail(b, k, s) ==
    LET n == b.next[s]
        p == b.prev[s]
    IN [b EXCEPT !.next = IF p = NULL THEN @ ELSE [@ EXCEPT ![p] = n],
                 !.prev = IF n = NULL THEN @ ELSE [@ EXCEPT ![n] = p],
                 !.head[k] = IF p = NULL THEN n ELSE @, !.cnt[k] = @ - 1]

\* Take slot s out of the list of level k.
Unlink(b, k, s) ==
    LET n == b.next[s]
        p == b.prev[s]
    IN [b EXCEPT !.next = IF p = NULL THEN @ ELSE [@ EXCEPT ![p] = n],
                 !.prev = IF n = NULL THEN @ ELSE [@ EXCEPT ![n] = p],
                 !.head[k] = IF p = NULL THEN n ELSE @,
                 !.tail[k] = IF n = NULL THEN p ELSE @,
                 !.cnt[k] = @ - 1]

\* Slot s, on level k, gives q: its order and the level have that much less.
Reduce(b, k, s, q) == [b EXCEPT !.qty[s] = @ - q, !.total[k] = @ - q]

\* All that slot s has is taken: it leaves the list and is freed.
Detach(b, k, s) == Free(Unlink(Reduce(b, k, s, b.qty[s]), k, s), s)

\* A level whose last order has gone is deactivated.
DropEmpty(b, k) == IF b.cnt[k] = 0 THEN deactivate(b, k[1], k[2]) ELSE b

cancel_order(b, s) == DropEmpty(Detach(b, b.at[s], s), b.at[s])

\* Mutant: a partial fill leaves the resting quantity.
FillKeepsQty(b, k, s, q) ==
    IF b.qty[s] = q THEN Detach(b, k, s) ELSE [b EXCEPT !.total[k] = @ - q]

\* One iteration of match's inner loop: slot s, resting on level k, gives q.
Fill(b, k, s, q) == IF b.qty[s] = q THEN Detach(b, k, s) ELSE Reduce(b, k, s, q)

-----------------------------------------------------------------------------
(* What a sound book looks like.                                            *)

\* The slots in use, and those that rest on level k.
Live(b) == Slots \ Range(b.free)
Resting(b, k) == {s \in Live(b) : b.at[s] = k}

\* Each slot is free once or rests on one active level; the list of a level is its resting
\* slots in order of arrival, linked both ways; the counters of a level are right; each
\* active level is the one the price map names.
Sound(b) ==
    /\ IsInjective(b.free)
    /\ \A s \in Live(b) : b.qty[s] > 0
    /\ \A k \in Levels :
         LET on == Resting(b, k)
             older(s) == {t \in on : b.xid[t] < b.xid[s]}
             newer(s) == {t \in on : b.xid[t] > b.xid[s]}
         IN /\ b.active[k] <=> on # {}
            /\ b.cnt[k] = Cardinality(on)
            /\ b.total[k] = SumFunctionOnSet(b.qty, on)
            /\ on = {} => b.head[k] = NULL /\ b.tail[k] = NULL
            /\ b.active[k] => b.map[<<k[1], b.level_price[k]>>] = k[2]
            /\ \A s \in on :
                 /\ b.price[s] = b.level_price[k]
                 /\ older(s) = {} <=> b.head[k] = s
                 /\ newer(s) = {} <=> b.tail[k] = s
                 /\ older(s) = {} <=> b.prev[s] = NULL
                 /\ newer(s) = {} <=> b.next[s] = NULL
                 /\ \A t \in newer(s) : (\A u \in newer(s) : b.xid[t] <= b.xid[u])
                                          <=> (b.next[s] = t /\ b.prev[t] = s)

\* The best price with quantity on a side is the one find_best returns.
BestIsBest(b, side) ==
    LET l == find_best(b, side)
    IN l # NULL => \A m \in Indices : HasQty(b, <<side, m>>) =>
                     ~Better(side, b.level_price[<<side, m>>], b.level_price[<<side, l>>])
=============================================================================
