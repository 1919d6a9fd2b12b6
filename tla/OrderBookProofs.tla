--------------------------- MODULE OrderBookProofs ---------------------------
(***************************************************************************)
(* Proofs about OrderBook, for any number of prices, slots and levels: the  *)
(* operations keep slots, lists, counters and the price map consistent.     *)
(***************************************************************************)
EXTENDS OrderBook, TLAPS

-----------------------------------------------------------------------------
(* Linked lists, one per place: L is the set of the linked elements, at the  *)
(* place of each, id its arrival, nx and pv its neighbours, hd and tl the    *)
(* ends of each place's list.                                               *)

Older(L, at, id, t, u) == t \in L /\ u \in L /\ at[t] = at[u] /\ id[t] < id[u]

\* The neighbours of u are the next older and the next younger element of its place.
PrevOK(L, at, id, nx, pv, hd, u) ==
    /\ pv[u] = NULL => hd[at[u]] = u
    /\ pv[u] # NULL => Older(L, at, id, pv[u], u) /\ nx[pv[u]] = u
    /\ \A t \in L : Older(L, at, id, t, u) => pv[u] # NULL /\ id[t] <= id[pv[u]]

NextOK(L, at, id, nx, pv, tl, u) ==
    /\ nx[u] = NULL => tl[at[u]] = u
    /\ nx[u] # NULL => Older(L, at, id, u, nx[u]) /\ pv[nx[u]] = u
    /\ \A t \in L : Older(L, at, id, u, t) => nx[u] # NULL /\ id[t] >= id[nx[u]]

\* The ends of a list have no neighbour on that side.
EndsOK(L, at, nx, pv, hd, tl, p) ==
    /\ hd[p] = NULL => tl[p] = NULL /\ \A t \in L : at[t] # p
    /\ hd[p] # NULL => /\ hd[p] \in L /\ at[hd[p]] = p /\ pv[hd[p]] = NULL
                      /\ tl[p] \in L /\ at[tl[p]] = p /\ nx[tl[p]] = NULL

Lists(L, at, id, nx, pv, hd, tl) ==
    /\ NULL \notin L
    /\ \A t \in L : at[t] \in Levels /\ id[t] \in Int
    /\ \A t, u \in L : id[t] = id[u] => t = u
    /\ \A u \in L : PrevOK(L, at, id, nx, pv, hd, u) /\ NextOK(L, at, id, nx, pv, tl, u)
    /\ \A p \in Levels : EndsOK(L, at, nx, pv, hd, tl, p)

\* Taking an element out between its neighbours.
TakenOut(L, at, id, nx, pv, hd, tl, s, at2, id2, nx2, pv2, hd2, tl2) ==
    /\ s \in L
    /\ \A t \in L \ {s} : /\ at2[t] = at[t] /\ id2[t] = id[t]
                          /\ t = pv[s] => nx2[t] = nx[s]
                          /\ t # pv[s] => nx2[t] = nx[t]
                          /\ t = nx[s] => pv2[t] = pv[s]
                          /\ t # nx[s] => pv2[t] = pv[t]
    /\ \A p \in Levels : /\ p = at[s] /\ pv[s] = NULL => hd2[p] = nx[s]
                         /\ ~(p = at[s] /\ pv[s] = NULL) => hd2[p] = hd[p]
                         /\ p = at[s] /\ nx[s] = NULL => tl2[p] = pv[s]
                         /\ ~(p = at[s] /\ nx[s] = NULL) => tl2[p] = tl[p]

\* cancel_order and match unlink an element between its neighbours: the lists stay lists in
\* order of arrival.
LEMMA ListRemove ==
    ASSUME NEW L, NEW at, NEW id, NEW nx, NEW pv, NEW hd, NEW tl, NEW s,
           Lists(L, at, id, nx, pv, hd, tl), NEW at2, NEW id2, NEW nx2, NEW pv2, NEW hd2,
           NEW tl2, TakenOut(L, at, id, nx, pv, hd, tl, s, at2, id2, nx2, pv2, hd2, tl2)
    PROVE  Lists(L \ {s}, at2, id2, nx2, pv2, hd2, tl2)
<1> USE DEF TakenOut
<1> DEFINE K == L \ {s}
<1> /\ NULL \notin L
    /\ \A t \in L : at[t] \in Levels /\ id[t] \in Int
    /\ \A t, u \in L : id[t] = id[u] => t = u
    /\ \A u \in L : PrevOK(L, at, id, nx, pv, hd, u) /\ NextOK(L, at, id, nx, pv, tl, u)
  BY DEF Lists
<1> PrevOK(L, at, id, nx, pv, hd, s) /\ NextOK(L, at, id, nx, pv, tl, s)
  OBVIOUS
<1>2. ASSUME NEW t \in K PROVE PrevOK(K, at2, id2, nx2, pv2, hd2, t)
  <2> PrevOK(L, at, id, nx, pv, hd, t) /\ NextOK(L, at, id, nx, pv, tl, t)
    OBVIOUS
  <2>2. CASE t = nx[s]
    <3> pv2[t] = pv[s] /\ t \in L /\ s \in L /\ Older(L, at, id, s, t)
      BY <2>2 DEF NextOK
    <3>2. ASSUME NEW u \in K, Older(K, at2, id2, u, t)
          PROVE  pv2[t] # NULL /\ id2[u] <= id2[pv2[t]]
      <4> u \in L /\ u # s /\ at[u] = at[s] /\ Older(L, at, id, u, t)
        BY <2>2, <3>2 DEF Older
      <4> pv[t] = s /\ id[u] <= id[s]
        BY <2>2 DEF PrevOK, NextOK
      <4>1. id[u] < id[s]
        OBVIOUS
      <4> QED BY <4>1 DEF PrevOK, Older
    <3>3. CASE pv[s] = NULL
      BY <2>2, <3>2, <3>3 DEF PrevOK, Older
    <3>4. CASE pv[s] # NULL
      BY <2>2, <3>2, <3>4 DEF PrevOK, Older
    <3> QED BY <3>3, <3>4
  <2>3. CASE t # nx[s]
    BY SMTT(30), <2>3 DEF PrevOK, NextOK, Older
  <2> QED BY <2>2, <2>3
<1>3. ASSUME NEW t \in K PROVE NextOK(K, at2, id2, nx2, pv2, tl2, t)
  <2> PrevOK(L, at, id, nx, pv, hd, t) /\ NextOK(L, at, id, nx, pv, tl, t)
    OBVIOUS
  <2>2. CASE t = pv[s]
    <3> nx2[t] = nx[s] /\ t \in L /\ s \in L /\ Older(L, at, id, t, s)
      BY <2>2 DEF PrevOK
    <3>2. ASSUME NEW u \in K, Older(K, at2, id2, t, u)
          PROVE  nx2[t] # NULL /\ id2[u] >= id2[nx2[t]]
      <4> u \in L /\ u # s /\ at[u] = at[s] /\ Older(L, at, id, t, u)
        BY <2>2, <3>2 DEF Older
      <4> nx[t] = s /\ id[u] >= id[s]
        BY <2>2 DEF PrevOK, NextOK
      <4>1. id[u] > id[s]
        OBVIOUS
      <4> QED BY <4>1 DEF NextOK, Older
    <3>3. CASE nx[s] = NULL
      BY <2>2, <3>2, <3>3 DEF NextOK, Older
    <3>4. CASE nx[s] # NULL
      BY <2>2, <3>2, <3>4 DEF NextOK, Older
    <3> QED BY <3>3, <3>4
  <2>3. CASE t # pv[s]
    BY <2>3 DEF PrevOK, NextOK, Older
  <2> QED BY <2>2, <2>3
<1>4. ASSUME NEW p \in Levels PROVE EndsOK(K, at2, nx2, pv2, hd2, tl2, p)
  <2> EndsOK(L, at, nx, pv, hd, tl, p)
    BY DEF Lists
  <2>2. CASE p = at[s] /\ pv[s] = NULL
    BY SMTT(30), <2>2 DEF EndsOK, PrevOK, NextOK, Older
  <2>3. CASE p = at[s] /\ pv[s] # NULL
    BY SMTT(30), <2>3 DEF EndsOK, PrevOK, NextOK, Older
  <2>4. CASE p # at[s]
    BY <2>4 DEF EndsOK, PrevOK, NextOK, Older
  <2> QED BY <2>2, <2>3, <2>4
<1>5. /\ NULL \notin K /\ \A t \in K : at2[t] \in Levels /\ id2[t] \in Int
      /\ \A t, u \in K : id2[t] = id2[u] => t = u
  OBVIOUS
<1> HIDE DEF K
<1> QED BY Zenon, <1>2, <1>3, <1>4, <1>5 DEF Lists, K

\* Adding the youngest element at the end of its place's list.
PutLast(L, at, id, nx, pv, hd, tl, s, at2, id2, nx2, pv2, hd2, tl2) ==
    /\ s \notin L /\ s # NULL
    /\ at2[s] \in Levels /\ id2[s] \in Int /\ nx2[s] = NULL /\ pv2[s] = tl[at2[s]]
    /\ \A t \in L : /\ at2[t] = at[t] /\ id2[t] = id[t] /\ id[t] < id2[s] /\ pv2[t] = pv[t]
                    /\ t = tl[at2[s]] => nx2[t] = s
                    /\ t # tl[at2[s]] => nx2[t] = nx[t]
    /\ \A p \in Levels : /\ p = at2[s] /\ tl[p] = NULL => hd2[p] = s
                         /\ ~(p = at2[s] /\ tl[p] = NULL) => hd2[p] = hd[p]
                         /\ p = at2[s] => tl2[p] = s
                         /\ p # at2[s] => tl2[p] = tl[p]

\* add_order links the newest element behind the last of its level: the lists stay in order.
LEMMA ListAppend ==
    ASSUME NEW L, NEW at, NEW id, NEW nx, NEW pv, NEW hd, NEW tl, NEW s,
           Lists(L, at, id, nx, pv, hd, tl), NEW at2, NEW id2, NEW nx2, NEW pv2, NEW hd2,
           NEW tl2, PutLast(L, at, id, nx, pv, hd, tl, s, at2, id2, nx2, pv2, hd2, tl2)
    PROVE  Lists(L \cup {s}, at2, id2, nx2, pv2, hd2, tl2)
<1> USE DEF PutLast
<1> DEFINE K == L \cup {s}
<1> /\ NULL \notin L
    /\ \A t \in L : at[t] \in Levels /\ id[t] \in Int
    /\ \A t, u \in L : id[t] = id[u] => t = u
    /\ \A u \in L : PrevOK(L, at, id, nx, pv, hd, u) /\ NextOK(L, at, id, nx, pv, tl, u)
  BY DEF Lists
<1> EndsOK(L, at, nx, pv, hd, tl, at2[s])
  BY DEF Lists
<1>2. ASSUME NEW t \in K PROVE PrevOK(K, at2, id2, nx2, pv2, hd2, t)
  <2> CASE t \in L
    <3> PrevOK(L, at, id, nx, pv, hd, t) /\ NextOK(L, at, id, nx, pv, tl, t)
      OBVIOUS
    <3> QED BY DEF PrevOK, NextOK, Older, EndsOK
  <2>2. CASE t = s
    BY <2>2 DEF PrevOK, NextOK, Older, EndsOK
  <2> QED BY <2>2
<1>3. ASSUME NEW t \in K PROVE NextOK(K, at2, id2, nx2, pv2, tl2, t)
  <2> CASE t \in L
    <3> PrevOK(L, at, id, nx, pv, hd, t) /\ NextOK(L, at, id, nx, pv, tl, t)
      OBVIOUS
    <3> QED BY DEF PrevOK, NextOK, Older, EndsOK
  <2>2. CASE t = s
    BY <2>2 DEF PrevOK, NextOK, Older, EndsOK
  <2> QED BY <2>2
<1>4. ASSUME NEW p \in Levels PROVE EndsOK(K, at2, nx2, pv2, hd2, tl2, p)
  <2> EndsOK(L, at, nx, pv, hd, tl, p)
    BY DEF Lists
  <2> QED BY DEF EndsOK
<1>5. \A t, u \in K : id2[t] = id2[u] => t = u
  OBVIOUS
<1> /\ NULL \notin K /\ \A t \in K : at2[t] \in Levels /\ id2[t] \in Int
  OBVIOUS
<1> HIDE DEF K
<1> QED BY Zenon, <1>2, <1>3, <1>4, <1>5 DEF Lists, K

\* Nothing moves.
SameLinks(L, at, id, nx, pv, hd, tl, at2, id2, nx2, pv2, hd2, tl2) ==
    /\ \A t \in L : at2[t] = at[t] /\ id2[t] = id[t] /\ nx2[t] = nx[t] /\ pv2[t] = pv[t]
    /\ \A p \in Levels : hd2[p] = hd[p] /\ tl2[p] = tl[p]

\* An operation that writes no link keeps the lists.
LEMMA ListSame ==
    ASSUME NEW L, NEW at, NEW id, NEW nx, NEW pv, NEW hd, NEW tl,
           Lists(L, at, id, nx, pv, hd, tl), NEW at2, NEW id2, NEW nx2, NEW pv2, NEW hd2,
           NEW tl2, SameLinks(L, at, id, nx, pv, hd, tl, at2, id2, nx2, pv2, hd2, tl2)
    PROVE  Lists(L, at2, id2, nx2, pv2, hd2, tl2)
BY DEF SameLinks, Lists, PrevOK, NextOK, EndsOK, Older

-----------------------------------------------------------------------------
(* Counters, per place: how many elements of L are there and the sum of     *)
(* their quantities.                                                        *)

AtPlace(L, at, p) == {t \in L : at[t] = p}

Counts(L, at, qty, cnt, tot) ==
    /\ IsFiniteSet(L) /\ \A t \in L : qty[t] \in Int
    /\ \A p \in Levels : /\ cnt[p] = Cardinality(AtPlace(L, at, p))
                         /\ tot[p] = SumFunctionOnSet(qty, AtPlace(L, at, p))

Here(L, at, s, p) == s \in L /\ at[s] = p
Others(L, at, s, p) == AtPlace(L, at, p) \ {s}

\* The counters follow a change of one element.
Counted(L, at, qty, cnt, tot, s, K, at2, qty2, cnt2, tot2) ==
    /\ K \ {s} = L \ {s} /\ (s \in K => qty2[s] \in Int)
    /\ \A t \in L \ {s} : at2[t] = at[t] /\ qty2[t] = qty[t]
    /\ \A p \in Levels :
         /\ Here(L, at, s, p) /\ Here(K, at2, s, p) =>
              cnt2[p] = cnt[p] /\ tot2[p] = tot[p] - qty[s] + qty2[s]
         /\ Here(L, at, s, p) /\ ~Here(K, at2, s, p) =>
              cnt2[p] = cnt[p] - 1 /\ tot2[p] = tot[p] - qty[s]
         /\ ~Here(L, at, s, p) /\ Here(K, at2, s, p) =>
              cnt2[p] = cnt[p] + 1 /\ tot2[p] = tot[p] + qty2[s]
         /\ ~Here(L, at, s, p) /\ ~Here(K, at2, s, p) => cnt2[p] = cnt[p] /\ tot2[p] = tot[p]

-----------------------------------------------------------------------------
(* The free stack.                                                          *)

\* deallocate pushes a slot that was not free: the stack gains it, and stays free of doubles.
LEMMA Pushed ==
    ASSUME NEW S, NEW f \in Seq(S), NEW s \in S
    PROVE  /\ Range(Append(f, s)) = Range(f) \cup {s}
           /\ IsInjective(f) /\ s \notin Range(f) => IsInjective(Append(f, s))
<1> DEFINE n == Len(f)
           g == Append(f, s)
<1> /\ n \in Nat /\ DOMAIN f = 1 .. n /\ DOMAIN g = 1 .. n + 1 /\ g[n + 1] = s
    /\ \A i \in 1 .. n : g[i] = f[i]
  OBVIOUS
<1> HIDE DEF n, g
<1>2. Range(g) = Range(f) \cup {s}
  BY DEF Range
<1>3. IsInjective(f) /\ s \notin Range(f) => IsInjective(g)
  BY DEF IsInjective, Range
<1> QED BY <1>2, <1>3 DEF g

\* What allocate takes, and what it leaves, are slots.
LEMMA TopType ==
    ASSUME NEW S, NEW f \in Seq(S), f # <<>>
    PROVE  f[Len(f)] \in S /\ SubSeq(f, 1, Len(f) - 1) \in Seq(S)
BY SMTT(30)

\* allocate pops the last slot of the stack: the stack loses that slot and no other.
LEMMA Popped ==
    ASSUME NEW S, NEW f \in Seq(S), f # <<>>, IsInjective(f)
    PROVE  LET g == SubSeq(f, 1, Len(f) - 1) IN
           /\ g \in Seq(S) /\ IsInjective(g) /\ Range(g) = Range(f) \ {f[Len(f)]}
           /\ f[Len(f)] \in S /\ f[Len(f)] \in Range(f)
<1> DEFINE n == Len(f)
           g == SubSeq(f, 1, n - 1)
<1> /\ n \in Nat \ {0} /\ DOMAIN f = 1 .. n /\ \A i \in 1 .. n : f[i] \in S
    /\ DOMAIN g = 1 .. n - 1 /\ \A i \in 1 .. n - 1 : g[i] = f[i]
  OBVIOUS
<1>2. g \in Seq(S)
  OBVIOUS
<1> HIDE DEF n, g
<1>3. n \in 1 .. n /\ \A i \in 1 .. n : i # n => i \in 1 .. n - 1
  OBVIOUS
<1> \A i \in 1 .. n - 1 : i \in 1 .. n /\ i # n
  OBVIOUS
<1>5. Range(g) = Range(f) \ {f[n]}
  BY <1>3 DEF Range, IsInjective
<1>6. IsInjective(g)
  BY DEF IsInjective
<1>7. f[n] \in S /\ f[n] \in Range(f)
  BY <1>3 DEF Range
<1> QED BY Zenon, <1>2, <1>5, <1>6, <1>7 DEF g, n

-----------------------------------------------------------------------------
(* The invariant of the book.                                               *)

Fields == {"cid", "coid", "price", "qty", "at", "xid", "next", "prev", "free", "next_xid",
           "level_price", "total", "cnt", "active", "head", "tail", "count", "best", "map"}

\* Two books differ in the fields of F at most.
SameBut(b, c, F) == DOMAIN c = Fields /\ \A f \in Fields \ F : c[f] = b[f]

\* The types of the fields.
BookOK(b) ==
    /\ DOMAIN b = Fields
    /\ DOMAIN b.cid = Slots /\ DOMAIN b.coid = Slots /\ b.price \in [Slots -> Int]
    /\ b.qty \in [Slots -> Int] /\ b.at \in [Slots -> Levels] /\ b.xid \in [Slots -> Int]
    /\ b.next \in [Slots -> Slots \cup {NULL}] /\ b.prev \in [Slots -> Slots \cup {NULL}]
    /\ b.free \in Seq(Slots) /\ b.next_xid \in Int
    /\ b.level_price \in [Levels -> Int] /\ b.total \in [Levels -> Int]
    /\ b.cnt \in [Levels -> Int] /\ b.active \in [Levels -> BOOLEAN]
    /\ b.head \in [Levels -> Slots \cup {NULL}] /\ b.tail \in [Levels -> Slots \cup {NULL}]
    /\ b.count \in [Sides -> Nat] /\ b.best \in [Sides -> Indices \cup {NULL}]
    /\ b.map \in [Sides \X Prices -> Indices \cup {NULL}]

\* An order has quantity, and the price of its level, which is active.
OrdersInv(b, L) ==
    \A s \in L : /\ b.qty[s] > 0 /\ b.xid[s] < b.next_xid
                 /\ b.active[b.at[s]] /\ b.level_price[b.at[s]] = b.price[s]

\* The price map names the active levels, which are not empty, but for those of E.
LevelsInv(b, E) ==
    /\ \A side \in Sides : b.count[side] <= NumLevels
    /\ \A k \in Levels : b.active[k] => /\ k[2] < b.count[k[1]] /\ b.level_price[k] \in Prices
                                        /\ b.map[<<k[1], b.level_price[k]>>] = k[2]
                                        /\ k \notin E => b.head[k] # NULL
    /\ \A side \in Sides, p \in Prices :
         b.map[<<side, p>>] # NULL => LET k == <<side, b.map[<<side, p>>]>> IN
                                      b.active[k] /\ b.level_price[k] = p
    /\ \A side \in Sides : b.best[side] # NULL => b.active[<<side, b.best[side]>>]

ListsInv(b, L) == Lists(L, b.at, b.xid, b.next, b.prev, b.head, b.tail)
CountsInv(b, L) == Counts(L, b.at, b.qty, b.cnt, b.total)

\* From book b with the resting slots L to book c with K, the counters follow slot s.
Follows(b, L, c, K, s) ==
    Counted(L, b.at, b.qty, b.cnt, b.total, s, K, c.at, c.qty, c.cnt, c.total)

\* The counters of a level are 0 when its list is empty: what CountsInv is needed for.
EmptyAgree(b) ==
    \A k \in Levels : /\ b.cnt[k] = 0 <=> b.head[k] = NULL
                      /\ b.head[k] = NULL => b.total[k] = 0

\* Every set of naturals that is not empty has a least element.
WellOrdered == \A S \in SUBSET Nat : S # {} => \E n \in S : \A m \in S : n <= m

\* L is the set of the slots that rest in the lists.
BookInv(b, L, E) ==
    /\ BookOK(b) /\ L \subseteq Slots
    /\ OrdersInv(b, L) /\ ListsInv(b, L) /\ LevelsInv(b, E)

\* NULL_INDEX names no slot and no level; a level is a side and an index.
LEMMA NullNoSlot == NULL = -1 /\ NULL \notin Slots /\ NULL \notin Indices
BY DEF NULL, Slots, Indices

\* A level is a side and an index, as the code's [side][level] arrays take it.
LEMMA LevelParts ==
    /\ \A k \in Levels : k = <<k[1], k[2]>> /\ k[1] \in Sides /\ k[2] \in Indices
    /\ \A side \in Sides, l \in Indices : <<side, l>> \in Levels
BY DEF Levels

\* No level gets quantity, and those that have it keep their price.
FewerQuotes(b, c) ==
    \A j \in Levels : HasQty(c, j) => HasQty(b, j) /\ c.level_price[j] = b.level_price[j]

\* The orders of L are the same.
SameOrders(b, c, L) ==
    \A t \in L : c.cid[t] = b.cid[t] /\ c.coid[t] = b.coid[t] /\ c.qty[t] = b.qty[t]

-----------------------------------------------------------------------------
(* What the operations keep.                                                *)

\* Slot s has given q and still rests.
Reduced(b, c, L, E, s, q) ==
    /\ BookInv(c, L, E) /\ Follows(b, L, c, L, s) /\ FewerQuotes(b, c)
    /\ SameBut(b, c, {"qty", "total"})
    /\ c.qty[s] = b.qty[s] - q /\ \A t \in L \ {s} : c.qty[t] = b.qty[t]

\* A partial fill takes from an order and from the total of its level only.
LEMMA ReduceKeeps ==
    ASSUME NEW b, NEW L, NEW E, BookInv(b, L, E), NEW s \in L, NEW q \in Nat, q < b.qty[s]
    PROVE  Reduced(b, Reduce(b, b.at[s], s, q), L, E, s, q)
<1> DEFINE c == Reduce(b, b.at[s], s, q)
<1>0. /\ BookOK(b) /\ L \subseteq Slots /\ OrdersInv(b, L) /\ ListsInv(b, L) /\ LevelsInv(b, E)
      /\ s \in Slots /\ DOMAIN b = Fields
  BY Zenon DEF BookInv, BookOK
<1>1. s \in Slots /\ b.at[s] \in Levels /\ b.qty \in [Slots -> Int] /\ b.total \in [Levels -> Int]
  BY <1>0 DEF BookOK
<1>2. c = [b EXCEPT !.qty = [b.qty EXCEPT ![s] = @ - q],
                    !.total = [b.total EXCEPT ![b.at[s]] = @ - q]]
  BY Zenon DEF Reduce
<1> HIDE DEF c
<1>3. SameBut(b, c, {"qty", "total"})
  BY Zenon, <1>0, <1>2 DEF Fields, SameBut
<1>4. c.qty = [b.qty EXCEPT ![s] = @ - q] /\ c.total = [b.total EXCEPT ![b.at[s]] = @ - q]
  BY Zenon, <1>0, <1>2 DEF Fields
<1>5. /\ c.price = b.price /\ c.at = b.at /\ c.xid = b.xid /\ c.next = b.next
      /\ c.prev = b.prev /\ c.next_xid = b.next_xid /\ c.level_price = b.level_price
      /\ c.cnt = b.cnt /\ c.active = b.active /\ c.head = b.head /\ c.tail = b.tail
      /\ c.count = b.count /\ c.map = b.map /\ c.free = b.free /\ c.best = b.best
      /\ c.cid = b.cid /\ c.coid = b.coid /\ DOMAIN c = Fields
  BY <1>3 DEF SameBut, Fields
<1>6. BookOK(c)
  <2> c.qty \in [Slots -> Int] /\ c.total \in [Levels -> Int]
    BY <1>1, <1>4
  <2> QED BY Zenon, <1>0, <1>5 DEF BookOK
<1>7. OrdersInv(c, L)
  BY <1>0, <1>1, <1>4, <1>5 DEF OrdersInv
<1>8. ListsInv(c, L) /\ LevelsInv(c, E)
  BY SMTT(60), <1>0, <1>5 DEF ListsInv, LevelsInv
<1>9. Follows(b, L, c, L, s)
  <2> \A k \in Levels : Here(L, b.at, s, k) <=> k = b.at[s]
    BY DEF Here
  <2> QED BY <1>0, <1>1, <1>4, <1>5 DEF Counted, Follows
<1>10. FewerQuotes(b, c)
  BY <1>1, <1>4, <1>5 DEF FewerQuotes, HasQty
<1>11. BookInv(c, L, E)
  BY Zenon, <1>0, <1>6, <1>7, <1>8 DEF BookInv
<1>12. c.qty[s] = b.qty[s] - q /\ \A t \in L \ {s} : c.qty[t] = b.qty[t]
  BY <1>0, <1>1, <1>4
<1> QED BY Zenon, <1>3, <1>9, <1>10, <1>11, <1>12 DEF c, Reduced

\* Slot s is out of its list.
Removed(b, c, L, s) ==
    /\ BookInv(c, L \ {s}, {b.at[s]}) /\ Follows(b, L, c, L \ {s}, s)
    /\ FewerQuotes(b, c) /\ c.free = Append(b.free, s)
    /\ SameBut(b, c, {"qty", "total", "next", "prev", "head", "tail", "cnt", "free"})
    /\ \A t \in L \ {s} : c.qty[t] = b.qty[t]

\* A slot that leaves its level leaves the list in order, and its level maybe empty.
LEMMA RemoveKeeps ==
    ASSUME NEW b, NEW L, NEW E, BookInv(b, L, E), NEW s \in L,
           \A j \in E : j = b.at[s]
    PROVE  Removed(b, Detach(b, b.at[s], s), L, s)
<1> DEFINE k == b.at[s]
           n == b.next[s]
           p == b.prev[s]
           c == Detach(b, k, s)
<1> BookOK(b) /\ L \subseteq Slots /\ s \in Slots
  BY DEF BookInv
<1>0. /\ k \in Levels /\ n \in Slots \cup {NULL} /\ p \in Slots \cup {NULL}
      /\ b.qty \in [Slots -> Int] /\ b.total \in [Levels -> Int] /\ b.cnt \in [Levels -> Int]
      /\ b.next \in [Slots -> Slots \cup {NULL}] /\ b.prev \in [Slots -> Slots \cup {NULL}]
      /\ b.head \in [Levels -> Slots \cup {NULL}] /\ b.tail \in [Levels -> Slots \cup {NULL}]
      /\ b.free \in Seq(Slots)
  BY DEF BookOK
<1> DEFINE d == Reduce(b, k, s, b.qty[s])
           e == Unlink(d, k, s)
<1>1. /\ SameBut(b, d, {"qty", "total"})
      /\ d.qty = [b.qty EXCEPT ![s] = @ - b.qty[s]]
      /\ d.total = [b.total EXCEPT ![k] = @ - b.qty[s]]
  BY Zenon DEF Reduce, BookOK, SameBut, Fields
<1> HIDE DEF d
<1>2. /\ SameBut(d, e, {"next", "prev", "head", "tail", "cnt"})
      /\ e.cnt = [d.cnt EXCEPT ![k] = @ - 1]
      /\ e.next = IF d.prev[s] = NULL THEN d.next ELSE [d.next EXCEPT ![d.prev[s]] = d.next[s]]
      /\ e.prev = IF d.next[s] = NULL THEN d.prev ELSE [d.prev EXCEPT ![d.next[s]] = d.prev[s]]
      /\ e.head = [d.head EXCEPT ![k] = IF d.prev[s] = NULL THEN d.next[s] ELSE @]
      /\ e.tail = [d.tail EXCEPT ![k] = IF d.next[s] = NULL THEN d.prev[s] ELSE @]
  <2>1. DOMAIN d = Fields
    BY <1>1 DEF SameBut
  <2>2. e = [d EXCEPT
          !.next = IF d.prev[s] = NULL THEN d.next ELSE [d.next EXCEPT ![d.prev[s]] = d.next[s]],
          !.prev = IF d.next[s] = NULL THEN d.prev ELSE [d.prev EXCEPT ![d.next[s]] = d.prev[s]],
          !.head = [d.head EXCEPT ![k] = IF d.prev[s] = NULL THEN d.next[s] ELSE @],
          !.tail = [d.tail EXCEPT ![k] = IF d.next[s] = NULL THEN d.prev[s] ELSE @],
          !.cnt = [d.cnt EXCEPT ![k] = @ - 1]]
    BY DEF Unlink
  <2> HIDE DEF e
  <2> QED BY Zenon, <2>1, <2>2 DEF Fields, SameBut
<1> HIDE DEF e
<1>3. SameBut(e, c, {"free"}) /\ c.free = Append(e.free, s)
  <2>1. c = [e EXCEPT !.free = Append(@, s)]
    BY DEF Detach, Free, d, e
  <2> HIDE DEF c
  <2>2. DOMAIN e = Fields
    BY SMTT(60), <1>2 DEF SameBut
  <2> QED BY Zenon, <2>1, <2>2 DEF Fields, SameBut
<1> HIDE DEF c
<1>4. /\ c.qty = [b.qty EXCEPT ![s] = @ - b.qty[s]]
      /\ c.total = [b.total EXCEPT ![k] = @ - b.qty[s]]
      /\ c.cnt = [b.cnt EXCEPT ![k] = @ - 1]
      /\ c.next = IF p = NULL THEN b.next ELSE [b.next EXCEPT ![p] = n]
      /\ c.prev = IF n = NULL THEN b.prev ELSE [b.prev EXCEPT ![n] = p]
      /\ c.head = [b.head EXCEPT ![k] = IF p = NULL THEN n ELSE @]
      /\ c.tail = [b.tail EXCEPT ![k] = IF n = NULL THEN p ELSE @]
      /\ c.free = Append(b.free, s)
      /\ c.price = b.price /\ c.at = b.at /\ c.xid = b.xid
      /\ c.next_xid = b.next_xid /\ c.level_price = b.level_price /\ c.active = b.active
      /\ c.count = b.count /\ c.map = b.map /\ c.best = b.best
      /\ c.cid = b.cid /\ c.coid = b.coid /\ DOMAIN c = Fields
  <2>1. /\ d.next = b.next /\ d.prev = b.prev /\ d.head = b.head /\ d.tail = b.tail
        /\ d.cnt = b.cnt /\ d.free = b.free
    BY <1>1 DEF SameBut, Fields
  <2>2. e.qty = d.qty /\ e.total = d.total /\ e.free = d.free
    BY <1>2 DEF SameBut, Fields
  <2>3. /\ c.qty = e.qty /\ c.total = e.total /\ c.cnt = e.cnt /\ c.next = e.next
        /\ c.prev = e.prev /\ c.head = e.head /\ c.tail = e.tail
    BY <1>3 DEF SameBut, Fields
  <2>4. SameBut(b, c, {"qty", "total", "next", "prev", "head", "tail", "cnt", "free"})
    BY <1>1, <1>2, <1>3 DEF SameBut, Fields
  <2>5. /\ c.price = b.price /\ c.at = b.at /\ c.xid = b.xid
        /\ c.next_xid = b.next_xid /\ c.level_price = b.level_price /\ c.active = b.active
        /\ c.count = b.count /\ c.map = b.map /\ c.best = b.best
        /\ c.cid = b.cid /\ c.coid = b.coid /\ DOMAIN c = Fields
    BY <2>4 DEF SameBut, Fields
  <2>6. /\ c.qty = d.qty /\ c.total = d.total /\ c.cnt = e.cnt /\ c.free = Append(b.free, s)
    BY Zenon, <1>1, <2>1, <2>2, <2>3, <1>3
  <2>7. /\ c.next = IF p = NULL THEN b.next ELSE [b.next EXCEPT ![p] = n]
        /\ c.prev = IF n = NULL THEN b.prev ELSE [b.prev EXCEPT ![n] = p]
    BY Zenon, <1>2, <2>1, <2>3
  <2>8. /\ c.head = [b.head EXCEPT ![k] = IF p = NULL THEN n ELSE @]
        /\ c.tail = [b.tail EXCEPT ![k] = IF n = NULL THEN p ELSE @]
    BY Zenon, <1>2, <2>1, <2>3
  <2>9. c.cnt = [b.cnt EXCEPT ![k] = @ - 1]
    BY Zenon, <1>2, <2>1, <2>3
  <2> QED BY <1>1, <2>5, <2>6, <2>7, <2>8, <2>9
<1> HIDE DEF k, n, p
<1>a. /\ b.qty \in [Slots -> Int] /\ c.qty = [b.qty EXCEPT ![s] = @ - b.qty[s]]
      /\ b.total \in [Levels -> Int] /\ c.total = [b.total EXCEPT ![k] = @ - b.qty[s]]
      /\ b.cnt \in [Levels -> Int] /\ c.cnt = [b.cnt EXCEPT ![k] = @ - 1] /\ k \in Levels
  BY Zenon, <1>0, <1>4
<1>b. /\ b.next \in [Slots -> Slots \cup {NULL}] /\ b.prev \in [Slots -> Slots \cup {NULL}]
      /\ n \in Slots \cup {NULL} /\ p \in Slots \cup {NULL}
      /\ c.next = IF p = NULL THEN b.next ELSE [b.next EXCEPT ![p] = n]
      /\ c.prev = IF n = NULL THEN b.prev ELSE [b.prev EXCEPT ![n] = p]
  BY Zenon, <1>0, <1>4
<1>c. /\ b.head \in [Levels -> Slots \cup {NULL}] /\ b.tail \in [Levels -> Slots \cup {NULL}]
      /\ n \in Slots \cup {NULL} /\ p \in Slots \cup {NULL} /\ k \in Levels
      /\ c.head = [b.head EXCEPT ![k] = IF p = NULL THEN n ELSE @]
      /\ c.tail = [b.tail EXCEPT ![k] = IF n = NULL THEN p ELSE @]
  BY Zenon, <1>0, <1>4
<1>d. /\ c.price = b.price /\ c.at = b.at /\ c.xid = b.xid
      /\ c.next_xid = b.next_xid /\ c.level_price = b.level_price /\ c.active = b.active
      /\ c.count = b.count /\ c.map = b.map /\ c.best = b.best
  BY Zenon, <1>4
<1>5. BookOK(c)
  <2>1. /\ c.qty \in [Slots -> Int] /\ c.total \in [Levels -> Int] /\ c.cnt \in [Levels -> Int]
    BY <1>a
  <2>4. c.free \in Seq(Slots)
    <3> b.free \in Seq(Slots)
      BY <1>0
    <3> QED BY <1>4
  <2>2. c.next \in [Slots -> Slots \cup {NULL}] /\ c.prev \in [Slots -> Slots \cup {NULL}]
    BY <1>b
  <2>3. c.head \in [Levels -> Slots \cup {NULL}] /\ c.tail \in [Levels -> Slots \cup {NULL}]
    BY <1>c
  <2> QED BY Zenon, <1>4, <2>1, <2>2, <2>3, <2>4 DEF BookOK
<1>6. OrdersInv(c, L \ {s})
  <2> \A t \in L \ {s} : c.qty[t] = b.qty[t]
    BY <1>a
  <2> QED BY <1>d DEF BookInv, OrdersInv
<1>7. ListsInv(c, L \ {s})
  <2>1. \A t \in L \ {s} : /\ t = p => c.next[t] = n
                           /\ t # p => c.next[t] = b.next[t]
                           /\ t = n => c.prev[t] = p
                           /\ t # n => c.prev[t] = b.prev[t]
    BY <1>b, NullNoSlot
  <2>2. \A j \in Levels : /\ j = k /\ p = NULL => c.head[j] = n
                          /\ ~(j = k /\ p = NULL) => c.head[j] = b.head[j]
                          /\ j = k /\ n = NULL => c.tail[j] = p
                          /\ ~(j = k /\ n = NULL) => c.tail[j] = b.tail[j]
    BY <1>c
  <2>3. TakenOut(L, b.at, b.xid, b.next, b.prev, b.head, b.tail, s,
                 c.at, c.xid, c.next, c.prev, c.head, c.tail)
    BY Zenon, <1>d, <2>1, <2>2 DEF TakenOut, k, n, p
  <2> QED BY Zenon, <2>3, ListRemove DEF BookInv, ListsInv
<1>8. Follows(b, L, c, L \ {s}, s)
  <2>1. \A j \in Levels : (Here(L, b.at, s, j) <=> j = k) /\ ~Here(L \ {s}, c.at, s, j)
    BY DEF Here, k
  <2>2. \A j \in Levels : /\ j = k => c.cnt[j] = b.cnt[j] - 1 /\ c.total[j] = b.total[j] - b.qty[s]
                          /\ j # k => c.cnt[j] = b.cnt[j] /\ c.total[j] = b.total[j]
    BY <1>a
  <2>3. (L \ {s}) \ {s} = L \ {s} /\ \A t \in L \ {s} : c.at[t] = b.at[t] /\ c.qty[t] = b.qty[t]
    BY <1>a, <1>d
  <2> QED BY Zenon, <2>1, <2>2, <2>3 DEF Counted, Follows
<1>9. LevelsInv(c, {k})
  <2> \A j \in Levels : j # k => c.head[j] = b.head[j]
    BY <1>c
  <2> LevelsInv(b, E)
    BY DEF BookInv
  <2> QED BY <1>d DEF LevelsInv, k
<1>11. FewerQuotes(b, c)
  <2> b.qty[s] > 0
    BY DEF BookInv, OrdersInv
  <2> \A j \in Levels : c.total[j] > 0 => b.total[j] > 0
    BY <1>a
  <2> QED BY <1>d DEF FewerQuotes, HasQty
<1>12. SameBut(b, c, {"qty", "total", "next", "prev", "head", "tail", "cnt", "free"})
  BY Zenon, <1>4 DEF SameBut, Fields
<1>13. \A t \in L \ {s} : c.qty[t] = b.qty[t]
  BY <1>a
<1>14. BookInv(c, L \ {s}, {k})
  BY <1>5, <1>6, <1>7, <1>9 DEF BookInv
<1> QED BY Zenon, <1>4, <1>8, <1>11, <1>12, <1>13, <1>14 DEF c, k, Removed

\* A level without a head has no order and no tail.
LEMMA EmptyList ==
    ASSUME NEW b, NEW L, ListsInv(b, L), NEW k \in Levels
    PROVE  /\ b.head[k] = NULL <=> \A s \in L : b.at[s] # k
           /\ b.head[k] = NULL => b.tail[k] = NULL
<1> EndsOK(L, b.at, b.next, b.prev, b.head, b.tail, k) /\ NULL \notin L
  BY DEF ListsInv, Lists
<1> QED BY DEF EndsOK

\* Level k is not active any more if it was empty.
Dropped(b, c, L, k) ==
    /\ BookInv(c, L, {}) /\ SameBut(b, c, {"active", "map", "best"}) /\ FewerQuotes(b, c)
    /\ \A side \in Sides : \/ c.best[side] = b.best[side]
                           \/ c.best[side] = NULL /\ side = k[1] /\ b.cnt[k] = 0

\* A level that is left empty is deactivated: afterwards no active level is empty.  The
\* levels with quantity are the same.
LEMMA DropKeeps ==
    ASSUME NEW b, NEW L, NEW k \in Levels, BookInv(b, L, {k}), b.active[k],
           EmptyAgree(b)
    PROVE  Dropped(b, DropEmpty(b, k), L, k)
<1> DEFINE c == DropEmpty(b, k)
           i == <<k[1], b.level_price[k]>>
<1>0. /\ BookOK(b) /\ L \subseteq Slots /\ ListsInv(b, L)
      /\ OrdersInv(b, L) /\ LevelsInv(b, {k}) /\ DOMAIN b = Fields
  BY Zenon DEF BookInv, BookOK
<1>1. CASE b.cnt[k] # 0
  <2> c = b
    BY <1>1 DEF DropEmpty
  <2>1. b.head[k] # NULL
    BY <1>1 DEF EmptyAgree
  <2>2. LevelsInv(b, {})
    BY <1>0, <2>1 DEF LevelsInv
  <2>3. BookInv(b, L, {}) /\ SameBut(b, b, {"active", "map", "best"})
    BY Zenon, <1>0, <2>2 DEF BookInv, SameBut
  <2> QED BY <2>3 DEF FewerQuotes, Dropped
<1>2. CASE b.cnt[k] = 0
  <2>1. /\ b.head[k] = NULL /\ b.tail[k] = NULL /\ b.total[k] = 0 /\ \A s \in L : b.at[s] # k
    BY <1>0, <1>2, EmptyList DEF EmptyAgree
  <2>2. /\ k[1] \in Sides /\ k[2] \in Indices /\ k = <<k[1], k[2]>>
        /\ b.level_price[k] \in Prices /\ i \in Sides \X Prices
    BY <1>0, LevelParts DEF LevelsInv
  <2>3. c = [b EXCEPT !.active = [b.active EXCEPT ![k] = FALSE],
                      !.map = [b.map EXCEPT ![i] = NULL],
                      !.best = [b.best EXCEPT ![k[1]] = IF @ = k[2] THEN NULL ELSE @]]
    BY Zenon, <1>2, <2>2 DEF DropEmpty, deactivate
  <2> HIDE DEF c
  <2>4. /\ SameBut(b, c, {"active", "map", "best"})
        /\ c.active = [b.active EXCEPT ![k] = FALSE] /\ c.map = [b.map EXCEPT ![i] = NULL]
        /\ c.best = [b.best EXCEPT ![k[1]] = IF @ = k[2] THEN NULL ELSE @]
    BY Zenon, <1>0, <2>3 DEF Fields, SameBut
  <2>5. /\ c.price = b.price /\ c.at = b.at /\ c.xid = b.xid /\ c.qty = b.qty
        /\ c.next = b.next /\ c.prev = b.prev /\ c.head = b.head /\ c.tail = b.tail
        /\ c.next_xid = b.next_xid /\ c.level_price = b.level_price /\ c.free = b.free
        /\ c.count = b.count /\ c.cnt = b.cnt /\ c.total = b.total
        /\ c.cid = b.cid /\ c.coid = b.coid /\ DOMAIN c = Fields
    BY <2>4 DEF SameBut, Fields
  <2>6. /\ b.active \in [Levels -> BOOLEAN] /\ b.map \in [Sides \X Prices -> Indices \cup {NULL}]
        /\ b.best \in [Sides -> Indices \cup {NULL}]
    BY <1>0 DEF BookOK
  <2>7. /\ c.active \in [Levels -> BOOLEAN] /\ c.map \in [Sides \X Prices -> Indices \cup {NULL}]
        /\ c.best \in [Sides -> Indices \cup {NULL}]
    BY <2>2, <2>4, <2>6
  <2>8. BookOK(c)
    BY Zenon, <1>0, <2>5, <2>7 DEF BookOK
  <2>9. \A j \in Levels : c.active[j] <=> b.active[j] /\ j # k
    BY Zenon, <2>4, <2>6
  <2>10. \A side \in Sides :
           /\ c.best[side] = b.best[side] \/ (c.best[side] = NULL /\ side = k[1])
           /\ side = k[1] => c.best[side] # k[2]
    BY <2>2, <2>4, <2>6, NullNoSlot
  <2>11. \A side \in Sides, p \in Prices :
            /\ <<side, p>> = i => c.map[<<side, p>>] = NULL
            /\ <<side, p>> # i => c.map[<<side, p>>] = b.map[<<side, p>>]
    BY <2>4, <2>6
  <2>12. OrdersInv(c, L)
    <3> \A s \in L : b.at[s] \in Levels
      BY <1>0 DEF BookOK
    <3> QED BY <1>0, <2>1, <2>5, <2>9 DEF OrdersInv
  <2>13. LevelsInv(c, {})
    <3>1. \A j \in Levels : b.active[j] /\ j # k => <<j[1], b.level_price[j]>> # i
      <4> SUFFICES ASSUME NEW j \in Levels, b.active[j], <<j[1], b.level_price[j]>> = i
                   PROVE  j = k
        OBVIOUS
      <4>1. b.map[<<j[1], b.level_price[j]>>] = j[2] /\ b.map[i] = k[2]
        BY <1>0 DEF LevelsInv
      <4> QED BY <4>1, LevelParts
    <3>2. \A side \in Sides : c.best[side] # NULL => c.active[<<side, c.best[side]>>]
      <4> SUFFICES ASSUME NEW side \in Sides, c.best[side] # NULL
                   PROVE  c.active[<<side, c.best[side]>>]
        OBVIOUS
      <4>1. c.best[side] = b.best[side] /\ (side = k[1] => c.best[side] # k[2])
        BY Zenon, <2>10
      <4>2. b.active[<<side, b.best[side]>>] /\ b.best[side] \in Indices
        BY <1>0, <2>6, <4>1 DEF LevelsInv
      <4> QED BY <2>2, <2>9, <4>1, <4>2, LevelParts
    <3>3. ASSUME NEW side \in Sides, NEW p \in Prices, c.map[<<side, p>>] # NULL
          PROVE  LET j == <<side, c.map[<<side, p>>]>> IN c.active[j] /\ c.level_price[j] = p
      <4> DEFINE j == <<side, b.map[<<side, p>>]>>
      <4>1. <<side, p>> # i /\ c.map[<<side, p>>] = b.map[<<side, p>>]
        BY <2>11, <3>3
      <4>2. b.active[j] /\ b.level_price[j] = p /\ j \in Levels
        BY <1>0, <2>6, <3>3, <4>1, LevelParts DEF LevelsInv
      <4>3. j # k
        BY <2>2, <4>1, <4>2
      <4> QED BY <2>5, <2>9, <4>1, <4>2, <4>3
    <3>4. ASSUME NEW j \in Levels, c.active[j]
          PROVE  /\ j[2] < c.count[j[1]] /\ c.level_price[j] \in Prices
                 /\ c.map[<<j[1], c.level_price[j]>>] = j[2] /\ c.head[j] # NULL
      <4>1. b.active[j] /\ j # k /\ <<j[1], b.level_price[j]>> # i
        BY <2>9, <3>1, <3>4
      <4>2. /\ j[2] < b.count[j[1]] /\ b.level_price[j] \in Prices
            /\ b.map[<<j[1], b.level_price[j]>>] = j[2] /\ b.head[j] # NULL
        BY <1>0, <4>1 DEF LevelsInv
      <4> QED BY <2>5, <2>11, <4>1, <4>2, LevelParts
    <3>5. \A side \in Sides : c.count[side] <= NumLevels
      BY <1>0, <2>5 DEF LevelsInv
    <3> QED BY Zenon, <3>2, <3>3, <3>4, <3>5 DEF LevelsInv
  <2>14. ListsInv(c, L)
    BY Zenon, <1>0, <2>5 DEF ListsInv
  <2>15. FewerQuotes(b, c)
    BY <2>1, <2>5, <2>9 DEF HasQty, FewerQuotes
  <2>16. BookInv(c, L, {})
    BY Zenon, <1>0, <2>8, <2>12, <2>13, <2>14 DEF BookInv
  <2> QED BY <1>2, <2>4, <2>10, <2>15, <2>16 DEF c, Dropped
<1> QED BY <1>1, <1>2

-----------------------------------------------------------------------------
(* The cached best level.                                                   *)

\* No level with quantity has a better price than level l.
Top(b, side, l) ==
    \A m \in Indices : HasQty(b, <<side, m>>) =>
        ~Better(side, b.level_price[<<side, m>>], b.level_price[<<side, l>>])

NoneQuoted(b, side) == \A m \in Indices : ~HasQty(b, <<side, m>>)

\* The cache names a best level; or nothing, and then the side is empty.
CacheTop(b, side) == b.best[side] # NULL => Top(b, side, b.best[side])
Cached(b, side) == CacheTop(b, side) /\ (b.best[side] = NULL => NoneQuoted(b, side))

\* The scan of rebuild_best finds a level with the best price among those with quantity, if
\* there is one.
LEMMA RebuildBest ==
    ASSUME NEW b, NEW L, NEW E, BookInv(b, L, E), NEW side \in Sides, WellOrdered
    PROVE  LET r == rebuild_best(b, side) IN
           /\ r \in Indices \cup {NULL}
           /\ r = NULL <=> NoneQuoted(b, side)
           /\ r # NULL => HasQty(b, <<side, r>>) /\ Top(b, side, r)
<1> DEFINE P(l) == b.level_price[<<side, l>>]
           C == {l \in 0 .. b.count[side] - 1 : HasQty(b, <<side, l>>)}
           T == {l \in C : \A k \in C : ~Better(side, P(k), P(l))}
           V(l) == IF side = "BUY" THEN MaxPrice - P(l) ELSE P(l)
           r == rebuild_best(b, side)
<1>1. /\ b.count[side] \in Nat /\ b.count[side] <= NumLevels /\ MaxPrice \in Nat
      /\ NumLevels \in Nat
  BY BookAssumption DEF BookInv, BookOK, LevelsInv
<1>2. ASSUME NEW k \in Indices, HasQty(b, <<side, k>>)
      PROVE  k < b.count[side] /\ P(k) \in Prices
  <2> <<side, k>> \in Levels
    BY LevelParts
  <2> QED BY Zenon, <1>2 DEF BookInv, LevelsInv, HasQty
<1>3. C \subseteq Indices /\ \A k \in Indices : HasQty(b, <<side, k>>) <=> k \in C
  BY <1>1, <1>2 DEF Indices
<1>4. \A k \in C : P(k) \in Int /\ P(k) <= MaxPrice /\ P(k) >= 0
  BY <1>1, <1>2, <1>3 DEF Prices
<1>5. r = IF C = {} THEN NULL ELSE CHOOSE l \in T : \A k \in T : l <= k
  BY DEF rebuild_best
<1> HIDE DEF C, r, P
<1>6. C # {} => T # {}
  <2> SUFFICES ASSUME C # {} PROVE T # {}
    OBVIOUS
  <2> DEFINE S == {V(l) : l \in C}
  <2> S \subseteq Nat /\ S # {}
    BY <1>1, <1>4
  <2> PICK n \in S : \A m \in S : n <= m
    <3> HIDE DEF S
    <3> QED BY Zenon DEF WellOrdered
  <2> PICK l \in C : n = V(l)
    OBVIOUS
  <2> ASSUME NEW k \in C PROVE ~Better(side, P(k), P(l))
    <3> V(l) <= V(k) /\ P(k) \in Int /\ P(l) \in Int
      BY <1>4
    <3> QED BY <1>1 DEF Better
  <2> QED OBVIOUS
<1>7. T # {} => \E l \in T : \A k \in T : l <= k
  <2> T \subseteq C /\ Indices \subseteq Nat
    BY BookAssumption DEF Indices
  <2> HIDE DEF T
  <2> T \subseteq Nat
    BY Zenon, <1>3
  <2> QED BY Zenon DEF WellOrdered
<1>8. C # {} => r \in T
  <2> HIDE DEF T
  <2> QED BY <1>5, <1>6, <1>7
<1>9. C # {} => r \in C /\ \A k \in C : ~Better(side, P(k), P(r))
  BY <1>8
<1> HIDE DEF T
<1>10. r \in Indices \cup {NULL} /\ (r = NULL <=> NoneQuoted(b, side))
  BY Zenon, <1>3, <1>5, <1>9, NullNoSlot DEF NoneQuoted
<1>11. r # NULL => HasQty(b, <<side, r>>) /\ Top(b, side, r)
  BY Zenon, <1>3, <1>5, <1>9 DEF Top, P
<1> QED BY Zenon, <1>10, <1>11 DEF r

\* What find_best returns: a level with quantity if there is one; the best one, if the
\* cache is not a worse one.
LEMMA FindBest ==
    ASSUME NEW b, NEW L, NEW E, BookInv(b, L, E), NEW side \in Sides, WellOrdered
    PROVE  LET r == find_best(b, side) IN
           /\ r \in Indices \cup {NULL}
           /\ r = NULL => NoneQuoted(b, side)
           /\ r # NULL => HasQty(b, <<side, r>>)
           /\ ~CacheHit(b, side) => (r # NULL => Top(b, side, r))
           /\ CacheHit(b, side) => r = b.best[side]
<1> b.best[side] \in Indices \cup {NULL}
  BY DEF BookInv, BookOK
<1> QED BY RebuildBest DEF find_best, CacheHit

\* Looking at a side changes its cache only.
LEMMA LookKeeps ==
    ASSUME NEW b, NEW L, NEW E, BookInv(b, L, E), NEW side \in Sides, WellOrdered
    PROVE  LET c == Looked(b, side) IN
           /\ BookInv(c, L, E) /\ SameBut(b, c, {"best"})
           /\ c.best[side] = find_best(b, side)
           /\ \A sd \in Sides : sd # side => c.best[sd] = b.best[sd]
<1> DEFINE c == Looked(b, side)
           r == find_best(b, side)
<1>0. /\ BookOK(b) /\ L \subseteq Slots /\ ListsInv(b, L)
      /\ OrdersInv(b, L) /\ LevelsInv(b, E) /\ DOMAIN b = Fields
  BY Zenon DEF BookInv, BookOK
<1>1. b.best \in [Sides -> Indices \cup {NULL}]
  BY <1>0 DEF BookOK
<1>2. r \in Indices \cup {NULL} /\ (r # NULL => b.active[<<side, r>>])
  BY FindBest DEF HasQty
<1>3. c = [b EXCEPT !.best = [b.best EXCEPT ![side] = r]]
  BY Zenon DEF Looked
<1> HIDE DEF c, r
<1>4. SameBut(b, c, {"best"}) /\ c.best = [b.best EXCEPT ![side] = r]
  BY Zenon, <1>0, <1>3 DEF Fields, SameBut
<1>5. /\ c.price = b.price /\ c.at = b.at /\ c.xid = b.xid /\ c.qty = b.qty
      /\ c.next = b.next /\ c.prev = b.prev /\ c.head = b.head /\ c.tail = b.tail
      /\ c.next_xid = b.next_xid /\ c.level_price = b.level_price /\ c.free = b.free
      /\ c.count = b.count /\ c.cnt = b.cnt /\ c.total = b.total /\ c.map = b.map
      /\ c.active = b.active /\ c.cid = b.cid /\ c.coid = b.coid /\ DOMAIN c = Fields
  BY <1>4 DEF SameBut, Fields
<1>6. /\ c.best \in [Sides -> Indices \cup {NULL}] /\ c.best[side] = r
      /\ \A sd \in Sides : sd # side => c.best[sd] = b.best[sd]
  BY <1>1, <1>2, <1>4
<1>7. BookOK(c)
  BY Zenon, <1>0, <1>5, <1>6 DEF BookOK
<1>8. OrdersInv(c, L) /\ ListsInv(c, L)
  <2>1. OrdersInv(c, L)
    BY <1>0, <1>5 DEF OrdersInv
  <2> QED BY Zenon, <1>0, <1>5, <2>1 DEF ListsInv
<1>9. \A sd \in Sides : c.best[sd] # NULL => c.active[<<sd, c.best[sd]>>]
  BY SMTT(60), <1>0, <1>2, <1>5, <1>6 DEF LevelsInv
<1>10. LevelsInv(c, E)
  BY <1>0, <1>5, <1>9 DEF LevelsInv
<1> QED BY Zenon, <1>0, <1>4, <1>6, <1>7, <1>8, <1>10 DEF BookInv, c, r

\* After a look at a side its cache is right, unless it was wrong and hit.
LEMMA LookCached ==
    ASSUME NEW b, NEW L, NEW E, BookInv(b, L, E), NEW side \in Sides, WellOrdered
    PROVE  LET c == Looked(b, side) IN
           /\ CacheTop(b, side) \/ ~CacheHit(b, side) => Cached(c, side)
           /\ \A sd \in Sides : sd # side /\ Cached(b, sd) => Cached(c, sd)
           /\ \A sd \in Sides : sd # side => (CacheHit(c, sd) <=> CacheHit(b, sd))
           /\ \A sd \in Sides : sd # side /\ CacheTop(b, sd) => CacheTop(c, sd)
<1> DEFINE c == Looked(b, side)
           r == find_best(b, side)
<1>1. /\ SameBut(b, c, {"best"}) /\ c.best[side] = r
      /\ \A sd \in Sides : sd # side => c.best[sd] = b.best[sd]
  BY Zenon, LookKeeps
<1>2. /\ r = NULL => NoneQuoted(b, side)
      /\ ~CacheHit(b, side) => (r # NULL => Top(b, side, r))
      /\ CacheHit(b, side) => r = b.best[side] /\ r # NULL
  BY Zenon, FindBest DEF CacheHit
<1> HIDE DEF c, r
<1>3. c.level_price = b.level_price /\ c.total = b.total /\ c.active = b.active
  BY <1>1 DEF SameBut, Fields
<1>4. \A k : HasQty(c, k) <=> HasQty(b, k)
  BY Zenon, <1>3 DEF HasQty
<1>5. \A sd, l : /\ Top(b, sd, l) => Top(c, sd, l)
                 /\ NoneQuoted(b, sd) => NoneQuoted(c, sd)
  BY Zenon, <1>3, <1>4 DEF Top, NoneQuoted
<1>6. CacheTop(b, side) \/ ~CacheHit(b, side) => Cached(c, side)
  BY Zenon, <1>1, <1>2, <1>5 DEF Cached, CacheTop
<1>7. \A sd \in Sides : sd # side /\ Cached(b, sd) => Cached(c, sd)
  BY Zenon, <1>1, <1>5 DEF Cached, CacheTop
<1>8. \A sd \in Sides : sd # side => (CacheHit(c, sd) <=> CacheHit(b, sd))
  BY Zenon, <1>1, <1>4 DEF CacheHit
<1>9. \A sd \in Sides : sd # side /\ CacheTop(b, sd) => CacheTop(c, sd)
  BY Zenon, <1>1, <1>5 DEF CacheTop
<1> QED BY Zenon, <1>6, <1>7, <1>8, <1>9 DEF c

\* The free stack is in no other part of the invariant.
LEMMA FreeOnly ==
    ASSUME NEW b, NEW L, NEW E, BookInv(b, L, E), NEW c, SameBut(b, c, {"free"}),
           c.free \in Seq(Slots)
    PROVE  BookInv(c, L, E)
<1>0. /\ BookOK(b) /\ L \subseteq Slots /\ ListsInv(b, L) /\ OrdersInv(b, L) /\ LevelsInv(b, E)
  BY Zenon DEF BookInv
<1>1. /\ c.price = b.price /\ c.at = b.at /\ c.xid = b.xid /\ c.qty = b.qty
      /\ c.next = b.next /\ c.prev = b.prev /\ c.head = b.head /\ c.tail = b.tail
      /\ c.next_xid = b.next_xid /\ c.level_price = b.level_price
      /\ c.count = b.count /\ c.cnt = b.cnt /\ c.total = b.total /\ c.map = b.map
      /\ c.active = b.active /\ c.cid = b.cid /\ c.coid = b.coid /\ c.best = b.best
      /\ DOMAIN c = Fields
  BY DEF SameBut, Fields
<1>2. BookOK(c)
  BY Zenon, <1>0, <1>1 DEF BookOK
<1>3. OrdersInv(c, L) /\ LevelsInv(c, E)
  BY <1>0, <1>1 DEF OrdersInv, LevelsInv
<1>4. ListsInv(c, L)
  BY Zenon, <1>0, <1>1 DEF ListsInv
<1> QED BY Zenon, <1>0, <1>2, <1>3, <1>4 DEF BookInv

-----------------------------------------------------------------------------
(* Adding an order.                                                         *)

\* Slot s, in no list, holds the newest order.
Wrote(b, c, L, E, s, cid, coid, p, q) ==
    /\ BookInv(c, L, E)
    /\ SameBut(b, c, {"cid", "coid", "price", "qty", "at", "xid", "next", "prev",
                      "free", "next_xid"})
    /\ c.free = SubSeq(b.free, 1, Len(b.free) - 1)
    /\ SameOrders(b, c, L) /\ c.cid[s] = cid /\ c.coid[s] = coid /\ c.qty[s] = q
    /\ c.price[s] = p /\ c.next[s] = NULL /\ c.xid[s] < c.next_xid
    /\ \A t \in L : c.xid[t] < c.xid[s] /\ c.at[t] = b.at[t]

\* Writing a slot that is in no list leaves the book as it is.
LEMMA WriteKeeps ==
    ASSUME NEW b, NEW L, NEW E, BookInv(b, L, E), b.free # <<>>, NEW s \in Slots, s \notin L,
           NEW cid, NEW coid, NEW side \in Sides, NEW p \in Int, NEW q \in Int
    PROVE  Wrote(b, Written(b, s, cid, coid, side, p, q), L, E, s, cid, coid, p, q)
<1> DEFINE c == Written(b, s, cid, coid, side, p, q)
<1>0. /\ BookOK(b) /\ L \subseteq Slots /\ ListsInv(b, L)
      /\ OrdersInv(b, L) /\ LevelsInv(b, E) /\ DOMAIN b = Fields
  BY Zenon DEF BookInv, BookOK
<1>1. /\ b.price \in [Slots -> Int] /\ b.qty \in [Slots -> Int] /\ b.xid \in [Slots -> Int]
      /\ b.next_xid \in Int
  BY Zenon, <1>0 DEF BookOK
<1>a. /\ b.next \in [Slots -> Slots \cup {NULL}] /\ b.prev \in [Slots -> Slots \cup {NULL}]
      /\ b.at \in [Slots -> Levels]
  BY Zenon, <1>0 DEF BookOK
<1>b. b.free \in Seq(Slots) /\ DOMAIN b.cid = Slots /\ DOMAIN b.coid = Slots
  BY Zenon, <1>0 DEF BookOK
<1>2. c = [b EXCEPT !.free = SubSeq(b.free, 1, Len(b.free) - 1), !.next_xid = b.next_xid + 1,
                    !.cid = [b.cid EXCEPT ![s] = cid], !.coid = [b.coid EXCEPT ![s] = coid],
                    !.price = [b.price EXCEPT ![s] = p], !.qty = [b.qty EXCEPT ![s] = q],
                    !.at = [b.at EXCEPT ![s] = <<side, b.at[s][2]>>],
                    !.xid = [b.xid EXCEPT ![s] = b.next_xid],
                    !.next = [b.next EXCEPT ![s] = NULL], !.prev = [b.prev EXCEPT ![s] = NULL]]
  BY Zenon, <1>0 DEF Written, Fields
<1> HIDE DEF c
<1>3. /\ SameBut(b, c, {"cid", "coid", "price", "qty", "at", "xid", "next", "prev", "free",
                        "next_xid"})
      /\ c.free = SubSeq(b.free, 1, Len(b.free) - 1)
      /\ c.cid = [b.cid EXCEPT ![s] = cid] /\ c.coid = [b.coid EXCEPT ![s] = coid]
  BY Zenon, <1>0, <1>2 DEF Fields, SameBut
<1>c. /\ c.price = [b.price EXCEPT ![s] = p] /\ c.qty = [b.qty EXCEPT ![s] = q]
      /\ c.xid = [b.xid EXCEPT ![s] = b.next_xid] /\ c.next_xid = b.next_xid + 1
  BY Zenon, <1>0, <1>2 DEF Fields
<1>d. /\ c.next = [b.next EXCEPT ![s] = NULL] /\ c.prev = [b.prev EXCEPT ![s] = NULL]
      /\ c.at = [b.at EXCEPT ![s] = <<side, b.at[s][2]>>]
  BY Zenon, <1>0, <1>2 DEF Fields
<1>4. /\ c.head = b.head /\ c.tail = b.tail /\ c.level_price = b.level_price
      /\ c.count = b.count /\ c.cnt = b.cnt /\ c.total = b.total /\ c.map = b.map
      /\ c.active = b.active /\ c.best = b.best /\ DOMAIN c = Fields
  BY <1>3 DEF SameBut, Fields
<1>5. BookOK(c)
  <2>1. /\ c.price \in [Slots -> Int] /\ c.qty \in [Slots -> Int] /\ c.xid \in [Slots -> Int]
        /\ c.next_xid \in Int
    BY <1>1, <1>c
  <2>2. /\ c.next \in [Slots -> Slots \cup {NULL}] /\ c.prev \in [Slots -> Slots \cup {NULL}]
    BY <1>a, <1>d
  <2>3. c.at \in [Slots -> Levels]
    <3> <<side, b.at[s][2]>> \in Levels
      BY <1>a, LevelParts
    <3> QED BY Zenon, <1>a, <1>d
  <2>4. c.free \in Seq(Slots) /\ DOMAIN c.cid = Slots /\ DOMAIN c.coid = Slots
    <3>1. c.free \in Seq(Slots)
      BY <1>b, <1>3, TopType
    <3> QED BY Zenon, <1>b, <1>3, <3>1
  <2> QED BY Zenon, <1>0, <1>4, <2>1, <2>2, <2>3, <2>4 DEF BookOK
<1>6. \A t \in L : /\ c.price[t] = b.price[t] /\ c.qty[t] = b.qty[t] /\ c.at[t] = b.at[t]
                   /\ c.xid[t] = b.xid[t] /\ c.next[t] = b.next[t] /\ c.prev[t] = b.prev[t]
  <2> \A t \in L : t \in Slots /\ t # s
    BY <1>0
  <2> QED BY Zenon, <1>1, <1>a, <1>c, <1>d
<1>e. \A t \in L : b.xid[t] < b.next_xid /\ b.xid[t] \in Int
  BY <1>0, <1>1 DEF OrdersInv
<1>7. OrdersInv(c, L)
  <2> \A t \in L : c.xid[t] < c.next_xid
    BY <1>1, <1>c, <1>e, <1>6
  <2> QED BY <1>0, <1>4, <1>6 DEF OrdersInv
<1>8. ListsInv(c, L)
  <2>1. Lists(L, b.at, b.xid, b.next, b.prev, b.head, b.tail)
    BY <1>0 DEF ListsInv
  <2>2. \A j \in Levels : c.head[j] = b.head[j] /\ c.tail[j] = b.tail[j]
    BY <1>4
  <2>3. SameLinks(L, b.at, b.xid, b.next, b.prev, b.head, b.tail,
                  c.at, c.xid, c.next, c.prev, c.head, c.tail)
    BY Zenon, <1>6, <2>2 DEF SameLinks
  <2>4. Lists(L, c.at, c.xid, c.next, c.prev, c.head, c.tail)
    BY Zenon, <2>1, <2>3, ListSame
  <2> QED BY <2>4 DEF ListsInv
<1>10. LevelsInv(c, E)
  BY <1>0, <1>4 DEF LevelsInv
<1>11. c.price[s] = p /\ c.xid[s] = b.next_xid /\ c.qty[s] = q
  BY <1>1, <1>c
<1>f. c.next[s] = NULL
  BY Zenon, <1>a, <1>d
<1>g. c.cid[s] = cid /\ c.coid[s] = coid /\ SameOrders(b, c, L)
  <2>1. /\ c.cid[s] = cid /\ \A t \in L : c.cid[t] = b.cid[t]
        /\ c.coid[s] = coid /\ \A t \in L : c.coid[t] = b.coid[t]
    <3> \A t \in L : t \in Slots /\ t # s
      BY <1>0
    <3> QED BY <1>b, <1>3
  <2> QED BY Zenon, <1>6, <2>1 DEF SameOrders
<1>12. (\A t \in L : c.xid[t] < c.xid[s]) /\ c.xid[s] < c.next_xid
  <2> c.next_xid = b.next_xid + 1 /\ b.next_xid \in Int
    BY <1>1, <1>c
  <2> QED BY <1>e, <1>6, <1>11
<1>13. BookInv(c, L, E)
  BY Zenon, <1>0, <1>5, <1>7, <1>8, <1>10 DEF BookInv
<1> QED BY Zenon, <1>3, <1>6, <1>c, <1>f, <1>g, <1>11, <1>12, <1>13 DEF c, Wrote

\* Level l of a side is open for price p, maybe empty.
Opened(b, c, L, side, l, p) ==
    /\ BookInv(c, L, {<<side, l>>})
    /\ SameBut(b, c, {"level_price", "active", "count", "map"})
    /\ l \in Indices /\ c.active[<<side, l>>] /\ c.level_price[<<side, l>>] = p
    /\ \A j \in Levels : j # <<side, l>> => c.active[j] = b.active[j]
    /\ \A j \in Levels : b.active[j] => c.level_price[j] = b.level_price[j]

\* find_or_create gives an active level of the price; a level that it opens was unused and
\* is empty, so that lists and counters stay.
LEMMA OpenKeeps ==
    ASSUME NEW b, NEW L, BookInv(b, L, {}), EmptyAgree(b), NEW side \in Sides,
           NEW p \in Prices, find_or_create(b, side, p).idx # NULL
    PROVE  LET r == find_or_create(b, side, p) IN Opened(b, r.book, L, side, r.idx, p)
<1> DEFINE c == find_or_create(b, side, p).book
           l == find_or_create(b, side, p).idx
           k == <<side, l>>
           i == <<side, p>>
<1>0. /\ BookOK(b) /\ L \subseteq Slots /\ ListsInv(b, L)
      /\ OrdersInv(b, L) /\ LevelsInv(b, {}) /\ DOMAIN b = Fields
  BY Zenon DEF BookInv, BookOK
<1>1. b.count[side] \in Nat /\ b.count[side] + 1 \in Nat /\ NumLevels \in Nat /\ p \in Int
  BY <1>0, BookAssumption DEF BookOK, Prices
<1>a. /\ i \in Sides \X Prices /\ b.map \in [Sides \X Prices -> Indices \cup {NULL}]
      /\ b.map[i] \in Indices \cup {NULL}
  BY Zenon, <1>0 DEF BookOK
<1>b. b.level_price \in [Levels -> Int] /\ b.active \in [Levels -> BOOLEAN]
  BY Zenon, <1>0 DEF BookOK
<1>c. b.count \in [Sides -> Nat]
  BY Zenon, <1>0 DEF BookOK
<1>2. CASE b.map[i] # NULL /\ b.active[<<side, b.map[i]>>]
  <2>1. c = b /\ l = b.map[i]
    BY <1>2 DEF find_or_create
  <2> HIDE DEF c, l
  <2>2. l \in Indices /\ k \in Levels /\ b.active[k] /\ b.level_price[k] = p
    BY SMTT(60), <1>0, <1>a, <1>2, <2>1, LevelParts DEF LevelsInv
  <2>3. LevelsInv(b, {k})
    BY <1>0 DEF LevelsInv
  <2>4. BookInv(b, L, {k}) /\ SameBut(b, b, {"level_price", "active", "count", "map"})
    BY Zenon, <1>0, <2>3 DEF BookInv, SameBut
  <2> QED BY Zenon, <2>1, <2>2, <2>4 DEF c, l, Opened
<1>3. CASE ~(b.map[i] # NULL /\ b.active[<<side, b.map[i]>>])
  <2> DEFINE n == b.count[side]
  <2>1. n < NumLevels
    <3> SUFFICES ASSUME n >= NumLevels PROVE FALSE
      BY <1>1
    <3> find_or_create(b, side, p).idx = NULL
      BY <1>3 DEF find_or_create
    <3> QED OBVIOUS
  <2>2. /\ c = [b EXCEPT !.level_price[<<side, n>>] = p, !.total[<<side, n>>] = 0,
                         !.cnt[<<side, n>>] = 0, !.head[<<side, n>>] = NULL,
                         !.tail[<<side, n>>] = NULL, !.active[<<side, n>>] = TRUE,
                         !.count[side] = n + 1, !.map[i] = n]
        /\ l = n
    <3> ~(n >= NumLevels)
      BY <1>1, <2>1
    <3> QED BY Zenon, <1>3 DEF find_or_create
  <2>3. l \in Indices /\ k \in Levels
    BY <1>1, <2>1, <2>2, LevelParts DEF Indices
  <2> HIDE DEF c, l
  <2>4. c = [b EXCEPT !.level_price = [b.level_price EXCEPT ![k] = p],
                      !.total = [b.total EXCEPT ![k] = 0], !.cnt = [b.cnt EXCEPT ![k] = 0],
                      !.head = [b.head EXCEPT ![k] = NULL], !.tail = [b.tail EXCEPT ![k] = NULL],
                      !.active = [b.active EXCEPT ![k] = TRUE],
                      !.count = [b.count EXCEPT ![side] = l + 1],
                      !.map = [b.map EXCEPT ![i] = l]]
    BY Zenon, <1>0, <2>2 DEF Fields
  <2>5. ~b.active[k]
    <3>1. b.active[k] => k[2] < b.count[k[1]]
      BY Zenon, <1>0, <2>3 DEF LevelsInv
    <3>2. k[2] = b.count[k[1]] /\ k[2] \in Nat
      BY <1>1, <2>2
    <3> QED BY <3>1, <3>2
  <2>6. \A t \in L : b.at[t] # k
    BY <1>0, <2>5 DEF OrdersInv
  <2>7. b.head[k] = NULL /\ b.tail[k] = NULL /\ b.cnt[k] = 0 /\ b.total[k] = 0
    BY <1>0, <2>3, <2>6, EmptyList DEF EmptyAgree
  <2> HIDE DEF k, i
  <2>8. SameBut(b, c, {"level_price", "active", "count", "map", "total", "cnt", "head", "tail"})
    BY Zenon, <1>0, <2>4 DEF Fields, SameBut
  <2>y. /\ c.level_price = [b.level_price EXCEPT ![k] = p]
        /\ c.active = [b.active EXCEPT ![k] = TRUE] /\ c.map = [b.map EXCEPT ![i] = l]
    BY Zenon, <1>0, <2>4 DEF Fields
  <2>z. c.count = [b.count EXCEPT ![side] = l + 1]
    BY Zenon, <1>0, <2>4 DEF Fields
  <2>9. c.total = b.total /\ c.cnt = b.cnt /\ c.head = b.head /\ c.tail = b.tail
    <3>1. /\ c.total = [b.total EXCEPT ![k] = 0] /\ c.cnt = [b.cnt EXCEPT ![k] = 0]
          /\ c.head = [b.head EXCEPT ![k] = NULL] /\ c.tail = [b.tail EXCEPT ![k] = NULL]
      BY Zenon, <1>0, <2>4 DEF Fields
    <3>2. /\ b.total \in [Levels -> Int] /\ b.cnt \in [Levels -> Int]
          /\ b.head \in [Levels -> Slots \cup {NULL}] /\ b.tail \in [Levels -> Slots \cup {NULL}]
      BY Zenon, <1>0 DEF BookOK
    <3>3. /\ [b.total EXCEPT ![k] = 0] = b.total /\ [b.cnt EXCEPT ![k] = 0] = b.cnt
          /\ [b.head EXCEPT ![k] = NULL] = b.head /\ [b.tail EXCEPT ![k] = NULL] = b.tail
      BY Zenon, <2>7, <3>2
    <3> QED BY Zenon, <3>1, <3>2, <3>3
  <2>10. /\ c.price = b.price /\ c.at = b.at /\ c.xid = b.xid /\ c.qty = b.qty
         /\ c.next = b.next /\ c.prev = b.prev /\ c.next_xid = b.next_xid /\ c.free = b.free
         /\ c.best = b.best /\ c.cid = b.cid /\ c.coid = b.coid /\ DOMAIN c = Fields
    BY <2>8 DEF SameBut, Fields
  <2>11. SameBut(b, c, {"level_price", "active", "count", "map"})
    BY Zenon, <2>9, <2>10 DEF SameBut, Fields
  <2>12. /\ c.active[k] /\ c.level_price[k] = p /\ c.map[i] = l
         /\ \A j \in Levels : j # k => c.active[j] = b.active[j]
                                       /\ c.level_price[j] = b.level_price[j]
         /\ \A x \in Sides \X Prices : x # i => c.map[x] = b.map[x]
    BY Zenon, <1>a, <1>b, <2>3, <2>y
  <2>x. c.count[side] = l + 1 /\ \A sd \in Sides : sd # side => c.count[sd] = b.count[sd]
    BY Zenon, <1>c, <2>z
  <2>13. BookOK(c)
    <3>1. c.level_price \in [Levels -> Int] /\ c.active \in [Levels -> BOOLEAN]
      BY ZenonT(60), <1>1, <1>b, <2>y
    <3>2. c.map \in [Sides \X Prices -> Indices \cup {NULL}]
      BY Zenon, <1>a, <2>3, <2>y
    <3>3. c.count \in [Sides -> Nat]
      <4> l + 1 \in Nat
        BY SMTT(60), <1>1, <2>2
      <4> QED BY <1>c, <2>z
    <3> QED BY Zenon, <1>0, <2>9, <2>10, <3>1, <3>2, <3>3 DEF BookOK
  <2>14. OrdersInv(c, L)
    <3> \A t \in L : b.at[t] \in Levels /\ b.at[t] # k
      BY <1>0, <2>6 DEF BookOK
    <3> QED BY SMTT(60), <1>0, <2>10, <2>12 DEF OrdersInv
  <2>15. ListsInv(c, L)
    BY Zenon, <1>0, <2>9, <2>10 DEF ListsInv
  <2>16. \A j \in Levels : b.active[j] => j # k /\ <<j[1], b.level_price[j]>> # i
    <3> SUFFICES ASSUME NEW j \in Levels, b.active[j], <<j[1], b.level_price[j]>> = i
                 PROVE  FALSE
      BY Zenon, <2>5
    <3>1. b.map[i] = j[2] /\ j[1] = side /\ j[2] \in Indices /\ j = <<j[1], j[2]>>
      BY SMTT(60), <1>0, LevelParts DEF LevelsInv, i
    <3> QED BY <1>3, <3>1, NullNoSlot
  <2>17. ASSUME NEW sd \in Sides, NEW x \in Prices, c.map[<<sd, x>>] # NULL
         PROVE  LET j == <<sd, c.map[<<sd, x>>]>> IN c.active[j] /\ c.level_price[j] = x
    <3>1. CASE <<sd, x>> = i
      BY <2>12, <3>1 DEF i, k
    <3>2. CASE <<sd, x>> # i
      <4>1. c.map[<<sd, x>>] = b.map[<<sd, x>>] /\ b.map[<<sd, x>>] \in Indices
        BY Zenon, <1>a, <2>12, <2>17, <3>2
      <4> DEFINE j == <<sd, b.map[<<sd, x>>]>>
      <4>2. b.active[j] /\ b.level_price[j] = x /\ j \in Levels
        BY <1>0, <2>17, <4>1, LevelParts DEF LevelsInv
      <4> HIDE DEF j
      <4>3. j # k
        BY Zenon, <2>5, <4>2
      <4>4. c.active[j] /\ c.level_price[j] = x
        BY Zenon, <2>12, <4>2, <4>3
      <4> QED BY <4>1, <4>4 DEF j
    <3> QED BY <3>1, <3>2
  <2>18. ASSUME NEW j \in Levels, c.active[j]
         PROVE  /\ j[2] < c.count[j[1]] /\ c.level_price[j] \in Prices
                /\ c.map[<<j[1], c.level_price[j]>>] = j[2] /\ (j # k => c.head[j] # NULL)
    <3>1. CASE j = k
      <4> j[1] = side /\ j[2] = l
        BY SMTT(60), <3>1 DEF k
      <4>1. j[2] < c.count[j[1]]
        BY <1>1, <2>2, <2>x
      <4>2. c.level_price[j] = p /\ c.map[<<j[1], p>>] = j[2]
        BY Zenon, <2>12, <3>1 DEF i
      <4> QED BY Zenon, <3>1, <4>1, <4>2
    <3>2. CASE j # k
      <4>1. b.active[j] /\ c.level_price[j] = b.level_price[j] /\ c.head[j] = b.head[j]
        BY SMTT(60), <2>9, <2>12, <2>18, <3>2
      <4>2. /\ j[2] < b.count[j[1]] /\ b.level_price[j] \in Prices
            /\ b.map[<<j[1], b.level_price[j]>>] = j[2] /\ b.head[j] # NULL
        BY <1>0, <4>1 DEF LevelsInv
      <4>3. c.map[<<j[1], b.level_price[j]>>] = j[2]
        BY <2>12, <2>16, <4>1, <4>2, LevelParts
      <4>4. j[2] < c.count[j[1]]
        <5> j[1] \in Sides /\ j[2] \in Int
          BY SMTT(60), LevelParts DEF Indices
        <5>1. CASE j[1] = side
          BY <1>1, <2>2, <2>x, <4>2, <5>1
        <5>2. CASE j[1] # side
          BY <2>x, <4>2, <5>2
        <5> QED BY <5>1, <5>2
      <4> QED BY <4>1, <4>2, <4>3, <4>4
    <3> QED BY <3>1, <3>2
  <2>19. \A sd \in Sides : c.count[sd] <= NumLevels
    <3>1. \A sd \in Sides : b.count[sd] <= NumLevels
      BY Zenon, <1>0 DEF LevelsInv
    <3>2. c.count[side] <= NumLevels
      BY SMTT(60), <1>1, <2>1, <2>2, <2>x
    <3> QED BY Zenon, <2>x, <3>1, <3>2
  <2>20. \A sd \in Sides : c.best[sd] # NULL => c.active[<<sd, c.best[sd]>>]
    <3> \A sd \in Sides : b.best[sd] \in Indices \cup {NULL}
      BY <1>0 DEF BookOK
    <3> QED BY SMTT(60), <1>0, <2>10, <2>12, LevelParts DEF LevelsInv
  <2>21. LevelsInv(c, {k})
    BY Zenon, <2>17, <2>18, <2>19, <2>20 DEF LevelsInv
  <2>22. BookInv(c, L, {k})
    BY Zenon, <1>0, <2>13, <2>14, <2>15, <2>21 DEF BookInv
  <2> QED BY Zenon, <2>3, <2>11, <2>12, <2>16, <2>22 DEF c, l, k, Opened
<1> QED BY <1>2, <1>3


\* Slot s has joined the list of level l.
PutBehind(b, c, L, side, l, s) ==
    /\ BookInv(c, L \cup {s}, {}) /\ Follows(b, L, c, L \cup {s}, s)
    /\ SameBut(b, c, {"at", "prev", "next", "head", "tail", "total", "cnt", "best"})
    /\ \A j \in Levels : j # <<side, l>> => c.total[j] = b.total[j]
    /\ c.best[side] = update_best(b, side, l)
    /\ \A sd \in Sides : sd # side => c.best[sd] = b.best[sd]

\* A slot that is linked behind the tail of an active level becomes the last of its list;
\* the level is not empty any more and may become the cached one.
LEMMA LinkKeeps ==
    ASSUME NEW b, NEW L, NEW side \in Sides, NEW l \in Indices, BookInv(b, L, {<<side, l>>}),
           b.active[<<side, l>>], NEW s \in Slots, s \notin L, b.qty[s] > 0,
           b.price[s] = b.level_price[<<side, l>>], b.next[s] = NULL,
           b.xid[s] < b.next_xid, \A t \in L : b.xid[t] < b.xid[s]
    PROVE  PutBehind(b, Linked(b, side, l, s), L, side, l, s)
<1> DEFINE c == Linked(b, side, l, s)
           k == <<side, l>>
           t == b.tail[k]
           m == update_best(b, side, l)
<1>0. /\ BookOK(b) /\ L \subseteq Slots /\ ListsInv(b, L) /\ OrdersInv(b, L)
      /\ LevelsInv(b, {k}) /\ DOMAIN b = Fields /\ k \in Levels
      /\ b.active[k] /\ b.price[s] = b.level_price[k]
  BY Zenon, LevelParts DEF BookInv, BookOK
<1>1. /\ b.total \in [Levels -> Int] /\ b.cnt \in [Levels -> Int] /\ b.qty \in [Slots -> Int]
      /\ b.xid \in [Slots -> Int]
  BY Zenon, <1>0 DEF BookOK
<1>2. b.next \in [Slots -> Slots \cup {NULL}] /\ b.prev \in [Slots -> Slots \cup {NULL}]
  BY Zenon, <1>0 DEF BookOK
<1>a. b.head \in [Levels -> Slots \cup {NULL}] /\ b.tail \in [Levels -> Slots \cup {NULL}]
  BY Zenon, <1>0 DEF BookOK
<1>b. t \in Slots \cup {NULL} /\ s # NULL /\ s # t
  <2>1. t \in Slots \cup {NULL} /\ s # NULL
    BY Zenon, <1>0, <1>a, NullNoSlot
  <2>2. EndsOK(L, b.at, b.next, b.prev, b.head, b.tail, k)
    BY SMTT(60), <1>0 DEF ListsInv, Lists
  <2> QED BY <2>1, <2>2 DEF EndsOK
<1>c. t = NULL <=> b.head[k] = NULL
  <2>2. EndsOK(L, b.at, b.next, b.prev, b.head, b.tail, k) /\ NULL \notin L
    BY <1>0 DEF ListsInv, Lists
  <2> QED BY SMTT(60), <2>2 DEF EndsOK
<1>3. b.at \in [Slots -> Levels]
  BY Zenon, <1>0 DEF BookOK
<1>d. b.best \in [Sides -> Indices \cup {NULL}]
  BY Zenon, <1>0 DEF BookOK
<1>4. m \in Indices /\ b.active[<<side, m>>]
  BY <1>0, <1>d DEF update_best, LevelsInv
<1>5. c = [b EXCEPT !.at = [b.at EXCEPT ![s] = k], !.prev = [b.prev EXCEPT ![s] = t],
                    !.next = IF t = NULL THEN b.next ELSE [b.next EXCEPT ![t] = s],
                    !.head = [b.head EXCEPT ![k] = IF t = NULL THEN s ELSE @],
                    !.tail = [b.tail EXCEPT ![k] = s],
                    !.total = [b.total EXCEPT ![k] = @ + b.qty[s]],
                    !.cnt = [b.cnt EXCEPT ![k] = @ + 1],
                    !.best = [b.best EXCEPT ![side] = m]]
  BY Zenon, <1>0 DEF Linked, Fields
<1> HIDE DEF c, m, k
<1>6. SameBut(b, c, {"at", "prev", "next", "head", "tail", "total", "cnt", "best"})
  BY Zenon, <1>0, <1>5 DEF Fields, SameBut
<1>7. /\ c.total = [b.total EXCEPT ![k] = @ + b.qty[s]] /\ c.cnt = [b.cnt EXCEPT ![k] = @ + 1]
  BY Zenon, <1>0, <1>5 DEF Fields
<1>e. c.best = [b.best EXCEPT ![side] = m]
  BY Zenon, <1>0, <1>5 DEF Fields
<1>f. c.at = [b.at EXCEPT ![s] = k]
  BY Zenon, <1>0, <1>5 DEF Fields
<1>8. /\ c.prev = [b.prev EXCEPT ![s] = t]
      /\ c.next = IF t = NULL THEN b.next ELSE [b.next EXCEPT ![t] = s]
  BY Zenon, <1>0, <1>5 DEF Fields
<1>g. c.tail = [b.tail EXCEPT ![k] = s]
  BY Zenon, <1>0, <1>5 DEF Fields
<1>h. c.head = [b.head EXCEPT ![k] = IF t = NULL THEN s ELSE @]
  BY Zenon, <1>0, <1>5 DEF Fields
<1>9. /\ c.price = b.price /\ c.xid = b.xid /\ c.qty = b.qty /\ c.next_xid = b.next_xid
      /\ c.level_price = b.level_price /\ c.free = b.free /\ c.count = b.count
      /\ c.map = b.map /\ c.active = b.active /\ c.cid = b.cid /\ c.coid = b.coid
      /\ DOMAIN c = Fields
  BY SMTT(60), <1>6 DEF SameBut, Fields
<1> HIDE DEF t
<1>10. /\ c.total[k] = b.total[k] + b.qty[s] /\ c.cnt[k] = b.cnt[k] + 1
       /\ \A j \in Levels : j # k => c.total[j] = b.total[j] /\ c.cnt[j] = b.cnt[j]
  BY <1>0, <1>1, <1>7
<1>11. c.at[s] = k /\ c.at \in [Slots -> Levels] /\ \A u \in Slots : u # s => c.at[u] = b.at[u]
  <2> k \in Levels
    BY <1>0
  <2> QED BY <1>3, <1>f
<1>i. /\ c.tail[k] = s /\ c.tail \in [Levels -> Slots \cup {NULL}]
      /\ \A j \in Levels : j # k => c.tail[j] = b.tail[j]
  <2> s \in Slots \cup {NULL} /\ k \in Levels
    BY <1>0
  <2> QED BY <1>a, <1>g
<1>j. /\ c.head \in [Levels -> Slots \cup {NULL}] /\ c.head[k] # NULL
      /\ \A j \in Levels : /\ j = k /\ t = NULL => c.head[j] = s
                           /\ ~(j = k /\ t = NULL) => c.head[j] = b.head[j]
  <2>1. CASE t = NULL
    <3> c.head = [b.head EXCEPT ![k] = s]
      BY Zenon, <1>h, <2>1
    <3> s \in Slots \cup {NULL} /\ k \in Levels
      BY <1>0
    <3> QED BY <1>a, <1>b, <2>1
  <2>2. CASE t # NULL
    <3> c.head = b.head
      BY Zenon, <1>0, <1>a, <1>h, <2>2
    <3> QED BY Zenon, <1>0, <1>a, <1>c, <2>2
  <2> QED BY <2>1, <2>2
<1>k. /\ c.prev \in [Slots -> Slots \cup {NULL}] /\ c.prev[s] = t
      /\ \A u \in Slots : u # s => c.prev[u] = b.prev[u]
  <2> c.prev = [b.prev EXCEPT ![s] = t] /\ b.prev \in [Slots -> Slots \cup {NULL}]
    BY Zenon, <1>2, <1>8
  <2> QED BY <1>b
<1>l. /\ c.next \in [Slots -> Slots \cup {NULL}] /\ c.next[s] = NULL
      /\ \A u \in Slots : /\ u = t => c.next[u] = s
                          /\ u # t => c.next[u] = b.next[u]
  <2>1. CASE t = NULL
    <3> c.next = b.next
      BY Zenon, <1>8, <2>1
    <3> QED BY Zenon, <1>2, <1>b, <2>1, NullNoSlot
  <2>2. CASE t # NULL
    <3> c.next = [b.next EXCEPT ![t] = s]
      BY Zenon, <1>8, <2>2
    <3> s \in Slots \cup {NULL} /\ t \in Slots
      BY Zenon, <1>b, <2>2
    <3> b.next \in [Slots -> Slots \cup {NULL}]
      BY Zenon, <1>2
    <3> QED BY <1>b, <2>2
  <2> QED BY <2>1, <2>2
<1>12. \A u \in L : /\ c.at[u] = b.at[u] /\ c.prev[u] = b.prev[u]
                    /\ u = t => c.next[u] = s
                    /\ u # t => c.next[u] = b.next[u]
  <2>1. \A u \in L : u \in Slots /\ u # s
    BY <1>0
  <2> QED BY Zenon, <1>11, <1>k, <1>l, <2>1
<1>14. ListsInv(c, L \cup {s})
  <2>1. Lists(L, b.at, b.xid, b.next, b.prev, b.head, b.tail)
    BY <1>0 DEF ListsInv
  <2>2. \A u \in L : c.xid[u] = b.xid[u] /\ b.xid[u] < c.xid[s]
    BY SMTT(60), <1>9
  <2>3. c.at[s] \in Levels /\ c.xid[s] \in Int
    BY SMTT(60), <1>0, <1>1, <1>9, <1>11
  <2>4. PutLast(L, b.at, b.xid, b.next, b.prev, b.head, b.tail, s,
                c.at, c.xid, c.next, c.prev, c.head, c.tail)
    <3>1. c.at[s] = k /\ b.tail[k] = t /\ c.prev[s] = t /\ c.next[s] = NULL /\ c.tail[k] = s
      BY Zenon, <1>11, <1>i, <1>k, <1>l DEF t
    <3>2. \A j \in Levels : /\ j = k /\ b.tail[j] = NULL => c.head[j] = s
                            /\ ~(j = k /\ b.tail[j] = NULL) => c.head[j] = b.head[j]
                            /\ j = k => c.tail[j] = s
                            /\ j # k => c.tail[j] = b.tail[j]
      BY Zenon, <1>i, <1>j DEF t
    <3> QED BY <1>b, <1>12, <2>2, <2>3, <3>1, <3>2 DEF PutLast
  <2>5. Lists(L \cup {s}, c.at, c.xid, c.next, c.prev, c.head, c.tail)
    BY Zenon, <2>1, <2>4, ListAppend
  <2> QED BY <2>5 DEF ListsInv
<1>15. BookOK(c)
  <2>1. c.total \in [Levels -> Int] /\ c.cnt \in [Levels -> Int]
    BY <1>0, <1>1, <1>7
  <2>2. c.best \in [Sides -> Indices \cup {NULL}]
    BY Zenon, <1>4, <1>d, <1>e
  <2>3. c.at \in [Slots -> Levels] /\ c.tail \in [Levels -> Slots \cup {NULL}]
    BY Zenon, <1>11, <1>i
  <2>4. c.head \in [Levels -> Slots \cup {NULL}]
    BY Zenon, <1>j
  <2>5. c.prev \in [Slots -> Slots \cup {NULL}] /\ c.next \in [Slots -> Slots \cup {NULL}]
    BY ZenonT(60), <1>k, <1>l
  <2> QED BY ZenonT(60), <1>0, <1>9, <2>1, <2>2, <2>3, <2>4, <2>5 DEF BookOK
<1>16. OrdersInv(c, L \cup {s})
  BY SMTT(60), <1>0, <1>9, <1>11, <1>12 DEF OrdersInv
<1>17. LevelsInv(c, {})
  <2>1. \A sd \in Sides : c.best[sd] # NULL => c.active[<<sd, c.best[sd]>>]
    BY <1>0, <1>4, <1>9, <1>d, <1>e DEF LevelsInv
  <2>2. \A j \in Levels : b.active[j] => c.head[j] # NULL
    <3> \A j \in Levels : b.active[j] /\ j # k => b.head[j] # NULL
      BY Zenon, <1>0 DEF LevelsInv
    <3> QED BY Zenon, <1>j
  <2> QED BY SMTT(60), <1>0, <1>9, <2>1, <2>2 DEF LevelsInv
<1>18. Follows(b, L, c, L \cup {s}, s)
  <2>1. \A j \in Levels : /\ ~Here(L, b.at, s, j)
                          /\ Here(L \cup {s}, c.at, s, j) <=> j = k
    BY SMTT(60), <1>11 DEF Here
  <2>2. (L \cup {s}) \ {s} = L \ {s} /\ c.qty[s] \in Int /\ c.qty[s] = b.qty[s]
    BY SMTT(60), <1>1, <1>9
  <2>3. \A u \in L \ {s} : c.at[u] = b.at[u] /\ c.qty[u] = b.qty[u]
    BY <1>9, <1>12
  <2> QED BY Zenon, <1>10, <2>1, <2>2, <2>3 DEF Counted, Follows
<1>19. BookInv(c, L \cup {s}, {})
  <2> L \cup {s} \subseteq Slots
    BY <1>0
  <2> QED BY Zenon, <1>14, <1>15, <1>16, <1>17 DEF BookInv
<1>20. c.best[side] = m /\ \A sd \in Sides : sd # side => c.best[sd] = b.best[sd]
  BY <1>d, <1>e
<1> QED BY Zenon, <1>6, <1>10, <1>18, <1>19, <1>20 DEF c, m, k, PutBehind

\* The levels with quantity of c are those of b, but for a level of a side with price p.
MoreQuotes(b, c, side, p) ==
    \A j \in Levels : HasQty(c, j) => \/ HasQty(b, j) /\ c.level_price[j] = b.level_price[j]
                                      \/ j[1] = side /\ c.level_price[j] = p

\* Level l, of price p, gets quantity, and the cache is updated for it.
GetsQty(b, c, side, l, p) ==
    /\ \A j \in Levels : b.level_price[j] \in Int /\ c.level_price[j] \in Int
    /\ \A sd \in Sides : b.best[sd] \in Indices \cup {NULL}
    /\ \A sd \in Sides : b.best[sd] # NULL =>
         c.level_price[<<sd, b.best[sd]>>] = b.level_price[<<sd, b.best[sd]>>]
    /\ \A j \in Levels : HasQty(c, j) /\ j # <<side, l>> =>
         HasQty(b, j) /\ c.level_price[j] = b.level_price[j]
    /\ c.level_price[<<side, l>>] = p
    /\ \A sd \in Sides : sd # side => c.best[sd] = b.best[sd]
    /\ b.best[side] = NULL => c.best[side] = l
    /\ b.best[side] # NULL =>
         /\ Better(side, p, c.level_price[<<side, b.best[side]>>]) => c.best[side] = l
         /\ ~Better(side, p, c.level_price[<<side, b.best[side]>>]) =>
              c.best[side] = b.best[side]

\* update_best keeps the cache right when level l, of price p, gets quantity.
LEMMA CacheAfterAdd ==
    ASSUME NEW b, NEW c, NEW side \in Sides, NEW l \in Indices, NEW p \in Int,
           GetsQty(b, c, side, l, p),
           NEW sd \in Sides, Cached(b, sd)
    PROVE  Cached(c, sd)
<1> USE DEF GetsQty
<1>0. /\ \A side2 \in Sides, m \in Indices : <<side2, m>> \in Levels
      /\ \A m \in Indices : <<sd, m>> = <<side, l>> <=> sd = side /\ m = l
  BY LevelParts
<1>1. CASE sd # side
  <2>1. \A m \in Indices : HasQty(c, <<sd, m>>) =>
          HasQty(b, <<sd, m>>) /\ c.level_price[<<sd, m>>] = b.level_price[<<sd, m>>]
    BY Zenon, <1>0, <1>1
  <2> QED BY Zenon, <1>1, <2>1 DEF Cached, CacheTop, Top, NoneQuoted
<1>2. CASE sd = side /\ b.best[side] = NULL
  <2>1. c.best[side] = l /\ l # NULL
    BY <1>2, NullNoSlot
  <2>2. \A m \in Indices : HasQty(c, <<sd, m>>) => m = l
    BY Zenon, <1>0, <1>2 DEF Cached, NoneQuoted
  <2>3. ~Better(side, p, p)
    BY SMTT(60) DEF Better
  <2> QED BY Zenon, <1>2, <2>1, <2>2, <2>3 DEF Cached, CacheTop, Top
<1>3. CASE sd = side /\ b.best[side] # NULL
  <2> DEFINE o == c.level_price[<<side, b.best[side]>>]
  <2>1. o \in Int /\ o = b.level_price[<<side, b.best[side]>>] /\ l # NULL
    BY Zenon, <1>0, <1>3, NullNoSlot
  <2>2. ASSUME NEW m \in Indices, HasQty(c, <<side, m>>), m # l
        PROVE  c.level_price[<<side, m>>] \in Int /\ ~Better(side, c.level_price[<<side, m>>], o)
    <3>1. HasQty(b, <<side, m>>) /\ c.level_price[<<side, m>>] = b.level_price[<<side, m>>]
      BY Zenon, <1>0, <1>3, <2>2
    <3> QED BY Zenon, <1>0, <1>3, <2>1, <3>1 DEF Cached, CacheTop, Top
  <2>3. CASE Better(side, p, o)
    <3>1. c.best[side] = l
      BY Zenon, <1>3, <2>3
    <3>2. ASSUME NEW m \in Indices, HasQty(c, <<side, m>>)
          PROVE  ~Better(side, c.level_price[<<side, m>>], p)
      BY <2>1, <2>2, <2>3, <3>2 DEF Better
    <3> QED BY Zenon, <1>3, <2>1, <3>1, <3>2 DEF Cached, CacheTop, Top
  <2>4. CASE ~Better(side, p, o)
    <3>1. c.best[side] = b.best[side]
      BY Zenon, <1>3, <2>4
    <3>2. ASSUME NEW m \in Indices, HasQty(c, <<side, m>>)
          PROVE  ~Better(side, c.level_price[<<side, m>>], o)
      BY ZenonT(60), <2>2, <2>4, <3>2
    <3> QED BY Zenon, <1>3, <3>1, <3>2 DEF Cached, CacheTop, Top
  <2> QED BY <2>3, <2>4
<1> QED BY Zenon, <1>1, <1>2, <1>3

\* What an add leaves, whether the order rests (in slot s) or finds no slot or no level.
Added(b, c, s, cid, coid, side, p, q) ==
    /\ BookInv(c, Live(c), {}) /\ IsInjective(c.free)
    /\ \E t : Follows(b, Live(b), c, Live(c), t)
    /\ MoreQuotes(b, c, side, p) /\ SameOrders(b, c, Live(b))
    /\ \A sd \in Sides : Cached(b, sd) => Cached(c, sd)
    /\ s = NULL => Live(c) = Live(b)
    /\ s # NULL => /\ s \in Slots \ Live(b) /\ Live(c) = Live(b) \cup {s}
                   /\ c.cid[s] = cid /\ c.coid[s] = coid /\ c.qty[s] = q

\* An order without a slot or a level leaves the resting orders as they are.
LEMMA AddFails ==
    ASSUME NEW b, BookInv(b, Live(b), {}), IsInjective(b.free), EmptyAgree(b),
           NEW cid, NEW coid, NEW side \in Sides, NEW p \in Prices, NEW q \in Nat \ {0},
           add_order(b, cid, coid, side, p, q).idx = NULL
    PROVE  Added(b, add_order(b, cid, coid, side, p, q).book, NULL, cid, coid, side, p, q)
<1> DEFINE L == Live(b)
           s == b.free[Len(b.free)]
           w == Written(b, s, cid, coid, side, p, q)
           c == add_order(b, cid, coid, side, p, q).book
<1>1. CASE b.free = <<>>
  <2>1. c = b
    BY <1>1 DEF add_order
  <2>2. MoreQuotes(b, b, side, p) /\ SameOrders(b, b, L)
    BY ZenonT(60) DEF MoreQuotes, SameOrders
  <2>3. Follows(b, L, b, L, NULL)
    BY NullNoSlot DEF Follows, Counted, Here, Live
  <2> QED BY ZenonT(60), <2>1, <2>2, <2>3 DEF Added
<1>2. CASE b.free # <<>>
  <2>1. b.free \in Seq(Slots)
    BY DEF BookInv, BookOK
  <2>2. /\ s \in Slots /\ s \in Range(b.free) /\ s \notin L
        /\ SubSeq(b.free, 1, Len(b.free) - 1) \in Seq(Slots)
        /\ IsInjective(SubSeq(b.free, 1, Len(b.free) - 1))
        /\ Range(SubSeq(b.free, 1, Len(b.free) - 1)) = Range(b.free) \ {s}
    BY Zenon, <1>2, <2>1, Popped DEF Live
  <2>3. p \in Int /\ q \in Int
    BY DEF Prices
  <2>4. /\ BookInv(w, L, {}) /\ w.free = SubSeq(b.free, 1, Len(b.free) - 1)
        /\ SameBut(b, w, {"cid", "coid", "price", "qty", "at", "xid", "next", "prev",
                          "free", "next_xid"})
        /\ SameOrders(b, w, L) /\ \A t \in L : w.at[t] = b.at[t]
    <3> HIDE DEF s, L
    <3> BookInv(b, L, {})
      BY DEF L
    <3>1. Wrote(b, w, L, {}, s, cid, coid, p, q)
      BY Zenon, <1>2, <2>2, <2>3, WriteKeeps
    <3> QED BY Zenon, <3>1 DEF Wrote
  <2>5. c = [w EXCEPT !.free = Append(w.free, s)]
    <3> s # NULL
      BY <2>2, NullNoSlot
    <3> QED BY <1>2 DEF add_order, Free
  <2> HIDE DEF w, c, s
  <2>6. DOMAIN w = Fields
    BY Zenon, <2>4 DEF BookInv, BookOK
  <2>7. SameBut(w, c, {"free"}) /\ c.free = Append(w.free, s)
    BY Zenon, <2>5, <2>6 DEF SameBut, Fields
  <2>8. /\ IsInjective(c.free) /\ Range(c.free) = Range(b.free) /\ c.free \in Seq(Slots)
    <3> /\ s \notin Range(w.free) /\ w.free \in Seq(Slots) /\ IsInjective(w.free)
        /\ s \in Slots
      BY Zenon, <2>2, <2>4
    <3>1. Range(c.free) = Range(w.free) \cup {s} /\ IsInjective(c.free)
      <4> /\ Range(Append(w.free, s)) = Range(w.free) \cup {s}
          /\ IsInjective(Append(w.free, s))
        BY SMTT(60), Pushed
      <4> QED BY Zenon, <2>7
    <3>2. c.free \in Seq(Slots)
      BY <2>2, <2>7
    <3> QED BY <2>2, <2>4, <3>1, <3>2
  <2>9. Live(c) = L
    BY Zenon, <2>8 DEF Live
  <2>10. BookInv(c, L, {})
    BY Zenon, <2>4, <2>7, <2>8, FreeOnly
  <2>11. /\ c.active = b.active /\ c.total = b.total /\ c.level_price = b.level_price
         /\ c.best = b.best /\ c.cnt = b.cnt
    BY <2>4, <2>7 DEF SameBut, Fields
  <2>12. c.cid = w.cid /\ c.coid = w.coid /\ c.qty = w.qty /\ c.at = w.at
    BY <2>7 DEF SameBut, Fields
  <2>14. SameOrders(b, c, L)
    BY Zenon, <2>4, <2>12 DEF SameOrders
  <2>15. Follows(b, L, c, L, s)
    <3> \A j \in Levels : ~Here(L, b.at, s, j) /\ ~Here(L, c.at, s, j)
      BY Zenon, <2>2 DEF Here
    <3> \A t \in L : c.at[t] = b.at[t] /\ c.qty[t] = b.qty[t]
      BY Zenon, <2>4, <2>12, <2>14 DEF SameOrders
    <3> QED BY Zenon, <2>2, <2>11 DEF Follows, Counted
  <2>16. MoreQuotes(b, c, side, p)
    BY Zenon, <2>11 DEF MoreQuotes, HasQty
  <2>17. \A sd \in Sides : Cached(b, sd) => Cached(c, sd)
    BY Zenon, <2>11 DEF Cached, CacheTop, Top, NoneQuoted, HasQty
  <2> QED BY Zenon, <2>8, <2>9, <2>10, <2>14, <2>15, <2>16, <2>17 DEF Added, c
<1> QED BY <1>1, <1>2

\* An order that finds a slot and a level rests there, as the last.
LEMMA AddRests ==
    ASSUME NEW b, BookInv(b, Live(b), {}), IsInjective(b.free), EmptyAgree(b),
           NEW cid, NEW coid, NEW side \in Sides, NEW p \in Prices, NEW q \in Nat \ {0},
           add_order(b, cid, coid, side, p, q).idx # NULL
    PROVE  LET r == add_order(b, cid, coid, side, p, q)
           IN Added(b, r.book, r.idx, cid, coid, side, p, q)
<1> DEFINE L == Live(b)
           s == b.free[Len(b.free)]
           w == Written(b, s, cid, coid, side, p, q)
           m == find_or_create(w, side, p).book
           l == find_or_create(w, side, p).idx
           k == <<side, l>>
           c == Linked(m, side, l, s)
<1>0. b.free # <<>> /\ l # NULL
  BY SMTT(60) DEF add_order
<1>1. add_order(b, cid, coid, side, p, q) = [book |-> c, idx |-> s]
  BY Zenon, <1>0 DEF add_order
<1>2. /\ s \in Slots /\ s \notin L /\ L \subseteq Slots
      /\ IsInjective(SubSeq(b.free, 1, Len(b.free) - 1))
      /\ Range(SubSeq(b.free, 1, Len(b.free) - 1)) = Range(b.free) \ {s}
      /\ s \in Range(b.free)
  <2> b.free \in Seq(Slots)
    BY DEF BookInv, BookOK
  <2> QED BY Zenon, <1>0, Popped DEF Live
<1>3. p \in Int /\ q \in Int /\ q > 0 /\ BookInv(b, L, {})
  BY DEF Prices
<1> HIDE DEF s, L
<1>4. /\ BookInv(w, L, {}) /\ w.free = SubSeq(b.free, 1, Len(b.free) - 1)
      /\ SameBut(b, w, {"cid", "coid", "price", "qty", "at", "xid", "next", "prev",
                        "free", "next_xid"})
      /\ SameOrders(b, w, L) /\ w.cid[s] = cid /\ w.coid[s] = coid /\ w.qty[s] = q
      /\ w.price[s] = p /\ w.next[s] = NULL /\ w.xid[s] < w.next_xid
      /\ \A t \in L : w.xid[t] < w.xid[s] /\ w.at[t] = b.at[t]
  <2>1. Wrote(b, w, L, {}, s, cid, coid, p, q)
    BY ZenonT(60), <1>0, <1>2, <1>3, WriteKeeps
  <2> HIDE DEF w
  <2> QED BY Zenon, <2>1 DEF Wrote
<1>5. /\ w.active = b.active /\ w.total = b.total /\ w.level_price = b.level_price
      /\ w.best = b.best /\ w.cnt = b.cnt /\ w.head = b.head
  BY Zenon, <1>4 DEF SameBut, Fields
<1>6. EmptyAgree(w)
  BY Zenon, <1>5 DEF EmptyAgree
<1> HIDE DEF w
<1>7. /\ BookInv(m, L, {k}) /\ SameBut(w, m, {"level_price", "active", "count", "map"})
      /\ l \in Indices /\ m.active[k] /\ m.level_price[k] = p
      /\ \A j \in Levels : j # k => m.active[j] = w.active[j]
      /\ \A j \in Levels : w.active[j] => m.level_price[j] = w.level_price[j]
  <2>1. Opened(w, m, L, side, l, p)
    BY ZenonT(60), <1>0, <1>4, <1>6, OpenKeeps
  <2> HIDE DEF m, l
  <2> QED BY Zenon, <2>1 DEF Opened
<1> HIDE DEF m, l
<1>8. /\ m.qty = w.qty /\ m.price = w.price /\ m.next = w.next /\ m.xid = w.xid
      /\ m.next_xid = w.next_xid /\ m.total = w.total /\ m.best = w.best /\ m.free = w.free
      /\ m.cid = w.cid /\ m.coid = w.coid /\ m.at = w.at /\ m.cnt = w.cnt
  BY ZenonT(60), <1>7 DEF SameBut, Fields
<1>9. /\ m.qty[s] > 0 /\ m.price[s] = m.level_price[k] /\ m.next[s] = NULL
      /\ m.xid[s] < m.next_xid /\ \A t \in L : m.xid[t] < m.xid[s]
  BY Zenon, <1>3, <1>4, <1>7, <1>8
<1>10. /\ BookInv(c, L \cup {s}, {}) /\ Follows(m, L, c, L \cup {s}, s)
       /\ SameBut(m, c, {"at", "prev", "next", "head", "tail", "total", "cnt", "best"})
       /\ \A j \in Levels : j # k => c.total[j] = m.total[j]
       /\ c.best[side] = update_best(m, side, l)
       /\ \A sd \in Sides : sd # side => c.best[sd] = m.best[sd]
  <2>1. PutBehind(m, c, L, side, l, s)
    BY Zenon, <1>2, <1>7, <1>9, LinkKeeps
  <2> HIDE DEF c
  <2> QED BY Zenon, <2>1 DEF PutBehind
<1> HIDE DEF c
<1>11. /\ c.cid = m.cid /\ c.coid = m.coid /\ c.qty = m.qty /\ c.free = m.free
       /\ c.level_price = m.level_price /\ c.active = m.active
  BY SMTT(60), <1>10 DEF SameBut, Fields
<1>12. Live(c) = L \cup {s} /\ IsInjective(c.free)
  <2>1. c.free = SubSeq(b.free, 1, Len(b.free) - 1)
    BY Zenon, <1>4, <1>8, <1>11
  <2>2. Range(c.free) = Range(b.free) \ {s} /\ IsInjective(c.free)
    BY Zenon, <1>2, <2>1
  <2> QED BY <1>2, <2>2 DEF Live, L
<1>13. SameOrders(b, c, L) /\ c.cid[s] = cid /\ c.coid[s] = coid /\ c.qty[s] = q
  <2> c.cid = w.cid /\ c.coid = w.coid /\ c.qty = w.qty
    BY Zenon, <1>8, <1>11
  <2> QED BY Zenon, <1>4 DEF SameOrders
<1>14. Follows(b, L, c, L \cup {s}, s)
  <2>1. /\ \A j \in Levels : Here(L, b.at, s, j) <=> Here(L, m.at, s, j)
        /\ \A t \in L \ {s} : m.at[t] = b.at[t] /\ m.qty[t] = b.qty[t]
        /\ \A j \in Levels : m.cnt[j] = b.cnt[j] /\ m.total[j] = b.total[j]
    <3>1. /\ m.at = w.at /\ m.qty = w.qty /\ m.cnt = b.cnt /\ m.total = b.total
      BY Zenon, <1>5, <1>8
    <3>2. \A t \in L : w.at[t] = b.at[t] /\ w.qty[t] = b.qty[t]
      BY Zenon, <1>4 DEF SameOrders
    <3> QED BY Zenon, <1>2, <3>1, <3>2 DEF Here
  <2>2. \A j \in Levels : ~Here(L, b.at, s, j)
    BY Zenon, <1>2 DEF Here
  <2>3. Follows(m, L, c, L \cup {s}, s)
    BY Zenon, <1>10
  <2> QED BY ZenonT(60), <2>1, <2>2, <2>3 DEF Follows, Counted
<1>15a. \A j \in Levels : b.active[j] => c.level_price[j] = b.level_price[j]
  <2>1. /\ c.level_price = m.level_price /\ w.active = b.active
        /\ w.level_price = b.level_price
    BY Zenon, <1>5, <1>11
  <2>2. \A j \in Levels : w.active[j] => m.level_price[j] = w.level_price[j]
    BY Zenon, <1>7
  <2> QED BY Zenon, <2>1, <2>2
<1>15. \A j \in Levels : HasQty(c, j) /\ j # k =>
                         HasQty(b, j) /\ c.level_price[j] = b.level_price[j]
  <2>1. \A j \in Levels : j # k => c.active[j] = b.active[j] /\ c.total[j] = b.total[j]
    <3>1. c.active = m.active /\ w.active = b.active /\ m.total = b.total
      BY Zenon, <1>5, <1>8, <1>11
    <3>2. \A j \in Levels : j # k => m.active[j] = w.active[j] /\ c.total[j] = m.total[j]
      BY Zenon, <1>7, <1>10
    <3> HIDE DEF k
    <3> QED BY Zenon, <3>1, <3>2
  <2> HIDE DEF k
  <2> QED BY Zenon, <1>15a, <2>1 DEF HasQty
<1>16. MoreQuotes(b, c, side, p)
  <2> k[1] = side /\ c.level_price[k] = p
    BY <1>7, <1>11
  <2> HIDE DEF k
  <2> QED BY Zenon, <1>15 DEF MoreQuotes
<1>17. \A sd \in Sides : Cached(b, sd) => Cached(c, sd)
  <2>1. \A j \in Levels : b.level_price[j] \in Int /\ c.level_price[j] \in Int
    <3> b.level_price \in [Levels -> Int] /\ c.level_price \in [Levels -> Int]
      BY ZenonT(60), <1>3, <1>10 DEF BookInv, BookOK
    <3> QED OBVIOUS
  <2>2. /\ \A sd \in Sides : b.best[sd] \in Indices \cup {NULL}
        /\ b.best \in [Sides -> Indices \cup {NULL}]
    BY ZenonT(60), <1>3 DEF BookInv, BookOK
  <2>3. ASSUME NEW sd \in Sides, b.best[sd] # NULL
        PROVE  c.level_price[<<sd, b.best[sd]>>] = b.level_price[<<sd, b.best[sd]>>]
    <3>1. b.active[<<sd, b.best[sd]>>] /\ <<sd, b.best[sd]>> \in Levels
      BY <1>3, <2>2, <2>3, LevelParts DEF BookInv, LevelsInv
    <3> QED BY Zenon, <1>15a, <3>1
  <2>4. c.level_price[<<side, l>>] = p
    BY Zenon, <1>7, <1>11
  <2>6. /\ c.best[side] = update_best(m, side, l)
        /\ \A sd \in Sides : sd # side => c.best[sd] = b.best[sd]
    <3> m.best = b.best
      BY Zenon, <1>5, <1>8
    <3> QED BY Zenon, <1>10
  <2>7. m.best[side] = b.best[side] /\ m.level_price = c.level_price
    BY Zenon, <1>5, <1>8, <1>11
  <2>8. /\ b.best[side] = NULL => c.best[side] = l
        /\ b.best[side] # NULL =>
             /\ Better(side, p, c.level_price[<<side, b.best[side]>>]) => c.best[side] = l
             /\ ~Better(side, p, c.level_price[<<side, b.best[side]>>]) =>
                  c.best[side] = b.best[side]
    BY Zenon, <2>4, <2>6, <2>7 DEF update_best
  <2>9. GetsQty(b, c, side, l, p)
    BY Zenon, <1>15, <2>1, <2>2, <2>3, <2>4, <2>6, <2>8 DEF GetsQty
  <2>10. l \in Indices
    BY <1>7
  <2> QED BY Zenon, <1>3, <2>9, <2>10, CacheAfterAdd
<1>18. Added(b, c, s, cid, coid, side, p, q)
  <2> s # NULL
    BY <1>2, NullNoSlot
  <2> QED BY Zenon, <1>2, <1>10, <1>12, <1>13, <1>14, <1>16, <1>17 DEF Added, L
<1>19. /\ add_order(b, cid, coid, side, p, q).book = c
       /\ add_order(b, cid, coid, side, p, q).idx = s
  BY <1>1
<1> QED BY Zenon, <1>18, <1>19

\* Slot s, with older orders old and newer ones new on its level k, is in its place.
InPlace(b, k, s, old, new) ==
    /\ old = {} <=> b.head[k] = s
    /\ new = {} <=> b.tail[k] = s
    /\ old = {} <=> b.prev[s] = NULL
    /\ new = {} <=> b.next[s] = NULL
    /\ \A t \in new : (\A u \in new : b.xid[t] <= b.xid[u])
                        <=> (b.next[s] = t /\ b.prev[t] = s)

\* The neighbours and the ends of the lists are what Sound says of them.
LEMMA ListsInOrder ==
    ASSUME NEW b, NEW L, ListsInv(b, L), NEW k \in Levels, NEW on, on = {u \in L : b.at[u] = k},
           NEW s \in on, NEW old, old = {u \in on : b.xid[u] < b.xid[s]},
           NEW new, new = {u \in on : b.xid[u] > b.xid[s]}
    PROVE  InPlace(b, k, s, old, new)
<1>1. /\ NULL \notin L /\ \A t \in L : b.xid[t] \in Int
      /\ \A t, u \in L : b.xid[t] = b.xid[u] => t = u
      /\ PrevOK(L, b.at, b.xid, b.next, b.prev, b.head, s)
      /\ NextOK(L, b.at, b.xid, b.next, b.prev, b.tail, s)
      /\ EndsOK(L, b.at, b.next, b.prev, b.head, b.tail, k) /\ s \in L /\ b.at[s] = k
  BY SMTT(60) DEF ListsInv, Lists
<1>2. /\ \A t : t \in old <=> Older(L, b.at, b.xid, t, s)
      /\ \A t : t \in new <=> Older(L, b.at, b.xid, s, t)
  BY <1>1 DEF Older
<1>3. old = {} <=> b.prev[s] = NULL
  BY Zenon, <1>1, <1>2 DEF PrevOK, Older
<1>4. new = {} <=> b.next[s] = NULL
  BY Zenon, <1>1, <1>2 DEF NextOK, Older
<1>5. b.prev[s] = NULL <=> b.head[k] = s
  BY Zenon, <1>1 DEF PrevOK, EndsOK
<1>6. b.next[s] = NULL <=> b.tail[k] = s
  BY Zenon, <1>1 DEF NextOK, EndsOK
<1>7. ASSUME NEW t \in new
      PROVE  (\A u \in new : b.xid[t] <= b.xid[u]) <=> (b.next[s] = t /\ b.prev[t] = s)
  <2> DEFINE n == b.next[s]
  <2>1. n # NULL /\ n \in new /\ n \in L /\ t \in L /\ b.prev[n] = s
    BY Zenon, <1>1, <1>2, <1>7 DEF NextOK, Older
  <2>2. \A u \in new : u \in L /\ b.xid[u] >= b.xid[n]
    BY Zenon, <1>1, <1>2 DEF NextOK, Older
  <2> HIDE DEF n
  <2>3. b.xid[n] \in Int /\ b.xid[t] \in Int /\ \A u \in new : b.xid[u] \in Int
    BY Zenon, <1>1, <2>1, <2>2
  <2>4. ASSUME \A u \in new : b.xid[t] <= b.xid[u] PROVE n = t
    <3> b.xid[t] <= b.xid[n] /\ b.xid[t] >= b.xid[n]
      BY Zenon, <1>7, <2>1, <2>2, <2>4
    <3> b.xid[t] = b.xid[n]
      BY <2>3
    <3> QED BY Zenon, <1>1, <2>1
  <2>5. ASSUME n = t PROVE \A u \in new : b.xid[t] <= b.xid[u]
    BY <2>2, <2>3, <2>5
  <2> QED BY Zenon, <2>1, <2>4, <2>5 DEF n
<1> QED BY Zenon, <1>3, <1>4, <1>5, <1>6, <1>7 DEF InPlace

\* What the lists say, with the counters and the free stack, is that the book is sound.
LEMMA BookIsSound ==
    ASSUME NEW b, BookInv(b, Live(b), {}), IsInjective(b.free),
           \A k \in Levels : /\ b.cnt[k] = Cardinality(Resting(b, k))
                             /\ b.total[k] = SumFunctionOnSet(b.qty, Resting(b, k))
    PROVE  Sound(b)
<1> DEFINE L == Live(b)
<1>1. /\ OrdersInv(b, L) /\ ListsInv(b, L) /\ LevelsInv(b, {})
  BY Zenon DEF BookInv
<1>2. \A s \in L : b.qty[s] > 0
  BY Zenon, <1>1 DEF OrdersInv
<1>3. ASSUME NEW k \in Levels
      PROVE  LET on == Resting(b, k)
                 older(s) == {t \in on : b.xid[t] < b.xid[s]}
                 newer(s) == {t \in on : b.xid[t] > b.xid[s]}
             IN /\ b.active[k] <=> on # {}
                /\ on = {} => b.head[k] = NULL /\ b.tail[k] = NULL
                /\ b.active[k] => b.map[<<k[1], b.level_price[k]>>] = k[2]
                /\ \A s \in on :
                     /\ b.price[s] = b.level_price[k]
                     /\ older(s) = {} <=> b.head[k] = s
                     /\ newer(s) = {} <=> b.tail[k] = s
                     /\ older(s) = {} <=> b.prev[s] = NULL
                     /\ newer(s) = {} <=> b.next[s] = NULL
                     /\ \A t \in newer(s) : (\A u \in newer(s) : b.xid[t] <= b.xid[u])
                                              <=> (b.next[s] = t /\ b.prev[t] = s)
  <2> DEFINE on == Resting(b, k)
             older(s) == {t \in on : b.xid[t] < b.xid[s]}
             newer(s) == {t \in on : b.xid[t] > b.xid[s]}
  <2>1. on = {u \in L : b.at[u] = k}
    BY Zenon DEF Resting
  <2>2. on = {} <=> b.head[k] = NULL
    <3> HIDE DEF L, on
    <3> b.head[k] = NULL <=> \A s \in L : b.at[s] # k
      BY <1>1, EmptyList
    <3> QED BY SMTT(60), <2>1
  <2>3. b.head[k] = NULL => b.tail[k] = NULL
    BY Zenon, <1>1, EmptyList
  <2> HIDE DEF L, on
  <2>4. \A s \in on : s \in L /\ b.at[s] = k
    BY Zenon, <2>1
  <2>5. \A s \in on : b.price[s] = b.level_price[k] /\ b.active[k]
    <3> TAKE s \in on
    <3>1. b.active[b.at[s]] /\ b.level_price[b.at[s]] = b.price[s] /\ b.at[s] = k
      BY Zenon, <1>1, <2>4 DEF OrdersInv
    <3> QED BY <3>1
  <2>6. b.active[k] => b.head[k] # NULL /\ b.map[<<k[1], b.level_price[k]>>] = k[2]
    BY Zenon, <1>1 DEF LevelsInv
  <2>7. ASSUME NEW s \in on
        PROVE  /\ older(s) = {} <=> b.head[k] = s
               /\ newer(s) = {} <=> b.tail[k] = s
               /\ older(s) = {} <=> b.prev[s] = NULL
               /\ newer(s) = {} <=> b.next[s] = NULL
               /\ \A t \in newer(s) : (\A u \in newer(s) : b.xid[t] <= b.xid[u])
                                        <=> (b.next[s] = t /\ b.prev[t] = s)
    <3> DEFINE O == older(s)
               N == newer(s)
    <3>1. O = {u \in on : b.xid[u] < b.xid[s]} /\ N = {u \in on : b.xid[u] > b.xid[s]}
      OBVIOUS
    <3> HIDE DEF O, N
    <3>2. InPlace(b, k, s, O, N)
      BY Zenon, <1>1, <2>1, <3>1, ListsInOrder
    <3> QED BY Zenon, <3>2 DEF InPlace, O, N
  <2> QED BY Zenon, <2>2, <2>3, <2>5, <2>6, <2>7 DEF on
<1> QED BY ZenonT(60), <1>2, <1>3 DEF Sound

=============================================================================
