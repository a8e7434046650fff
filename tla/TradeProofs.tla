----------------------------- MODULE TradeProofs -----------------------------
(***************************************************************************)
(* Proofs about Trade, for any goods and owners.                           *)
(*                                                                         *)
(* The exchange is not synchronized with anything.  That it moves no good  *)
(* twice rests on the handshake before it: it happens once, both players   *)
(* having confirmed, and what each receives is the other's (Ownership).    *)
(* Cancelling happens inside the monitor, and the trade that it looks for  *)
(* there is gone once it has happened (CancelledOnce).                     *)
(*                                                                         *)
(* That no good is lost either takes more: where the goods of each player  *)
(* are at every stage of the thread that settles the trade (Stage).  It is *)
(* said of those offered in time and not refused, while both players stay  *)
(* and no cancel is ended by an exception.                                 *)
(***************************************************************************)
EXTENDS Trade, TLAPS, FiniteSetTheorems, SequenceTheorems

Stages == {"idle", "addMeso", "addItem", "removeItem", "confirm", "fetch", "check", "clear",
           "deliver", "forget", "close", "cancel", "refund", "empty", "closeBoth"}

Own(c) == {g \in Goods : Owner[g] = c}

-----------------------------------------------------------------------------
(* The inductive invariant.                                                *)

\* The thread has both characters before it, c first, or only c.
Both(t, c) == th[t].todo = <<c, Partner(c)>>
Last(t, c) == th[t].todo = <<c>>

\* Inside the monitor.
Cancelling(t) == th[t].pc \in {"refund", "empty", "closeBoth"}

\* Between the handshake and the last thing it hands over.
Exchanging(c) == th[c].pc \in {"fetch", "check", "clear", "deliver", "forget"}

\* A thread that deals with a character has one before it.
FitsAt(t) ==
    /\ th[t].pc \in {"fetch", "clear", "deliver", "forget", "close", "refund", "empty"}
          => \E c \in Traders : Both(t, c) \/ Last(t, c)
    /\ th[t].pc = "cancel" => \E c \in Traders : Last(t, c)

TodoFits == \A t \in Threads : FitsAt(t)

\* The monitor holds the thread that cancels.
MonitorHeld ==
    /\ \A t \in Threads : Cancelling(t) <=> t \in monitor
    /\ \A t, u \in monitor : t = u

TInv == TypeOK /\ TodoFits /\ MonitorHeld

\* A half holds goods of its player, who receives goods of the other; and what
\* is in an inventory without having been handed over is its player's own.
Ownership ==
    \A c \in Traders :
        /\ items[c] \subseteq Own(c) /\ exchangeItems[c] \subseteq Own(Partner(c))
        /\ th[c].good \subseteq Own(c)
        /\ th[c].pc = "addMeso" => th[c].seen \subseteq Own(c)
        /\ \A g \in inventory[c] : deliveries[g] = 0 => g \in Own(c)

\* Nothing of what d may receive has been handed over, or of its own given back,
\* except what is in seen.
UndeliveredBut(d, seen) == \A g \in Own(Partner(d)) \ seen : deliveries[g] = 0
UnrefundedBut(d, seen)  == \A g \in Own(d) \ seen : refunds[g] = 0
Undelivered(d) == UndeliveredBut(d, {})
Unrefunded(d)  == UnrefundedBut(d, {})

\* What the thread that exchanges has not handed over yet.
ExchangeAt(c) ==
    /\ th[c].pc \in {"fetch", "check"} => \A d \in Traders : Undelivered(d)
    /\ th[c].pc = "clear" =>
          \A d \in Traders : /\ Both(c, d) => Undelivered(d) /\ Undelivered(Partner(d))
                             /\ Last(c, d) => Undelivered(d)
    /\ th[c].pc = "deliver" =>
          /\ th[c].seen \subseteq Items
          /\ \A d \in Traders :
                /\ Both(c, d) \/ Last(c, d) => UndeliveredBut(d, th[c].seen)
                /\ Both(c, d) => Undelivered(Partner(d))
    /\ th[c].pc = "forget" => \A d \in Traders : Both(c, d) => Undelivered(Partner(d))

\* One thread exchanges, once, and deals with each character once.
ExchangedOnce ==
    /\ locked # Traders => \A d \in Traders : Undelivered(d)
    /\ \A c \in Traders : Exchanging(c) =>
          locked = Traders /\ ~Exchanging(Partner(c)) /\ ExchangeAt(c)

\* What the thread that cancels has not given back yet.
CancelAt(t) ==
    /\ th[t].pc = "refund" =>
          /\ th[t].seen \subseteq Items
          /\ \A d \in Traders :
                /\ Both(t, d) \/ Last(t, d) => UnrefundedBut(d, th[t].seen)
                /\ Both(t, d) => Unrefunded(Partner(d))
    /\ th[t].pc = "empty" => \A d \in Traders : Both(t, d) => Unrefunded(Partner(d))

\* As long as no exception ends a cancel, one thread cancels, once, and deals
\* with each character once.
CancelledOnce ==
    ~torn =>
        /\ monitor = {} /\ open # {} => \A d \in Traders : Unrefunded(d)
        /\ \A t \in Threads : CancelAt(t)

\* On the way to giving the goods back, or there.
Leaving(t) == th[t].pc = "cancel" \/ Cancelling(t)

\* While both stay, a trade is only cancelled by the thread that was to make the
\* exchange, which then does not.
CancelledInstead ==
    ~departed =>
        /\ \A t \in Threads : Leaving(t) =>
              /\ t \in Traders /\ locked = Traders
              /\ \A d \in Traders : Undelivered(d) /\ ~Exchanging(d)
        /\ (\E g \in Goods : refunds[g] > 0) =>
              /\ locked = Traders
              /\ \A d \in Traders : Undelivered(d) /\ ~Exchanging(d)

SInv == TInv /\ Ownership /\ ExchangedOnce /\ CancelledOnce /\ SettledOnce /\ CancelledInstead

-----------------------------------------------------------------------------
(* Where the steps of a thread take it.                                    *)

LEMMA Partners ==
  \A c \in Traders : Partner(c) \in Traders /\ Partner(c) # c /\ Partner(Partner(c)) = c
                     /\ Traders = {c, Partner(c)}
BY TradeAssumption DEF Partner, Traders

LEMMA OwnSides ==
  /\ \A c \in Traders : Own(c) \subseteq Goods /\ Own(c) \intersect Own(Partner(c)) = {}
  /\ \A g \in Goods : Owner[g] \in Traders /\ g \in Own(Owner[g])
BY Partners, TradeAssumption DEF Own

LEMMA TradersAreThreads ==
  Traders \subseteq Threads /\ Threads = Traders \union {Warper} /\ Warper \notin Traders
BY TradeAssumption DEF Threads

\* Only the thread of t moves.
Moves(t) == th' \in [Threads -> ThreadRecord] /\ \A u \in Threads \ {t} : th'[u] = th[u]

\* It comes to pc, with the characters of todo before it.
Comes(t, pc, todo) ==
    Moves(t) /\ th'[t].pc = pc /\ th'[t].todo = todo /\ th'[t].good = {} /\ th'[t].seen = {}

LEMMA Todos ==
  ASSUME NEW c \in Traders, NEW d \in Traders
  PROVE  /\ <<c, d>> \in Seq(Traders) /\ <<c>> \in Seq(Traders) /\ <<>> \in Seq(Traders)
         /\ Head(<<c, d>>) = c /\ Tail(<<c, d>>) = <<d>> /\ Len(<<c, d>>) = 2
         /\ Head(<<c>>) = c /\ Len(<<c>>) = 1
         /\ <<c, d>> # <<c>> /\ <<c, d>> # <<d>>
OBVIOUS

LEMMA StartComes ==
  ASSUME TypeOK, NEW t \in Threads, NEW pc \in Stages, NEW todo \in Seq(Traders),
         Start(t, pc, todo)
  PROVE  Comes(t, pc, todo)
<1> DEFINE new == [Idle EXCEPT !.pc = pc, !.todo = todo]
<1>1. th' = [th EXCEPT ![t] = new]
  BY DEF Start
<1>2. new \in ThreadRecord /\ new.pc = pc /\ new.todo = todo /\ new.good = {} /\ new.seen = {}
  BY DEF Idle, ThreadRecord, Stages
<1> HIDE DEF new
<1> QED BY <1>1, <1>2 DEF Comes, Moves, TypeOK

LEMMA DoneComes ==
  ASSUME TypeOK, NEW t \in Threads, Done(t)
  PROVE  Comes(t, "idle", <<>>)
<1>1. /\ Idle \in ThreadRecord /\ Idle.pc = "idle" /\ Idle.todo = <<>>
      /\ Idle.good = {} /\ Idle.seen = {}
  BY DEF Idle, ThreadRecord
<1> HIDE DEF Idle
<1> QED BY <1>1 DEF Done, Comes, Moves, TypeOK

LEMMA GoMoves ==
  ASSUME TypeOK, NEW t \in Threads, NEW pc \in Stages, Go(t, pc)
  PROVE  Moves(t) /\ th'[t].pc = pc /\ th'[t].todo = th[t].todo /\ th'[t].good = th[t].good
<1>1. th[t] \in ThreadRecord
  BY DEF TypeOK
<1> QED BY <1>1 DEF Go, Moves, TypeOK, ThreadRecord, Stages

LEMMA SawMoves ==
  ASSUME TypeOK, NEW t \in Threads, NEW g \in Goods, Saw(t, g)
  PROVE  /\ Moves(t) /\ th'[t].pc = th[t].pc /\ th'[t].todo = th[t].todo
         /\ th'[t].good = th[t].good /\ th'[t].seen = th[t].seen \union {g}
<1>1. th[t] \in ThreadRecord
  BY DEF TypeOK
<1> QED BY <1>1 DEF Saw, Moves, TypeOK, ThreadRecord

LEMMA TurnComes ==
  ASSUME TypeOK, NEW t \in Threads, NEW c \in Traders, NEW again \in Stages, NEW after \in Stages,
         NEW todo \in Seq(Traders), NextTurn(t, again, after, todo)
  PROVE  /\ Both(t, c) => Turn(t) = c /\ Comes(t, again, <<Partner(c)>>)
         /\ Last(t, c) => Turn(t) = c /\ Comes(t, after, todo)
<1>1. ASSUME Both(t, c) PROVE Turn(t) = c /\ Comes(t, again, <<Partner(c)>>)
  <2>1. /\ Head(th[t].todo) = c /\ Tail(th[t].todo) = <<Partner(c)>> /\ Len(th[t].todo) = 2
        /\ <<Partner(c)>> \in Seq(Traders)
    BY <1>1, Todos, Partners DEF Both
  <2>2. Start(t, again, Tail(th[t].todo))
    <3>1. Len(th[t].todo) > 1
      BY <2>1
    <3> QED BY <3>1 DEF NextTurn
  <2>3. Comes(t, again, Tail(th[t].todo))
    BY <2>1, <2>2, StartComes
  <2> QED BY <2>1, <2>3 DEF Turn, Comes
<1>2. ASSUME Last(t, c) PROVE Turn(t) = c /\ Comes(t, after, todo)
  <2>1. Head(th[t].todo) = c /\ Len(th[t].todo) = 1
    BY <1>2, Todos DEF Last
  <2>2. Start(t, after, todo)
    BY <2>1 DEF NextTurn
  <2> QED BY <2>1, <2>2, StartComes DEF Turn
<1> QED BY <1>1, <1>2

\* The character that a thread deals with.
LEMMA Turns ==
  ASSUME TInv, NEW t \in Threads,
         th[t].pc \in {"fetch", "clear", "deliver", "forget", "close", "refund", "empty", "cancel"}
  PROVE  \E c \in Traders : Turn(t) = c /\ (Both(t, c) \/ Last(t, c))
<1>1. PICK c \in Traders : Both(t, c) \/ Last(t, c)
  BY DEF TInv, TodoFits, FitsAt
<1>2. Turn(t) = c
  BY <1>1, Todos, Partners DEF Both, Last, Turn
<1> QED BY <1>1, <1>2

-----------------------------------------------------------------------------
(* The types.                                                              *)

LEMMA AtMostOne ==
  ASSUME NEW S, \A x, y \in S : x = y
  PROVE  Cardinality(S) <= 1
<1>1. CASE S = {}
  BY <1>1, FS_EmptySet
<1>2. ASSUME NEW x \in S PROVE Cardinality(S) <= 1
  <2>1. S = {x}
    OBVIOUS
  <2> QED BY <2>1, FS_Singleton
<1> QED BY <1>1, <1>2

\* What a step may leave behind of the other variables.
OthersTyped ==
    /\ inventory' \in [Traders -> SUBSET Goods]
    /\ items' \in [Traders -> SUBSET Goods]
    /\ exchangeItems' \in [Traders -> SUBSET Goods]
    /\ locked' \subseteq Traders /\ open' \subseteq Traders
    /\ refunds' \in [Goods -> 0..2] /\ deliveries' \in [Goods -> 0..2]
    /\ stale' \subseteq Threads /\ late' \subseteq Goods /\ refused' \subseteq Goods
    /\ departed' \in BOOLEAN /\ torn' \in BOOLEAN

LEMMA TypedStep ==
  ASSUME TInv, NEW t \in Threads, Moves(t), OthersTyped, FitsAt(t)',
         \/ monitor' = monitor /\ (Cancelling(t)' <=> Cancelling(t))
         \/ monitor = {} /\ monitor' = {t} /\ Cancelling(t)'
         \/ monitor' = monitor \ {t} /\ ~Cancelling(t)'
  PROVE  TInv'
<1>1. TodoFits'
  <2>1. ASSUME NEW u \in Threads \ {t} PROVE FitsAt(u)'
    BY DEF TInv, TodoFits, FitsAt, Moves, Both, Last
  <2> QED BY <2>1 DEF TodoFits
<1>2. MonitorHeld'
  <2>1. \A u \in Threads \ {t} : Cancelling(u)' <=> Cancelling(u)
    BY DEF Cancelling, Moves
  <2> QED BY <2>1 DEF TInv, MonitorHeld
<1>3. monitor' \subseteq Threads
  BY DEF TInv, TypeOK
<1>4. Cardinality(monitor') <= 1
  BY <1>2, AtMostOne DEF MonitorHeld
<1>5. TypeOK'
  BY <1>3, <1>4 DEF OthersTyped, Moves, TypeOK
<1> QED BY <1>1, <1>2, <1>5 DEF TInv

\* A step outside the monitor comes to a place that needs nobody to deal with ...
LEMMA TypedPlain ==
  ASSUME TInv, NEW t \in Threads, Moves(t), OthersTyped, monitor' = monitor, ~Cancelling(t),
         th'[t].pc \in {"idle", "addMeso", "addItem", "removeItem", "confirm", "check"}
  PROVE  TInv'
<1>1. FitsAt(t)' /\ ~Cancelling(t)'
  BY DEF FitsAt, Cancelling
<1> QED BY <1>1, TypedStep

\* ... or has them before it.
LEMMA TypedTurn ==
  ASSUME TInv, NEW t \in Threads, Moves(t), OthersTyped, monitor' = monitor,
         NEW c \in Traders, th'[t].todo = <<c>> \/ th'[t].todo = <<c, Partner(c)>>,
         \/ ~Cancelling(t) /\ th'[t].pc \in {"fetch", "clear", "deliver", "forget", "close"}
         \/ Cancelling(t) /\ th'[t].pc \in {"refund", "empty", "closeBoth"}
  PROVE  TInv'
<1>1. FitsAt(t)'
  BY DEF FitsAt, Both, Last
<1>2. Cancelling(t)' <=> Cancelling(t)
  BY DEF Cancelling
<1> QED BY <1>1, <1>2, TypedStep

LEMMA Counts ==
  ASSUME NEW h \in [Goods -> 0..2], NEW S
  PROVE  /\ Count(h, S) \in [Goods -> 0..2]
         /\ \A g \in Goods \ S : Count(h, S)[g] = h[g]
         /\ \A g \in Goods : h[g] = 0 => Count(h, S)[g] <= 1
         /\ \A g \in Goods : Count(h, S)[g] = 0 => h[g] = 0 /\ g \notin S
BY DEF Count

LEMMA Typed ==
  TInv => /\ inventory \in [Traders -> SUBSET Goods]
          /\ items \in [Traders -> SUBSET Goods]
          /\ exchangeItems \in [Traders -> SUBSET Goods]
          /\ locked \subseteq Traders /\ open \subseteq Traders
          /\ refunds \in [Goods -> 0..2] /\ deliveries \in [Goods -> 0..2]
          /\ stale \subseteq Threads /\ late \subseteq Goods /\ refused \subseteq Goods
          /\ departed \in BOOLEAN /\ torn \in BOOLEAN
          /\ \A t \in Threads : th[t] \in ThreadRecord
BY DEF TInv, TypeOK

-----------------------------------------------------------------------------
(* Where each action takes its thread.                                     *)

\* The thread deals with d and goes on to pc.
TurnGoes(t, d, pc) ==
    Turn(t) = d /\ (Both(t, d) \/ Last(t, d)) /\ Comes(t, pc, th[t].todo)

\* The thread is through with one more item of d.
TurnSees(t, d, g) ==
    /\ Turn(t) = d /\ (Both(t, d) \/ Last(t, d))
    /\ Moves(t) /\ th'[t].pc = th[t].pc /\ th'[t].todo = th[t].todo /\ th'[t].good = th[t].good
    /\ th'[t].seen = th[t].seen \union {g}

\* The thread is done with d, the first or the last.
TurnPasses(t, d, again, after, todo) ==
    /\ Turn(t) = d
    /\ \/ Both(t, d) /\ Comes(t, again, <<Partner(d)>>)
       \/ Last(t, d) /\ Comes(t, after, todo)

LEMMA TurnForms ==
  ASSUME TInv, NEW t \in Threads,
         th[t].pc \in {"fetch", "clear", "deliver", "forget", "close", "refund", "empty", "cancel"}
  PROVE  /\ \A pc \in Stages : Start(t, pc, th[t].todo) => \E d \in Traders : TurnGoes(t, d, pc)
         /\ \A g \in Goods : Saw(t, g) => \E d \in Traders : TurnSees(t, d, g)
         /\ \A again, after \in Stages, todo \in Seq(Traders) :
               NextTurn(t, again, after, todo)
                   => \E d \in Traders : TurnPasses(t, d, again, after, todo)
<1>1. PICK d \in Traders : Turn(t) = d /\ (Both(t, d) \/ Last(t, d))
  BY Turns
<1>2. ASSUME NEW pc \in Stages, Start(t, pc, th[t].todo) PROVE TurnGoes(t, d, pc)
  <2>1. th[t].todo \in Seq(Traders) /\ TypeOK
    BY DEF TInv, TypeOK, ThreadRecord
  <2> QED BY <1>1, <1>2, <2>1, StartComes DEF TurnGoes
<1>3. ASSUME NEW g \in Goods, Saw(t, g) PROVE TurnSees(t, d, g)
  BY <1>1, <1>3, SawMoves DEF TurnSees, TInv
<1>4. ASSUME NEW again \in Stages, NEW after \in Stages, NEW todo \in Seq(Traders),
             NextTurn(t, again, after, todo)
      PROVE  TurnPasses(t, d, again, after, todo)
  BY <1>1, <1>4, TurnComes DEF TurnPasses, TInv
<1> QED BY <1>2, <1>3, <1>4

LEMMA GoodMoves ==
  ASSUME TInv, NEW c \in Traders, NEW g \in Goods, NEW pc \in Stages, NEW seen \in SUBSET Goods,
         th' = [th EXCEPT ![c] = [Idle EXCEPT !.pc = pc, !.good = {g}, !.seen = seen]]
  PROVE  Moves(c) /\ th'[c].pc = pc /\ th'[c].good = {g} /\ th'[c].seen = seen
<1> DEFINE goods == {g}
           new   == [Idle EXCEPT !.pc = pc, !.good = goods, !.seen = seen]
<1>1. goods \in SUBSET Goods
  OBVIOUS
<1>2. Idle \in ThreadRecord
  BY DEF Idle, ThreadRecord
<1> HIDE DEF goods, Idle
<1>3. new \in ThreadRecord /\ new.pc = pc /\ new.good = goods /\ new.seen = seen
  BY <1>1, <1>2 DEF ThreadRecord, Stages
<1>4. th' = [th EXCEPT ![c] = new]
  BY DEF goods
<1> HIDE DEF new
<1> QED BY <1>3, <1>4, TradersAreThreads DEF Moves, TInv, TypeOK, goods

LEMMA MoveSteps ==
  ASSUME TInv, NEW c \in Traders
  PROVE  /\ \A g \in Goods : SetMeso(c, g) =>
               /\ Moves(c) /\ th'[c].pc = "addMeso" /\ th'[c].good = {g}
               /\ th'[c].seen = items[c] \intersect Mesos
         /\ \A g \in Goods : SetItem(c, g) =>
               Moves(c) /\ th'[c].pc = "addItem" /\ th'[c].good = {g}
         /\ AddMeso(c)     => Comes(c, "idle", <<>>)
         /\ AddItem(c)     => \/ Comes(c, "idle", <<>>)
                              \/ Moves(c) /\ th'[c].pc = "removeItem" /\ th'[c].good = th[c].good
         /\ RemoveItem(c)  => Comes(c, "idle", <<>>)
         /\ CallConfirm(c) => Comes(c, "confirm", <<>>)
<1>1. c \in Threads /\ <<>> \in Seq(Traders) /\ TypeOK /\ {"addMeso", "addItem", "removeItem"} \subseteq Stages
  BY TradersAreThreads DEF TInv, Stages
<1>2. ASSUME NEW g \in Goods, SetMeso(c, g)
      PROVE  /\ Moves(c) /\ th'[c].pc = "addMeso" /\ th'[c].good = {g}
             /\ th'[c].seen = items[c] \intersect Mesos
  <2>1. items[c] \intersect Mesos \in SUBSET Goods
    BY DEF Goods
  <2> QED BY <1>1, <1>2, <2>1, GoodMoves DEF SetMeso
<1>3. ASSUME NEW g \in Goods, SetItem(c, g)
      PROVE  Moves(c) /\ th'[c].pc = "addItem" /\ th'[c].good = {g}
  <2> DEFINE goods == {g}
             new   == [Idle EXCEPT !.pc = "addItem", !.good = goods]
  <2>1. goods \in SUBSET Goods /\ Idle \in ThreadRecord
    BY DEF Idle, ThreadRecord
  <2>2. th' = [th EXCEPT ![c] = new]
    BY <1>3 DEF SetItem
  <2> HIDE DEF goods
  <2>3. new \in ThreadRecord /\ new.pc = "addItem" /\ new.good = goods
    BY <2>1 DEF ThreadRecord, Idle
  <2> HIDE DEF new
  <2> QED BY <1>1, <2>2, <2>3 DEF Moves, TypeOK, goods
<1>4. (AddMeso(c) => Comes(c, "idle", <<>>)) /\ (RemoveItem(c) => Comes(c, "idle", <<>>))
  BY <1>1, DoneComes DEF AddMeso, RemoveItem
<1>5. AddItem(c) => \/ Comes(c, "idle", <<>>)
                    \/ Moves(c) /\ th'[c].pc = "removeItem" /\ th'[c].good = th[c].good
  BY <1>1, DoneComes, GoMoves DEF AddItem
<1>6. CallConfirm(c) => Comes(c, "confirm", <<>>)
  BY <1>1, StartComes DEF CallConfirm, Stages
<1> QED BY <1>2, <1>3, <1>4, <1>5, <1>6

\* The second step of moving an item succeeds or is refused.
LEMMA AddItemForms ==
  ASSUME TInv, NEW c \in Traders, AddItem(c)
  PROVE  /\ th[c].pc = "addItem"
         /\ UNCHANGED <<inventory, exchangeItems, locked, open, monitor, refunds, deliveries,
                        refused, departed, torn>>
         /\ \/ /\ Comes(c, "idle", <<>>) /\ UNCHANGED <<items, late, stale>>
            \/ /\ Moves(c) /\ th'[c].pc = "removeItem" /\ th'[c].good = th[c].good
               /\ items' = [items EXCEPT ![c] = @ \union th[c].good]
               /\ late' = IF c \in locked THEN late \union th[c].good ELSE late
               /\ stale' = stale \union Walkers(c)
<1>1. c \in Threads /\ TypeOK /\ "removeItem" \in Stages
  BY TradersAreThreads DEF TInv, Stages
<1> QED BY <1>1, DoneComes, GoMoves DEF AddItem, At

LEMMA ExchangeSteps ==
  ASSUME TInv, NEW c \in Traders
  PROVE  /\ Handshake(c) => \/ /\ Comes(c, "fetch", <<c, Partner(c)>>)
                               /\ c \notin locked /\ Partner(c) \in locked
                            \/ Comes(c, "idle", <<>>)
         /\ Fetch(c)      => \E d \in Traders : TurnPasses(c, d, "fetch", "check", <<>>)
         /\ CheckFits(c)  => Comes(c, "clear", <<c, Partner(c)>>)
         /\ CheckFails(c) => \/ \E d \in Traders : Comes(c, "cancel", <<d>>)
                             \/ Comes(c, "idle", <<>>)
         /\ ClearHalf(c)  => \E d \in Traders : TurnGoes(c, d, "deliver")
         /\ \A g \in Items : DeliverItem(c, g) => \E d \in Traders : TurnSees(c, d, g)
         /\ DeliverMesos(c) => \E d \in Traders : TurnGoes(c, d, "forget")
         /\ ExchangeThrows(c) => Comes(c, "idle", <<>>)
         /\ Forget(c)     => \E d \in Traders :
                                TurnPasses(c, d, "clear", "close", <<Partner(c), c>>)
         /\ Close(c)      => \E d \in Traders : TurnPasses(c, d, "close", "idle", <<>>)
<1>1. c \in Threads /\ Partner(c) \in Traders /\ TypeOK
  BY TradersAreThreads, Partners DEF TInv
<1>2. /\ <<c, Partner(c)>> \in Seq(Traders) /\ <<Partner(c), c>> \in Seq(Traders)
      /\ <<>> \in Seq(Traders) /\ \A d \in Traders : <<d>> \in Seq(Traders)
  BY <1>1, Todos
<1>3. /\ Done(c) => Comes(c, "idle", <<>>)
      /\ \A pc \in Stages, todo \in Seq(Traders) : Start(c, pc, todo) => Comes(c, pc, todo)
  BY <1>1, DoneComes, StartComes
<1>4. /\ {"fetch", "check", "clear", "deliver", "forget", "close", "idle", "cancel"} \subseteq Stages
  BY DEF Stages
<1>5. Handshake(c) => \/ /\ Comes(c, "fetch", <<c, Partner(c)>>)
                         /\ c \notin locked /\ Partner(c) \in locked
                      \/ Comes(c, "idle", <<>>)
  BY <1>2, <1>3, <1>4 DEF Handshake
<1>6. CheckFits(c) => Comes(c, "clear", <<c, Partner(c)>>)
  BY <1>2, <1>3, <1>4 DEF CheckFits
<1>7. CheckFails(c) => (\E d \in Traders : Comes(c, "cancel", <<d>>)) \/ Comes(c, "idle", <<>>)
  BY <1>2, <1>3, <1>4 DEF CheckFails
<1>8. Fetch(c) => \E d \in Traders : TurnPasses(c, d, "fetch", "check", <<>>)
  BY <1>1, <1>2, <1>4, TurnForms DEF Fetch, At
<1>9. /\ ClearHalf(c)    => \E d \in Traders : TurnGoes(c, d, "deliver")
      /\ DeliverMesos(c) => \E d \in Traders : TurnGoes(c, d, "forget")
  BY <1>1, <1>4, TurnForms DEF ClearHalf, DeliverMesos, At
<1>10. Forget(c) => \E d \in Traders : TurnPasses(c, d, "clear", "close", <<Partner(c), c>>)
  BY <1>1, <1>2, <1>4, TurnForms DEF Forget, At
<1>11. Close(c) => \E d \in Traders : TurnPasses(c, d, "close", "idle", <<>>)
  BY <1>1, <1>2, <1>4, TurnForms DEF Close, At
<1>12. \A g \in Items : DeliverItem(c, g) => \E d \in Traders : TurnSees(c, d, g)
  BY <1>1, TurnForms DEF DeliverItem, At, Goods
<1>13. ExchangeThrows(c) => Comes(c, "idle", <<>>)
  BY <1>3 DEF ExchangeThrows
<1> QED BY <1>5, <1>6, <1>7, <1>8, <1>9, <1>10, <1>11, <1>12, <1>13

LEMMA CancelSteps ==
  ASSUME TInv, NEW t \in Threads
  PROVE  /\ \A c \in Traders : CallCancel(t, c) => Comes(t, "cancel", <<c>>)
         /\ CancelEnter(t) => \E d \in Traders :
               /\ Turn(t) = d
               /\ \/ /\ d \in open /\ monitor' = {t}
                     /\ Comes(t, "refund", <<d, Partner(d)>>)
                  \/ monitor' = monitor /\ Comes(t, "idle", <<>>)
         /\ \A g \in Items : RefundItem(t, g) => \E d \in Traders : TurnSees(t, d, g)
         /\ RefundThrows(t) => Comes(t, "idle", <<>>)
         /\ RefundMesos(t) => \E d \in Traders : TurnGoes(t, d, "empty")
         /\ Empty(t)       => \E d \in Traders : TurnPasses(t, d, "refund", "closeBoth", <<>>)
         /\ CloseBoth(t)   => Comes(t, "idle", <<>>)
<1>1. TypeOK /\ <<>> \in Seq(Traders) /\ \A d \in Traders : <<d>> \in Seq(Traders)
  BY Todos DEF TInv
<1>2. /\ Done(t) => Comes(t, "idle", <<>>)
      /\ \A pc \in Stages, todo \in Seq(Traders) : Start(t, pc, todo) => Comes(t, pc, todo)
  BY <1>1, DoneComes, StartComes
<1>3. {"cancel", "refund", "empty", "closeBoth", "idle"} \subseteq Stages
  BY DEF Stages
<1>4. \A c \in Traders : CallCancel(t, c) => Comes(t, "cancel", <<c>>)
  BY <1>1, <1>2, <1>3 DEF CallCancel
<1>5. ASSUME CancelEnter(t)
      PROVE  \E d \in Traders :
                /\ Turn(t) = d
                /\ \/ d \in open /\ monitor' = {t} /\ Comes(t, "refund", <<d, Partner(d)>>)
                   \/ monitor' = monitor /\ Comes(t, "idle", <<>>)
  <2>1. PICK d \in Traders : Turn(t) = d
    BY <1>5, Turns DEF CancelEnter, At
  <2>2. Partner(d) \in Traders /\ <<d, Partner(d)>> \in Seq(Traders)
    BY Partners, Todos
  <2>3. CASE d \in open
    BY <1>2, <1>3, <1>5, <2>1, <2>2, <2>3 DEF CancelEnter
  <2>4. CASE d \notin open
    BY <1>2, <1>5, <2>1, <2>4 DEF CancelEnter
  <2> QED BY <2>3, <2>4
<1>6. RefundMesos(t) => \E d \in Traders : TurnGoes(t, d, "empty")
  BY <1>3, TurnForms DEF RefundMesos, At
<1>7. Empty(t) => \E d \in Traders : TurnPasses(t, d, "refund", "closeBoth", <<>>)
  BY <1>1, <1>3, TurnForms DEF Empty, At
<1>8. (CloseBoth(t) => Comes(t, "idle", <<>>)) /\ (RefundThrows(t) => Comes(t, "idle", <<>>))
  BY <1>2 DEF CloseBoth, RefundThrows
<1>9. \A g \in Items : RefundItem(t, g) => \E d \in Traders : TurnSees(t, d, g)
  BY TurnForms DEF RefundItem, At, Goods
<1> QED BY <1>4, <1>5, <1>6, <1>7, <1>8, <1>9

\* What is received is in the inventory, or refused.
LEMMA Receives ==
  ASSUME TInv, NEW d \in Traders, NEW S, S \subseteq Goods, Receive(d, S)
  PROVE  /\ inventory' \in [Traders -> SUBSET Goods] /\ refused' \subseteq Goods
         /\ \A e \in Traders \ {d} : inventory'[e] = inventory[e]
         /\ inventory[d] \subseteq inventory'[d] /\ inventory'[d] \subseteq inventory[d] \union S
         /\ refused \subseteq refused' /\ S \ refused' \subseteq inventory'[d]
<1>1. PICK lost \in SUBSET S : /\ inventory' = [inventory EXCEPT ![d] = @ \union (S \ lost)]
                               /\ refused' = refused \union lost
  BY DEF Receive
<1>2. inventory \in [Traders -> SUBSET Goods] /\ refused \subseteq Goods
  BY Typed
<1> QED BY <1>1, <1>2

-----------------------------------------------------------------------------
(* Every step keeps the types.                                             *)

LEMMA MovesKeepTypes ==
  ASSUME TInv, NEW c \in Traders
  PROVE  /\ \A g \in Goods : SetMeso(c, g) \/ SetItem(c, g) => TInv'
         /\ Move(c) \/ CallConfirm(c) => TInv'
<1> USE DEF window, history, counts
<1>1. c \in Threads
  BY TradersAreThreads
<1>2. ASSUME NEW g \in Goods, SetMeso(c, g) \/ SetItem(c, g) PROVE TInv'
  <2>1. OthersTyped
    BY <1>2, Typed DEF SetMeso, SetItem, OthersTyped
  <2>2. monitor' = monitor /\ ~Cancelling(c)
    BY <1>2 DEF SetMeso, SetItem, Cancelling, At
  <2> QED BY <1>1, <1>2, <2>1, <2>2, MoveSteps, TypedPlain
<1>3. ASSUME Move(c) \/ CallConfirm(c) PROVE TInv'
  <2>1. th[c].good \in SUBSET Goods /\ th[c].seen \in SUBSET Goods
    BY <1>1, Typed DEF ThreadRecord
  <2>2. OthersTyped
    <3>1. CASE AddMeso(c)
      BY <2>1, <3>1, Typed DEF AddMeso, OthersTyped
    <3>2. CASE AddItem(c)
      <4>1. Walkers(c) \subseteq Threads
        BY DEF Walkers
      <4>2. items' \in [Traders -> SUBSET Goods] /\ late' \subseteq Goods /\ stale' \subseteq Threads
        BY <2>1, <3>2, <4>1, Typed, AddItemForms
      <4> QED BY <3>2, <4>2, Typed DEF AddItem, OthersTyped
    <3>3. CASE RemoveItem(c) \/ CallConfirm(c)
      BY <2>1, <3>3, Typed DEF RemoveItem, CallConfirm, OthersTyped
    <3> QED BY <1>3, <3>1, <3>2, <3>3 DEF Move
  <2>3. monitor' = monitor /\ ~Cancelling(c)
    BY <1>3 DEF Move, AddMeso, AddItem, RemoveItem, CallConfirm, Cancelling, At
  <2>4. Moves(c) /\ th'[c].pc \in {"idle", "confirm", "removeItem"}
    BY <1>3, MoveSteps DEF Move, Comes
  <2> QED BY <1>1, <2>2, <2>3, <2>4, TypedPlain
<1> QED BY <1>2, <1>3

LEMMA ExchangeKeepsTypes ==
  ASSUME TInv, NEW c \in Traders, Complete(c)
  PROVE  TInv'
<1> USE DEF window, history, counts
<1>1. c \in Threads /\ Partner(c) \in Traders /\ c = Partner(Partner(c))
  BY TradersAreThreads, Partners
<1>2. ASSUME NEW d \in Traders, NEW pc \in {"deliver", "forget"}, TurnGoes(c, d, pc),
             OthersTyped, monitor' = monitor, ~Cancelling(c)
      PROVE  TInv'
  BY <1>1, <1>2, TypedTurn DEF TurnGoes, Both, Last, Comes
<1>3. ASSUME Handshake(c) PROVE TInv'
  <2>1. OthersTyped /\ monitor' = monitor /\ ~Cancelling(c)
    BY <1>3, Typed DEF Handshake, OthersTyped, Cancelling, At
  <2>2. CASE Comes(c, "fetch", <<c, Partner(c)>>)
    BY <1>1, <2>1, <2>2, TypedTurn DEF Comes
  <2>3. CASE Comes(c, "idle", <<>>)
    BY <1>1, <2>1, <2>3, TypedPlain DEF Comes
  <2> QED BY <1>3, <2>2, <2>3, ExchangeSteps
<1>4. ASSUME Fetch(c) PROVE TInv'
  <2>1. PICK d \in Traders : TurnPasses(c, d, "fetch", "check", <<>>)
    BY <1>4, ExchangeSteps
  <2>2. Turn(c) = d /\ Partner(d) \in Traders
    BY <2>1, Partners DEF TurnPasses
  <2>3. OthersTyped /\ monitor' = monitor /\ ~Cancelling(c)
    BY <1>4, <2>2, Typed DEF Fetch, OthersTyped, Cancelling, At
  <2>4. CASE Comes(c, "fetch", <<Partner(d)>>)
    BY <1>1, <2>2, <2>3, <2>4, TypedTurn DEF Comes
  <2>5. CASE Comes(c, "check", <<>>)
    BY <1>1, <2>3, <2>5, TypedPlain DEF Comes
  <2> QED BY <2>1, <2>4, <2>5 DEF TurnPasses
<1>5. ASSUME CheckFits(c) PROVE TInv'
  <2>1. OthersTyped /\ monitor' = monitor /\ ~Cancelling(c)
    BY <1>5, Typed DEF CheckFits, OthersTyped, Cancelling, At
  <2> QED BY <1>1, <1>5, <2>1, ExchangeSteps, TypedTurn DEF Comes
<1>6. ASSUME CheckFails(c) PROVE TInv'
  <2>1. OthersTyped /\ monitor' = monitor /\ ~Cancelling(c)
    BY <1>6, Typed DEF CheckFails, OthersTyped, Cancelling, At
  <2>2. ASSUME NEW d \in Traders, Comes(c, "cancel", <<d>>) PROVE TInv'
    <3>1. FitsAt(c)' /\ ~Cancelling(c)'
      BY <2>2 DEF Comes, FitsAt, Last, Cancelling
    <3> QED BY <1>1, <2>1, <2>2, <3>1, TypedStep DEF Comes
  <2>3. CASE Comes(c, "idle", <<>>)
    BY <1>1, <2>1, <2>3, TypedPlain DEF Comes
  <2> QED BY <1>6, <2>2, <2>3, ExchangeSteps
<1>7. ASSUME ClearHalf(c) PROVE TInv'
  <2>1. PICK d \in Traders : TurnGoes(c, d, "deliver")
    BY <1>7, ExchangeSteps
  <2>2. stale' \subseteq Threads
    BY <1>7, Typed DEF ClearHalf, Upset, Walkers
  <2>3. OthersTyped /\ monitor' = monitor /\ ~Cancelling(c)
    BY <1>7, <2>2, Typed DEF ClearHalf, OthersTyped, Cancelling, At
  <2> QED BY <1>2, <2>1, <2>3
<1>8. ASSUME NEW g \in Items, DeliverItem(c, g) PROVE TInv'
  <2>1. PICK d \in Traders : TurnSees(c, d, g)
    BY <1>8, ExchangeSteps
  <2>2. Turn(c) = d /\ {g} \subseteq Goods
    BY <2>1 DEF TurnSees, Goods
  <2>3. deliveries' \in [Goods -> 0..2] /\ inventory' \in [Traders -> SUBSET Goods] /\ refused' \subseteq Goods
    BY <1>8, <2>2, Typed, Counts, Receives DEF DeliverItem
  <2>4. OthersTyped /\ monitor' = monitor /\ ~Cancelling(c) /\ th[c].pc = "deliver"
    BY <1>8, <2>2, <2>3, Typed DEF DeliverItem, OthersTyped, Cancelling, At
  <2> QED BY <1>1, <2>1, <2>4, TypedTurn DEF TurnSees, Both, Last
<1>9. ASSUME DeliverMesos(c) PROVE TInv'
  <2>1. PICK d \in Traders : TurnGoes(c, d, "forget")
    BY <1>9, ExchangeSteps
  <2>2. Turn(c) = d /\ exchangeItems[d] \intersect Mesos \subseteq Goods
    BY <2>1, Typed DEF TurnGoes
  <2>3. deliveries' \in [Goods -> 0..2] /\ inventory' \in [Traders -> SUBSET Goods] /\ refused' \subseteq Goods
    BY <1>9, <2>2, Typed, Counts, Receives DEF DeliverMesos
  <2>4. OthersTyped /\ monitor' = monitor /\ ~Cancelling(c)
    BY <1>9, <2>2, <2>3, Typed DEF DeliverMesos, OthersTyped, Cancelling, At
  <2> QED BY <1>2, <2>1, <2>4
<1>10. ASSUME ExchangeThrows(c) PROVE TInv'
  <2>1. OthersTyped /\ monitor' = monitor /\ ~Cancelling(c)
    BY <1>10, Typed DEF ExchangeThrows, OthersTyped, Cancelling, At
  <2> QED BY <1>1, <1>10, <2>1, ExchangeSteps, TypedPlain DEF Comes
<1>11. ASSUME Forget(c) PROVE TInv'
  <2>1. PICK d \in Traders : TurnPasses(c, d, "clear", "close", <<Partner(c), c>>)
    BY <1>11, ExchangeSteps
  <2>2. Partner(d) \in Traders
    BY Partners
  <2>3. OthersTyped /\ monitor' = monitor /\ ~Cancelling(c)
    BY <1>11, Typed DEF Forget, OthersTyped, Cancelling, At
  <2>4. CASE Comes(c, "clear", <<Partner(d)>>)
    BY <1>1, <2>2, <2>3, <2>4, TypedTurn DEF Comes
  <2>5. CASE Comes(c, "close", <<Partner(c), c>>)
    BY <1>1, <2>3, <2>5, TypedTurn DEF Comes
  <2> QED BY <2>1, <2>4, <2>5 DEF TurnPasses
<1>12. ASSUME Close(c) PROVE TInv'
  <2>1. PICK d \in Traders : TurnPasses(c, d, "close", "idle", <<>>)
    BY <1>12, ExchangeSteps
  <2>2. Partner(d) \in Traders
    BY Partners
  <2>3. OthersTyped /\ monitor' = monitor /\ ~Cancelling(c)
    BY <1>12, Typed DEF Close, OthersTyped, Cancelling, At
  <2>4. CASE Comes(c, "close", <<Partner(d)>>)
    BY <1>1, <2>2, <2>3, <2>4, TypedTurn DEF Comes
  <2>5. CASE Comes(c, "idle", <<>>)
    BY <1>1, <2>3, <2>5, TypedPlain DEF Comes
  <2> QED BY <2>1, <2>4, <2>5 DEF TurnPasses
<1> QED BY <1>3, <1>4, <1>5, <1>6, <1>7, <1>8, <1>9, <1>10, <1>11, <1>12 DEF Complete

LEMMA CancelKeepsTypes ==
  ASSUME TInv, NEW t \in Threads
  PROVE  /\ \A c \in Traders : CallCancel(t, c) => TInv'
         /\ Cancel(t) => TInv'
<1> USE DEF window, history, counts
<1>1. ASSUME NEW c \in Traders, CallCancel(t, c) PROVE TInv'
  <2>1. OthersTyped /\ monitor' = monitor /\ ~Cancelling(t)
    BY <1>1, Typed DEF CallCancel, OthersTyped, Cancelling, At
  <2>2. Comes(t, "cancel", <<c>>)
    BY <1>1, CancelSteps
  <2>3. FitsAt(t)' /\ ~Cancelling(t)'
    BY <2>2 DEF Comes, FitsAt, Last, Cancelling
  <2> QED BY <2>1, <2>2, <2>3, TypedStep DEF Comes
<1>2. ASSUME CancelEnter(t) PROVE TInv'
  <2>1. OthersTyped /\ monitor = {} /\ ~Cancelling(t)
    BY <1>2, Typed DEF CancelEnter, OthersTyped, Cancelling, At
  <2>2. ASSUME NEW d \in Traders, monitor' = {t}, Comes(t, "refund", <<d, Partner(d)>>)
        PROVE  TInv'
    <3>1. FitsAt(t)' /\ Cancelling(t)'
      BY <2>2 DEF Comes, FitsAt, Both, Cancelling
    <3> QED BY <2>1, <2>2, <3>1, TypedStep DEF Comes
  <2>3. CASE monitor' = monitor /\ Comes(t, "idle", <<>>)
    BY <2>1, <2>3, TypedPlain DEF Comes
  <2> QED BY <1>2, <2>2, <2>3, CancelSteps
<1>3. ASSUME NEW g \in Items, RefundItem(t, g) PROVE TInv'
  <2>1. PICK d \in Traders : TurnSees(t, d, g)
    BY <1>3, CancelSteps
  <2>2. Turn(t) = d /\ {g} \subseteq Goods
    BY <2>1 DEF TurnSees, Goods
  <2>3. refunds' \in [Goods -> 0..2] /\ inventory' \in [Traders -> SUBSET Goods] /\ refused' \subseteq Goods
    BY <1>3, <2>2, Typed, Counts, Receives DEF RefundItem
  <2>4. OthersTyped /\ monitor' = monitor /\ Cancelling(t) /\ th[t].pc = "refund"
    BY <1>3, <2>2, <2>3, Typed DEF RefundItem, OthersTyped, Cancelling, At
  <2> QED BY <2>1, <2>4, TypedTurn DEF TurnSees, Both, Last
<1>4. ASSUME RefundMesos(t) PROVE TInv'
  <2>1. PICK d \in Traders : TurnGoes(t, d, "empty")
    BY <1>4, CancelSteps
  <2>2. Turn(t) = d /\ items[d] \intersect Mesos \subseteq Goods
    BY <2>1, Typed DEF TurnGoes
  <2>3. refunds' \in [Goods -> 0..2] /\ inventory' \in [Traders -> SUBSET Goods] /\ refused' \subseteq Goods
    BY <1>4, <2>2, Typed, Counts, Receives DEF RefundMesos
  <2>4. OthersTyped /\ monitor' = monitor /\ Cancelling(t)
    BY <1>4, <2>2, <2>3, Typed DEF RefundMesos, OthersTyped, Cancelling, At
  <2> QED BY <2>1, <2>4, TypedTurn DEF TurnGoes, Both, Last, Comes
<1>5. ASSUME Empty(t) PROVE TInv'
  <2>1. PICK d \in Traders : TurnPasses(t, d, "refund", "closeBoth", <<>>)
    BY <1>5, CancelSteps
  <2>2. Partner(d) \in Traders /\ stale' \subseteq Threads
    BY <1>5, Partners, Typed DEF Empty, Upset, Takers
  <2>3. OthersTyped /\ monitor' = monitor /\ Cancelling(t)
    BY <1>5, <2>2, Typed DEF Empty, OthersTyped, Cancelling, At
  <2>4. CASE Comes(t, "refund", <<Partner(d)>>)
    BY <2>2, <2>3, <2>4, TypedTurn DEF Comes
  <2>5. CASE Comes(t, "closeBoth", <<>>)
    <3>1. FitsAt(t)' /\ Cancelling(t)'
      BY <2>5 DEF Comes, FitsAt, Cancelling
    <3> QED BY <2>3, <2>5, <3>1, TypedStep DEF Comes
  <2> QED BY <2>1, <2>4, <2>5 DEF TurnPasses
<1>6. ASSUME CloseBoth(t) \/ RefundThrows(t) PROVE TInv'
  <2>1. OthersTyped /\ monitor' = monitor \ {t}
    BY <1>6, Typed DEF CloseBoth, RefundThrows, OthersTyped
  <2>2. Comes(t, "idle", <<>>)
    BY <1>6, CancelSteps
  <2>3. FitsAt(t)' /\ ~Cancelling(t)'
    BY <2>2 DEF Comes, FitsAt, Cancelling
  <2> QED BY <2>1, <2>2, <2>3, TypedStep DEF Comes
<1> QED BY <1>1, <1>2, <1>3, <1>4, <1>5, <1>6 DEF Cancel

LEMMA TInit == Init => TInv
<1> SUFFICES ASSUME Init PROVE TInv
  OBVIOUS
<1>1. Idle \in ThreadRecord /\ Idle.pc = "idle"
  BY DEF Idle, ThreadRecord
<1>2. monitor = {} /\ Cardinality(monitor) = 0
  BY FS_EmptySet DEF Init
<1>3. TypeOK
  <2>1. {inventory, items, exchangeItems} \subseteq [Traders -> SUBSET Goods]
    BY DEF Init
  <2>2. {refunds, deliveries} \subseteq [Goods -> 0..2]
    BY DEF Init
  <2>3. th \in [Threads -> ThreadRecord]
    BY <1>1 DEF Init
  <2>4. locked \subseteq Traders /\ open \subseteq Traders /\ departed \in BOOLEAN
    BY DEF Init
  <2>5. stale \subseteq Threads /\ {late, refused} \subseteq SUBSET Goods /\ torn \in BOOLEAN
    BY DEF Init
  <2> QED BY <1>2, <2>1, <2>2, <2>3, <2>4, <2>5 DEF TypeOK
<1>4. TodoFits /\ MonitorHeld
  BY <1>1, <1>2 DEF Init, TodoFits, FitsAt, MonitorHeld, Cancelling
<1> QED BY <1>3, <1>4 DEF TInv

LEMMA TStep == TInv /\ [Next]_vars => TInv'
<1> SUFFICES ASSUME TInv, [Next]_vars PROVE TInv'
  OBVIOUS
<1>1. CASE UNCHANGED vars
  BY <1>1 DEF vars, window, history, counts, TInv, TypeOK, TodoFits, FitsAt, Both, Last, MonitorHeld, Cancelling
<1> QED BY <1>1, MovesKeepTypes, ExchangeKeepsTypes, CancelKeepsTypes DEF Next

\* For any goods and owners the trade keeps the state its fields are meant for,
\* and one thread at a time is inside the monitor.
THEOREM TradeTypeCorrect == Spec => []TypeOK
<1>1. TInv => TypeOK
  BY DEF TInv
<1> QED BY <1>1, TInit, TStep, PTL DEF Spec


-----------------------------------------------------------------------------
(* What the steps leave as it is.                                          *)

\* A thread that is not about to hand anything over.
LEMMA ExchangeStays ==
  ASSUME TInv, ExchangedOnce, NEW t \in Threads, Moves(t), deliveries' = deliveries,
         locked \subseteq locked', locked' \subseteq Traders, t \in Traders => ~Exchanging(t)'
  PROVE  ExchangedOnce'
<1>1. \A d \in Traders : Undelivered(d)' <=> Undelivered(d)
  BY DEF Undelivered, UndeliveredBut
<1>2. locked' # Traders => locked # Traders
  BY Typed
<1>3. ASSUME NEW c \in Traders, Exchanging(c)'
      PROVE  locked' = Traders /\ ~Exchanging(Partner(c))' /\ ExchangeAt(c)'
  <2>1. c # t /\ c \in Threads /\ Partner(c) \in Traders /\ Partner(c) \in Threads
    BY <1>3, TradersAreThreads, Partners
  <2>2. th'[c] = th[c] /\ Exchanging(c)
    BY <1>3, <2>1 DEF Moves, Exchanging
  <2>3. ~Exchanging(Partner(c))'
    BY <2>1, <2>2 DEF Moves, Exchanging, ExchangedOnce
  <2>4. \A d \in Traders : UndeliveredBut(d, th[c].seen)' <=> UndeliveredBut(d, th[c].seen)
    BY <2>2 DEF UndeliveredBut
  <2>5. ExchangeAt(c)'
    BY <1>1, <2>2, <2>4, Partners DEF ExchangedOnce, ExchangeAt, Both, Last
  <2> QED BY <1>2, <2>2, <2>3, <2>5 DEF ExchangedOnce
<1> QED BY <1>1, <1>2, <1>3 DEF ExchangedOnce

\* The thread that exchanges.
LEMMA ExchangeGoes ==
  ASSUME TInv, ExchangedOnce, NEW c \in Traders, Moves(c), Exchanging(c), locked' = locked,
         ExchangeAt(c)'
  PROVE  ExchangedOnce'
<1>1. locked' = Traders
  BY DEF ExchangedOnce
<1>2. ASSUME NEW d \in Traders, d # c PROVE ~Exchanging(d)'
  <2>1. d = Partner(c) /\ d \in Threads
    BY <1>2, Partners, TradersAreThreads
  <2> QED BY <1>2, <2>1 DEF ExchangedOnce, Exchanging, Moves
<1>3. ~Exchanging(Partner(c))'
  BY <1>2, Partners
<1> QED BY <1>1, <1>2, <1>3 DEF ExchangedOnce

\* A thread that is not about to give anything back.
LEMMA CancelStays ==
  ASSUME TInv, CancelledOnce, NEW t \in Threads, Moves(t), UNCHANGED <<refunds, monitor, torn>>,
         open' \subseteq open, th'[t].pc \notin {"refund", "empty"}
  PROVE  CancelledOnce'
<1> SUFFICES ASSUME ~torn PROVE CancelledOnce'
  BY DEF CancelledOnce
<1>1. \A d \in Traders : Unrefunded(d)' <=> Unrefunded(d)
  BY DEF Unrefunded, UnrefundedBut
<1>2. ASSUME NEW u \in Threads PROVE CancelAt(u)'
  <2>1. CASE u = t
    BY <2>1 DEF CancelAt
  <2>2. CASE u # t
    <3>1. th'[u] = th[u] /\ CancelAt(u)
      BY <2>2 DEF Moves, CancelledOnce
    <3>2. \A d \in Traders : UnrefundedBut(d, th[u].seen)' <=> UnrefundedBut(d, th[u].seen)
      BY <3>1 DEF UnrefundedBut
    <3> QED BY <1>1, <3>1, <3>2, Partners DEF CancelAt, Both, Last
  <2> QED BY <2>1, <2>2
<1> QED BY <1>1, <1>2 DEF CancelledOnce

\* The thread that cancels: nobody else does.
LEMMA CancelGoes ==
  ASSUME TInv, NEW t \in Threads, Moves(t), monitor' = {t}, TInv', CancelAt(t)'
  PROVE  CancelledOnce'
<1>1. ASSUME NEW u \in Threads, u # t PROVE CancelAt(u)'
  BY <1>1 DEF TInv, MonitorHeld, Cancelling, CancelAt
<1> QED BY <1>1 DEF CancelledOnce

\* What a thread does that neither starts the exchange nor hands over, cancels
\* nor gives back.
LEMMA InsteadStays ==
  ASSUME TInv, CancelledInstead, NEW t \in Threads, Moves(t),
         UNCHANGED <<refunds, deliveries, departed>>,
         locked \subseteq locked', locked' \subseteq Traders,
         Leaving(t)' => Leaving(t),
         t \in Traders /\ Exchanging(t)' => Exchanging(t)
  PROVE  CancelledInstead'
<1>1. \A d \in Traders : Undelivered(d)' <=> Undelivered(d)
  BY DEF Undelivered, UndeliveredBut
<1>2. \A u \in Threads : Leaving(u)' => Leaving(u)
  BY DEF Moves, Leaving, Cancelling
<1>3. \A d \in Traders : Exchanging(d)' => Exchanging(d)
  BY TradersAreThreads DEF Moves, Exchanging
<1>4. locked = Traders => locked' = Traders
  OBVIOUS
<1> QED BY <1>1, <1>2, <1>3, <1>4 DEF CancelledInstead

\* What is moved or settled stays with its owner's side.
LEMMA OwnershipKept ==
  ASSUME TInv, Ownership, NEW t \in Threads, Moves(t),
         th'[t].good \subseteq th[t].good, th'[t].pc # "addMeso",
         \A c \in Traders :
            /\ items'[c] \subseteq Own(c) /\ exchangeItems'[c] \subseteq Own(Partner(c))
            /\ \A g \in inventory'[c] : deliveries'[g] = 0 => g \in Own(c)
  PROVE  Ownership'
<1>1. \A c \in Traders : th'[c].good \subseteq Own(c)
  BY TradersAreThreads DEF Moves, Ownership
<1>2. \A c \in Traders : th'[c].pc = "addMeso" => th'[c].seen \subseteq Own(c)
  BY TradersAreThreads DEF Moves, Ownership
<1> QED BY <1>1, <1>2 DEF Ownership

LEMMA OwnershipStays ==
  ASSUME TInv, Ownership, NEW t \in Threads, Moves(t),
         UNCHANGED <<inventory, items, exchangeItems, deliveries>>,
         th'[t].good = {}, th'[t].pc # "addMeso"
  PROVE  Ownership'
<1>1. \A c \in Traders :
            /\ items'[c] \subseteq Own(c) /\ exchangeItems'[c] \subseteq Own(Partner(c))
            /\ \A g \in inventory'[c] : deliveries'[g] = 0 => g \in Own(c)
  BY DEF Ownership
<1> QED BY <1>1, OwnershipKept

-----------------------------------------------------------------------------
(* Moving goods into the window.                                           *)

LEMMA OfferKeeps ==
  ASSUME SInv, NEW c \in Traders, NEW g \in Goods, SetMeso(c, g) \/ SetItem(c, g)
  PROVE  SInv'
<1>0. TInv' /\ TInv /\ c \in Threads
  BY MovesKeepTypes, TradersAreThreads DEF SInv
<1>1. /\ Moves(c) /\ th'[c].pc \in {"addMeso", "addItem"} /\ th'[c].good = {g}
      /\ th'[c].pc = "addMeso" => th'[c].seen \subseteq items[c]
  BY <1>0, MoveSteps
<1>2. /\ g \in inventory[c] /\ deliveries[g] = 0
      /\ UNCHANGED <<items, exchangeItems, locked, open, monitor, refunds, deliveries, departed,
                     torn>>
      /\ inventory' \in {inventory, [inventory EXCEPT ![c] = @ \ {g}]}
  BY DEF SetMeso, SetItem, Fresh, window, history, counts
<1>3. /\ ~Exchanging(c)' /\ ~Leaving(c)' /\ ~Cancelling(c)'
  BY <1>1 DEF Exchanging, Leaving, Cancelling
<1>4. Ownership'
  <2>1. g \in Own(c) /\ items[c] \subseteq Own(c)
    BY <1>2 DEF SInv, Ownership
  <2>2. \A d \in Traders : inventory'[d] \subseteq inventory[d]
    BY <1>0, <1>2, Typed
  <2>3. \A d \in Traders \ {c} : th'[d] = th[d]
    BY <1>1, TradersAreThreads DEF Moves
  <2> QED BY <1>1, <1>2, <2>1, <2>2, <2>3 DEF SInv, Ownership
<1>5. ExchangedOnce'
  BY <1>0, <1>1, <1>2, <1>3, Typed, ExchangeStays DEF SInv
<1>6. CancelledOnce'
  BY <1>0, <1>1, <1>2, CancelStays DEF SInv
<1>7. CancelledInstead'
  BY <1>0, <1>1, <1>2, <1>3, Typed, InsteadStays DEF SInv
<1>8. SettledOnce'
  BY <1>2 DEF SInv, SettledOnce
<1> QED BY <1>0, <1>4, <1>5, <1>6, <1>7, <1>8 DEF SInv

LEMMA MoveKeeps ==
  ASSUME SInv, NEW c \in Traders, Move(c) \/ CallConfirm(c)
  PROVE  SInv'
<1>0. TInv' /\ TInv /\ c \in Threads
  BY MovesKeepTypes, TradersAreThreads DEF SInv
<1>1. Moves(c) /\ th'[c].pc \in {"idle", "confirm", "removeItem"} /\ th'[c].good \subseteq th[c].good
  BY <1>0, MoveSteps DEF Move, Comes
<1>2. /\ UNCHANGED <<exchangeItems, locked, open, monitor, refunds, deliveries, departed, torn>>
      /\ inventory' \in {inventory, [inventory EXCEPT ![c] = @ \ th[c].good]}
  BY DEF Move, AddMeso, AddItem, RemoveItem, CallConfirm, window, history, counts
<1>3. /\ ~Exchanging(c)' /\ ~Leaving(c)' /\ ~Cancelling(c)'
  BY <1>1 DEF Exchanging, Leaving, Cancelling
<1>4. Ownership'
  <2>1. th[c].good \subseteq Own(c) /\ \A d \in Traders : items[d] \subseteq Own(d)
    BY DEF SInv, Ownership
  <2>2. \A d \in Traders : inventory'[d] \subseteq inventory[d]
    BY <1>0, <1>2, Typed
  <2>3. \A d \in Traders : items'[d] \subseteq Own(d)
    <3>1. CASE AddMeso(c)
      <4>1. th[c].seen \subseteq Own(c)
        BY <3>1 DEF AddMeso, At, SInv, Ownership
      <4>2. \A d \in Traders \ {c} : items'[d] = items[d]
        BY <1>0, <3>1, Typed DEF AddMeso
      <4>3. PICK old \in {items[c] \intersect Mesos, th[c].seen} :
               items' = [items EXCEPT ![c] = (@ \intersect Items) \union old \union th[c].good]
        BY <3>1 DEF AddMeso
      <4>4. items'[c] = (items[c] \intersect Items) \union old \union th[c].good
        BY <1>0, <4>3, Typed
      <4> QED BY <2>1, <4>1, <4>2, <4>3, <4>4
    <3>2. CASE AddItem(c)
      <4>1. items' \in {items, [items EXCEPT ![c] = @ \union th[c].good]}
        BY <3>2 DEF AddItem
      <4> QED BY <1>0, <2>1, <4>1, Typed
    <3>3. CASE RemoveItem(c) \/ CallConfirm(c)
      BY <2>1, <3>3 DEF RemoveItem, CallConfirm, window
    <3> QED BY <3>1, <3>2, <3>3 DEF Move
  <2>4. \A d \in Traders : exchangeItems[d] \subseteq Own(Partner(d))
    BY DEF SInv, Ownership
  <2>5. \A d \in Traders : \A g \in inventory'[d] : deliveries'[g] = 0 => g \in Own(d)
    BY <1>2, <2>2 DEF SInv, Ownership
  <2> QED BY <1>0, <1>1, <1>2, <2>3, <2>4, <2>5, OwnershipKept DEF SInv
<1>5. ExchangedOnce'
  BY <1>0, <1>1, <1>2, <1>3, Typed, ExchangeStays DEF SInv
<1>6. CancelledOnce'
  BY <1>0, <1>1, <1>2, CancelStays DEF SInv
<1>7. CancelledInstead'
  BY <1>0, <1>1, <1>2, <1>3, Typed, InsteadStays DEF SInv
<1>8. SettledOnce'
  BY <1>2 DEF SInv, SettledOnce
<1> QED BY <1>0, <1>4, <1>5, <1>6, <1>7, <1>8 DEF SInv

-----------------------------------------------------------------------------
(* CONFIRM: the exchange.                                                  *)

LEMMA HandshakeKeeps ==
  ASSUME SInv, NEW c \in Traders, Handshake(c)
  PROVE  SInv'
<1>0. TInv' /\ TInv /\ c \in Threads /\ Complete(c)
  BY ExchangeKeepsTypes, TradersAreThreads DEF SInv, Complete
<1>1. /\ locked' = locked \union {c} /\ locked \subseteq Traders
      /\ UNCHANGED <<inventory, items, exchangeItems, open, monitor, refunds, deliveries, departed,
                     torn>>
  BY <1>0, Typed DEF Handshake, history, counts
<1>2. CASE Comes(c, "idle", <<>>)
  <2>1. Moves(c) /\ th'[c].good = {} /\ th'[c].pc = "idle"
    BY <1>2 DEF Comes
  <2>2. ~Exchanging(c)' /\ ~Leaving(c)'
    BY <2>1 DEF Exchanging, Leaving, Cancelling
  <2>3. Ownership'
    BY <1>0, <1>1, <2>1, OwnershipStays DEF SInv
  <2>4. ExchangedOnce'
    BY <1>0, <1>1, <2>1, <2>2, ExchangeStays DEF SInv
  <2>5. CancelledOnce'
    BY <1>0, <1>1, <2>1, CancelStays DEF SInv
  <2>6. CancelledInstead'
    BY <1>0, <1>1, <2>1, <2>2, InsteadStays DEF SInv
  <2> QED BY <1>0, <1>1, <2>3, <2>4, <2>5, <2>6 DEF SInv, SettledOnce
<1>3. ASSUME Comes(c, "fetch", <<c, Partner(c)>>), c \notin locked, Partner(c) \in locked
      PROVE  SInv'
  <2>1. Moves(c) /\ th'[c].good = {} /\ th'[c].pc = "fetch"
    BY <1>3 DEF Comes
  <2>2. locked # Traders /\ locked' = Traders
    BY <1>1, <1>3, Partners
  <2>3. \A d \in Traders : Undelivered(d) /\ ~Exchanging(d)
    BY <2>2 DEF SInv, ExchangedOnce
  <2>4. \A d \in Traders : Undelivered(d)'
    BY <1>1, <2>3 DEF Undelivered, UndeliveredBut
  <2>5. Ownership'
    BY <1>0, <1>1, <2>1, OwnershipStays DEF SInv
  <2>6. ExchangedOnce'
    <3>1. \A d \in Traders \ {c} : ~Exchanging(d)'
      BY <2>1, <2>3, TradersAreThreads DEF Moves, Exchanging
    <3>2. ExchangeAt(c)'
      BY <2>1, <2>4 DEF ExchangeAt
    <3>3. ~Exchanging(Partner(c))'
      BY <3>1, Partners
    <3> QED BY <2>2, <3>1, <3>2, <3>3 DEF ExchangedOnce
  <2>7. CancelledOnce'
    BY <1>0, <1>1, <2>1, CancelStays DEF SInv
  <2>8. CancelledInstead'
    <3>1. ~departed => \A t \in Threads : ~Leaving(t)
      BY <2>2 DEF SInv, CancelledInstead
    <3>2. ~departed => \A t \in Threads : ~Leaving(t)'
      BY <2>1, <3>1 DEF Moves, Leaving, Cancelling
    <3>3. ~departed => \A g \in Goods : ~(refunds[g] > 0)
      BY <2>2 DEF SInv, CancelledInstead
    <3> QED BY <1>1, <3>2, <3>3 DEF CancelledInstead
  <2> QED BY <1>0, <1>1, <2>5, <2>6, <2>7, <2>8 DEF SInv, SettledOnce
<1> QED BY <1>0, <1>2, <1>3, ExchangeSteps

\* Which characters are meant by what a thread has before it.
LEMMA OneLeft ==
  ASSUME NEW t \in Threads, NEW d \in Traders, th'[t].todo = <<d>>
  PROVE  \A e \in Traders : ~Both(t, e)' /\ (Last(t, e)' => e = d)
BY Todos, Partners DEF Both, Last

LEMMA TwoLeft ==
  ASSUME NEW t \in Threads, NEW d \in Traders, th'[t].todo = <<d, Partner(d)>>
  PROVE  \A e \in Traders : ~Last(t, e)' /\ (Both(t, e)' => e = d)
<1>1. \A e \in Traders : <<d, Partner(d)>> # <<e>>
  BY Todos, Partners
<1>2. \A e \in Traders : <<d, Partner(d)>> = <<e, Partner(e)>> => e = d
  OBVIOUS
<1> QED BY <1>1, <1>2 DEF Both, Last

\* As long as it has the same before it, it deals with the same character.
LEMMA SameLeft ==
  ASSUME NEW t \in Threads, NEW d \in Traders, Both(t, d) \/ Last(t, d), th'[t].todo = th[t].todo
  PROVE  \A e \in Traders : /\ Both(t, e)' => e = d /\ Both(t, d)
                            /\ Last(t, e)' => e = d /\ Last(t, d)
<1>1. CASE Both(t, d)
  BY <1>1, TwoLeft DEF Both
<1>2. CASE Last(t, d)
  BY <1>2, OneLeft DEF Last
<1> QED BY <1>1, <1>2

\* A step of the exchange that settles nothing.
LEMMA ExchangeFrame ==
  ASSUME SInv, TInv', NEW c \in Traders, Moves(c), Exchanging(c),
         UNCHANGED <<inventory, locked, open, monitor, refunds, deliveries, departed, torn>>,
         th'[c].good = {},
         th'[c].pc \notin {"cancel", "refund", "empty", "closeBoth", "addMeso"},
         \A d \in Traders : /\ items'[d] \subseteq items[d]
                            /\ exchangeItems'[d] \subseteq Own(Partner(d)),
         ExchangeAt(c)'
  PROVE  SInv'
<1>0. TInv /\ c \in Threads /\ locked \subseteq Traders
  BY TradersAreThreads, Typed DEF SInv
<1>1. \A d \in Traders :
            /\ items'[d] \subseteq Own(d) /\ exchangeItems'[d] \subseteq Own(Partner(d))
            /\ \A g \in inventory'[d] : deliveries'[g] = 0 => g \in Own(d)
  BY DEF SInv, Ownership
<1>2. Ownership'
  BY <1>0, <1>1, OwnershipKept DEF SInv
<1>3. ExchangedOnce'
  BY <1>0, ExchangeGoes DEF SInv
<1>4. CancelledOnce'
  BY <1>0, CancelStays DEF SInv
<1>5. ~Leaving(c)'
  BY DEF Leaving, Cancelling
<1>6. CancelledInstead'
  BY <1>0, <1>5, InsteadStays DEF SInv
<1> QED BY <1>2, <1>3, <1>4, <1>6 DEF SInv, SettledOnce

LEMMA FetchKeeps ==
  ASSUME SInv, NEW c \in Traders, Fetch(c) \/ CheckFits(c)
  PROVE  SInv'
<1>0. TInv' /\ TInv /\ c \in Threads /\ Partner(c) \in Traders
  BY ExchangeKeepsTypes, TradersAreThreads, Partners DEF SInv, Complete
<1>1. /\ Exchanging(c) /\ th[c].pc \in {"fetch", "check"}
      /\ UNCHANGED <<inventory, items, locked, open, monitor, refunds, deliveries, departed, torn>>
  BY DEF Fetch, CheckFits, Exchanging, At, window, history, counts
<1>2. \A d \in Traders : Undelivered(d) /\ Undelivered(Partner(d))
  BY <1>1, Partners DEF SInv, ExchangedOnce, ExchangeAt
<1>3. \A d \in Traders : Undelivered(d)' /\ Undelivered(Partner(d))'
  BY <1>1, <1>2 DEF Undelivered, UndeliveredBut
<1>4. /\ Moves(c) /\ th'[c].good = {} /\ th'[c].pc \in {"fetch", "check", "clear"}
  BY <1>0, ExchangeSteps DEF TurnPasses, Comes
<1>5. \A d \in Traders : exchangeItems'[d] \subseteq Own(Partner(d))
  <2>1. \A d \in Traders : exchangeItems[d] \subseteq Own(Partner(d))
    BY DEF SInv, Ownership
  <2>2. CASE CheckFits(c)
    BY <2>1, <2>2 DEF CheckFits, window
  <2>3. CASE Fetch(c)
    <3>1. PICK d \in Traders : Turn(c) = d
      BY <1>0, <2>3, ExchangeSteps DEF TurnPasses
    <3>2. items[Partner(d)] \subseteq Own(Partner(d)) /\ exchangeItems' = [exchangeItems EXCEPT ![d] = items[Partner(d)]]
      BY <2>3, <3>1, Partners DEF SInv, Ownership, Fetch
    <3> QED BY <1>0, <2>1, <3>2, Typed
  <2> QED BY <2>2, <2>3
<1>6. ExchangeAt(c)'
  BY <1>3, <1>4 DEF ExchangeAt
<1> QED BY <1>0, <1>1, <1>4, <1>5, <1>6, ExchangeFrame

LEMMA ClearKeeps ==
  ASSUME SInv, NEW c \in Traders, ClearHalf(c)
  PROVE  SInv'
<1>0. TInv' /\ TInv /\ c \in Threads
  BY ExchangeKeepsTypes, TradersAreThreads DEF SInv, Complete
<1>1. PICK d \in Traders : TurnGoes(c, d, "deliver")
  BY <1>0, ExchangeSteps
<1>2. /\ Exchanging(c) /\ th[c].pc = "clear" /\ items' = [items EXCEPT ![d] = {}]
      /\ UNCHANGED <<inventory, exchangeItems, locked, open, monitor, refunds, deliveries, departed,
                     torn>>
  BY <1>1 DEF ClearHalf, TurnGoes, Exchanging, At, history, counts
<1>3. /\ Moves(c) /\ th'[c].good = {} /\ th'[c].pc = "deliver" /\ th'[c].todo = th[c].todo
      /\ th'[c].seen = {} /\ (Both(c, d) \/ Last(c, d))
  BY <1>1 DEF TurnGoes, Comes
<1>4. ExchangeAt(c) /\ \A e \in Traders : Undelivered(e) => Undelivered(e)'
  BY <1>2 DEF SInv, ExchangedOnce, Undelivered, UndeliveredBut
<1>5. ExchangeAt(c)'
  <2>1. Undelivered(d) /\ (Both(c, d) => Undelivered(Partner(d)))
    BY <1>2, <1>3, <1>4 DEF ExchangeAt
  <2>2. UndeliveredBut(d, th[c].seen)' /\ (Both(c, d) => Undelivered(Partner(d))')
    BY <1>2, <1>3, <2>1, Partners DEF Undelivered, UndeliveredBut
  <2>3. \A e \in Traders : /\ Both(c, e)' => e = d /\ Both(c, d)
                           /\ Last(c, e)' => e = d
    BY <1>0, <1>3, SameLeft
  <2>4. th'[c].seen \subseteq Items
    BY <1>3
  <2> QED BY <1>3, <2>2, <2>3, <2>4 DEF ExchangeAt
<1>6. \A e \in Traders : items'[e] \subseteq items[e] /\ exchangeItems'[e] \subseteq Own(Partner(e))
  BY <1>0, <1>2, Typed DEF SInv, Ownership
<1> QED BY <1>0, <1>2, <1>3, <1>5, <1>6, ExchangeFrame

LEMMA ForgetKeeps ==
  ASSUME SInv, NEW c \in Traders, Forget(c)
  PROVE  SInv'
<1>0. TInv' /\ TInv /\ c \in Threads
  BY ExchangeKeepsTypes, TradersAreThreads DEF SInv, Complete
<1>1. PICK d \in Traders : TurnPasses(c, d, "clear", "close", <<Partner(c), c>>)
  BY <1>0, ExchangeSteps
<1>2. /\ Exchanging(c) /\ th[c].pc = "forget" /\ exchangeItems' = [exchangeItems EXCEPT ![d] = {}]
      /\ UNCHANGED <<inventory, items, locked, open, monitor, refunds, deliveries, departed, torn>>
  BY <1>1 DEF Forget, TurnPasses, Exchanging, At, history, counts
<1>3. Moves(c) /\ th'[c].good = {} /\ th'[c].pc \in {"clear", "close"}
  BY <1>1 DEF TurnPasses, Comes
<1>4. ExchangeAt(c) /\ \A e \in Traders : Undelivered(e)' <=> Undelivered(e)
  BY <1>2 DEF SInv, ExchangedOnce, Undelivered, UndeliveredBut
<1>5. ExchangeAt(c)'
  <2>1. CASE th'[c].pc = "close"
    BY <2>1 DEF ExchangeAt
  <2>2. CASE th'[c].pc = "clear"
    <3>1. Both(c, d) /\ th'[c].todo = <<Partner(d)>> /\ Partner(d) \in Traders
      BY <1>1, <2>2, Partners DEF TurnPasses, Comes
    <3>2. Undelivered(Partner(d))'
      BY <1>2, <1>4, <3>1 DEF ExchangeAt
    <3> QED BY <1>0, <2>2, <3>1, <3>2, OneLeft DEF ExchangeAt
  <2> QED BY <1>3, <2>1, <2>2
<1>6. \A e \in Traders : items'[e] \subseteq items[e] /\ exchangeItems'[e] \subseteq Own(Partner(e))
  BY <1>0, <1>2, Typed DEF SInv, Ownership
<1> QED BY <1>0, <1>2, <1>3, <1>5, <1>6, ExchangeFrame


\* What is handed over belonged to the other player, and had not been before:
\* one item, or the mesos.
LEMMA DeliverFrame ==
  ASSUME SInv, TInv', NEW c \in Traders, NEW d \in Traders, NEW S \in SUBSET exchangeItems[d],
         Exchanging(c), th[c].pc = "deliver", Both(c, d) \/ Last(c, d),
         S \intersect th[c].seen = {}, Receive(d, S), deliveries' = Count(deliveries, S),
         UNCHANGED <<items, exchangeItems, locked, open, monitor, refunds, departed, torn>>,
         Moves(c), th'[c].todo = th[c].todo, th'[c].good \subseteq th[c].good,
         \/ th'[c].pc = "deliver" /\ th'[c].seen = th[c].seen \union S /\ S \subseteq Items
         \/ th'[c].pc = "forget"
  PROVE  SInv'
<1>0. TInv /\ c \in Threads
  BY TradersAreThreads DEF SInv
<1>1. locked = Traders /\ ~Exchanging(Partner(c)) /\ ExchangeAt(c)
  BY DEF SInv, ExchangedOnce
<1>2. /\ th[c].seen \subseteq Items /\ UndeliveredBut(d, th[c].seen)
      /\ Both(c, d) => Undelivered(Partner(d))
  BY <1>1 DEF ExchangeAt
<1>3. /\ S \subseteq Own(Partner(d)) /\ Own(Partner(d)) \subseteq Goods
      /\ Partner(d) \in Traders /\ Partner(Partner(d)) = d
      /\ Own(Partner(d)) \intersect Own(d) = {}
  BY Partners, OwnSides DEF SInv, Ownership
<1>4. \A g \in S : deliveries[g] = 0
  BY <1>2, <1>3 DEF UndeliveredBut
<1>5. /\ \A g \in Goods \ S : deliveries'[g] = deliveries[g]
      /\ \A g \in S : deliveries'[g] <= 1
      /\ \A g \in Goods : deliveries'[g] = 0 => deliveries[g] = 0 /\ g \notin S
  BY <1>0, <1>3, <1>4, Typed, Counts
<1>6. /\ \A e \in Traders \ {d} : inventory'[e] = inventory[e]
      /\ inventory'[d] \subseteq inventory[d] \union S
      /\ \A e \in Traders : inventory'[e] \subseteq Goods
  <2>1. S \subseteq Goods
    BY <1>3
  <2> QED BY <1>0, <2>1, Receives
<1>7. Ownership'
  <2>1. ASSUME NEW e \in Traders, NEW g \in inventory'[e], deliveries'[g] = 0 PROVE g \in Own(e)
    <3>1. deliveries[g] = 0 /\ g \notin S
      BY <1>5, <1>6, <2>1
    <3>2. g \in inventory[e]
      BY <1>6, <2>1, <3>1
    <3> QED BY <3>1, <3>2 DEF SInv, Ownership
  <2>2. \A e \in Traders : items'[e] \subseteq Own(e) /\ exchangeItems'[e] \subseteq Own(Partner(e))
    BY DEF SInv, Ownership
  <2> QED BY <1>0, <2>1, <2>2, OwnershipKept DEF SInv
<1>8. Both(c, d) => Undelivered(Partner(d))'
  BY <1>2, <1>3, <1>5, OwnSides DEF Undelivered, UndeliveredBut
<1>9. \A e \in Traders : /\ Both(c, e)' => e = d /\ Both(c, d)
                         /\ Last(c, e)' => e = d
  BY <1>0, SameLeft
<1>10. ExchangeAt(c)'
  <2>1. CASE th'[c].pc = "forget"
    BY <1>8, <1>9, <2>1 DEF ExchangeAt
  <2>2. CASE th'[c].pc = "deliver" /\ th'[c].seen = th[c].seen \union S /\ S \subseteq Items
    <3>1. UndeliveredBut(d, th[c].seen)'
      BY <1>2, <1>3, <1>5, <2>2 DEF UndeliveredBut
    <3>2. th'[c].seen \subseteq Items
      BY <1>2, <2>2
    <3> QED BY <1>8, <1>9, <2>2, <3>1, <3>2 DEF ExchangeAt
  <2> QED BY <2>1, <2>2
<1>11. ExchangedOnce'
  BY <1>0, <1>10, ExchangeGoes DEF SInv
<1>12. CancelledOnce'
  BY <1>0, CancelStays DEF SInv
<1>13. SettledOnce'
  BY <1>5 DEF SInv, SettledOnce
<1>14. CancelledInstead'
  <2>1. ~departed => (\A t \in Threads : ~Leaving(t)) /\ \A g \in Goods : ~(refunds[g] > 0)
    BY DEF SInv, CancelledInstead
  <2>2. ~departed => \A t \in Threads : ~Leaving(t)'
    BY <2>1 DEF Moves, Leaving, Cancelling
  <2> QED BY <2>1, <2>2 DEF CancelledInstead
<1> QED BY <1>7, <1>11, <1>12, <1>13, <1>14 DEF SInv

LEMMA DeliverItemKeeps ==
  ASSUME SInv, NEW c \in Traders, NEW g \in Items, DeliverItem(c, g)
  PROVE  SInv'
<1>0. TInv' /\ TInv /\ c \in Threads
  BY ExchangeKeepsTypes, TradersAreThreads DEF SInv, Complete
<1>1. PICK d \in Traders : TurnSees(c, d, g)
  BY <1>0, ExchangeSteps
<1>2. /\ Exchanging(c) /\ th[c].pc = "deliver" /\ Receive(d, {g})
      /\ g \in exchangeItems[d] /\ g \notin th[c].seen
      /\ deliveries' = Count(deliveries, {g})
      /\ UNCHANGED <<items, exchangeItems, locked, open, monitor, refunds, departed, torn>>
  BY <1>1 DEF DeliverItem, TurnSees, Exchanging, At, window
<1>3. /\ Both(c, d) \/ Last(c, d)
      /\ Moves(c) /\ th'[c].todo = th[c].todo /\ th'[c].good \subseteq th[c].good
      /\ th'[c].pc = "deliver" /\ th'[c].seen = th[c].seen \union {g}
  BY <1>1, <1>2 DEF TurnSees
<1>4. {g} \in SUBSET exchangeItems[d] /\ {g} \intersect th[c].seen = {} /\ {g} \subseteq Items
  BY <1>2
<1> QED BY <1>0, <1>2, <1>3, <1>4, DeliverFrame

LEMMA DeliverMesosKeeps ==
  ASSUME SInv, NEW c \in Traders, DeliverMesos(c)
  PROVE  SInv'
<1>0. TInv' /\ TInv /\ c \in Threads
  BY ExchangeKeepsTypes, TradersAreThreads DEF SInv, Complete
<1>1. PICK d \in Traders : TurnGoes(c, d, "forget")
  BY <1>0, ExchangeSteps
<1> DEFINE S == exchangeItems[d] \intersect Mesos
<1>2. /\ Exchanging(c) /\ th[c].pc = "deliver" /\ Receive(d, S)
      /\ deliveries' = Count(deliveries, S)
      /\ UNCHANGED <<items, exchangeItems, locked, open, monitor, refunds, departed, torn>>
  BY <1>1 DEF DeliverMesos, TurnGoes, Exchanging, At, window
<1>3. /\ Both(c, d) \/ Last(c, d)
      /\ Moves(c) /\ th'[c].todo = th[c].todo /\ th'[c].good \subseteq th[c].good
      /\ th'[c].pc = "forget"
  BY <1>1 DEF TurnGoes, Comes
<1>4. th[c].seen \subseteq Items
  BY <1>2, <1>3 DEF SInv, ExchangedOnce, ExchangeAt
<1>5. S \in SUBSET exchangeItems[d] /\ S \intersect th[c].seen = {}
  BY <1>4, TradeAssumption
<1> HIDE DEF S
<1> QED BY <1>0, <1>2, <1>3, <1>5, DeliverFrame

\* The thread that was to make the exchange gives it up.
LEMMA GivenUpKeeps ==
  ASSUME SInv, NEW c \in Traders, CheckFails(c) \/ ExchangeThrows(c)
  PROVE  SInv'
<1>0. TInv' /\ TInv /\ c \in Threads
  BY ExchangeKeepsTypes, TradersAreThreads DEF SInv, Complete
<1>1. /\ Exchanging(c) /\ locked \subseteq Traders
      /\ CheckFails(c) => th[c].pc = "check"
      /\ UNCHANGED <<inventory, items, exchangeItems, locked, open, monitor, refunds, deliveries,
                     departed, torn>>
  BY <1>0, Typed DEF CheckFails, ExchangeThrows, Exchanging, At, window, history, counts
<1>2. /\ Moves(c) /\ th'[c].good = {} /\ th'[c].pc \in {"cancel", "idle"}
      /\ th'[c].pc = "cancel" => th[c].pc = "check"
  BY <1>0, <1>1, ExchangeSteps DEF Comes
<1>3. locked = Traders /\ ~Exchanging(Partner(c))
  BY <1>1 DEF SInv, ExchangedOnce
<1>4. \A d \in Traders : ~Exchanging(d)'
  <2>1. ~Exchanging(c)'
    BY <1>2 DEF Exchanging
  <2>2. ~Exchanging(Partner(c))'
    BY <1>2, <1>3, Partners, TradersAreThreads DEF Moves, Exchanging
  <2> QED BY <2>1, <2>2, Partners
<1>5. Ownership'
  BY <1>0, <1>1, <1>2, OwnershipStays DEF SInv
<1>6. ExchangedOnce'
  BY <1>0, <1>1, <1>2, <1>4, ExchangeStays DEF SInv
<1>7. CancelledOnce'
  BY <1>0, <1>1, <1>2, CancelStays DEF SInv
<1>8. CancelledInstead'
  <2>1. ~departed => /\ \A t \in Threads : ~Leaving(t)
                     /\ \A g \in Goods : ~(refunds[g] > 0)
    BY <1>1 DEF SInv, CancelledInstead
  <2>2. ~departed => \A t \in Threads : Leaving(t)' => t = c /\ th'[c].pc = "cancel"
    BY <1>2, <2>1 DEF Moves, Leaving, Cancelling
  <2>3. th'[c].pc = "cancel" => \A d \in Traders : Undelivered(d)'
    <3>1. th[c].pc = "check" => \A d \in Traders : Undelivered(d)
      BY <1>1 DEF SInv, ExchangedOnce, ExchangeAt
    <3> QED BY <1>1, <1>2, <3>1 DEF Undelivered, UndeliveredBut
  <2> QED BY <1>1, <1>3, <1>4, <2>1, <2>2, <2>3 DEF CancelledInstead
<1> QED BY <1>0, <1>1, <1>5, <1>6, <1>7, <1>8 DEF SInv, SettledOnce

LEMMA CloseKeeps ==
  ASSUME SInv, NEW c \in Traders, Close(c)
  PROVE  SInv'
<1>0. TInv' /\ TInv /\ c \in Threads
  BY ExchangeKeepsTypes, TradersAreThreads DEF SInv, Complete
<1>1. /\ open' \subseteq open /\ locked \subseteq Traders
      /\ UNCHANGED <<inventory, items, exchangeItems, locked, monitor, refunds, deliveries, departed,
                     torn>>
  BY <1>0, Typed DEF Close, history, counts
<1>2. Moves(c) /\ th'[c].good = {} /\ th'[c].pc \in {"close", "idle"}
  BY <1>0, ExchangeSteps DEF TurnPasses, Comes
<1>3. ~Exchanging(c)' /\ ~Leaving(c)'
  BY <1>2 DEF Exchanging, Leaving, Cancelling
<1>4. Ownership'
  BY <1>0, <1>1, <1>2, OwnershipStays DEF SInv
<1>5. ExchangedOnce'
  BY <1>0, <1>1, <1>2, <1>3, ExchangeStays DEF SInv
<1>6. CancelledOnce'
  BY <1>0, <1>1, <1>2, CancelStays DEF SInv
<1>7. CancelledInstead'
  BY <1>0, <1>1, <1>2, <1>3, InsteadStays DEF SInv
<1> QED BY <1>0, <1>1, <1>4, <1>5, <1>6, <1>7 DEF SInv, SettledOnce

LEMMA CompleteKeeps ==
  ASSUME SInv, NEW c \in Traders, Complete(c)
  PROVE  SInv'
BY HandshakeKeeps, FetchKeeps, GivenUpKeeps, ClearKeeps, DeliverItemKeeps, DeliverMesosKeeps,
   ForgetKeeps, CloseKeeps
   DEF Complete

-----------------------------------------------------------------------------
(* Cancelling.                                                             *)

LEMMA CallCancelKeeps ==
  ASSUME SInv, NEW t \in Threads, NEW c \in Traders, CallCancel(t, c)
  PROVE  SInv'
<1>0. TInv' /\ TInv
  BY CancelKeepsTypes DEF SInv
<1>1. /\ departed' /\ locked \subseteq Traders
      /\ UNCHANGED <<inventory, items, exchangeItems, locked, open, monitor, refunds, deliveries,
                     torn>>
  BY <1>0, Typed DEF CallCancel, window, counts
<1>2. Moves(t) /\ th'[t].good = {} /\ th'[t].pc = "cancel"
  BY <1>0, CancelSteps DEF Comes
<1>3. ~Exchanging(t)'
  BY <1>2 DEF Exchanging
<1>4. Ownership'
  BY <1>0, <1>1, <1>2, OwnershipStays DEF SInv
<1>5. ExchangedOnce'
  BY <1>0, <1>1, <1>2, <1>3, ExchangeStays DEF SInv
<1>6. CancelledOnce'
  BY <1>0, <1>1, <1>2, CancelStays DEF SInv
<1> QED BY <1>0, <1>1, <1>4, <1>5, <1>6 DEF SInv, SettledOnce, CancelledInstead

\* Nothing has been given back of a trade that is still there inside the monitor.
LEMMA CancelEnterKeeps ==
  ASSUME SInv, NEW t \in Threads, CancelEnter(t)
  PROVE  SInv'
<1>0. TInv' /\ TInv
  BY CancelKeepsTypes DEF SInv, Cancel
<1>1. /\ monitor = {} /\ th[t].pc = "cancel" /\ locked \subseteq Traders
      /\ UNCHANGED <<inventory, items, exchangeItems, locked, open, refunds, deliveries, departed,
                     torn>>
  BY <1>0, Typed DEF CancelEnter, At, window, history, counts
<1>2. Moves(t) /\ th'[t].good = {} /\ th'[t].seen = {} /\ th'[t].pc \in {"refund", "idle"}
  BY <1>0, CancelSteps DEF Comes
<1>3. ~Exchanging(t)' /\ Leaving(t)
  BY <1>1, <1>2 DEF Exchanging, Leaving
<1>4. Ownership'
  BY <1>0, <1>1, <1>2, OwnershipStays DEF SInv
<1>5. ExchangedOnce'
  BY <1>0, <1>1, <1>2, <1>3, ExchangeStays DEF SInv
<1>6. CancelledOnce'
  <2>1. CASE monitor' = monitor /\ th'[t].pc = "idle"
    BY <1>0, <1>1, <1>2, <2>1, CancelStays DEF SInv
  <2>2. ASSUME open # {}, monitor' = {t} PROVE CancelledOnce'
    <3> SUFFICES ASSUME ~torn PROVE CancelledOnce'
      BY <1>1 DEF CancelledOnce
    <3>1. \A d \in Traders : Unrefunded(d)
      BY <1>1, <2>2 DEF SInv, CancelledOnce
    <3>2. \A d \in Traders : UnrefundedBut(d, th[t].seen)' /\ Unrefunded(Partner(d))'
      BY <1>1, <1>2, <3>1, Partners DEF Unrefunded, UnrefundedBut
    <3>3. CancelAt(t)'
      BY <1>2, <3>2 DEF CancelAt
    <3> QED BY <1>0, <1>2, <2>2, <3>3, CancelGoes
  <2> QED BY <1>0, <2>1, <2>2, CancelSteps DEF Comes
<1>7. CancelledInstead'
  BY <1>0, <1>1, <1>2, <1>3, InsteadStays DEF SInv
<1> QED BY <1>0, <1>1, <1>4, <1>5, <1>6, <1>7 DEF SInv, SettledOnce

\* What is given back belonged to that player, and had not been before: one item,
\* or the mesos.
LEMMA RefundFrame ==
  ASSUME SInv, TInv', NEW t \in Threads, NEW d \in Traders, NEW S \in SUBSET items[d],
         th[t].pc = "refund", Both(t, d) \/ Last(t, d),
         ~torn => S \intersect th[t].seen = {},
         Receive(d, S), refunds' = Count(refunds, S),
         UNCHANGED <<items, exchangeItems, locked, open, monitor, deliveries, departed, torn>>,
         Moves(t), th'[t].todo = th[t].todo, th'[t].good \subseteq th[t].good,
         \/ th'[t].pc = "refund" /\ th'[t].seen = th[t].seen \union S /\ S \subseteq Items
         \/ th'[t].pc = "empty"
  PROVE  SInv'
<1>0. TInv /\ locked \subseteq Traders
  BY Typed DEF SInv
<1>1. ~Exchanging(t)' /\ Leaving(t) /\ Cancelling(t) /\ monitor' = {t}
  BY <1>0 DEF Exchanging, Leaving, Cancelling, TInv, MonitorHeld
<1>2. /\ S \subseteq Own(d) /\ Own(d) \subseteq Goods /\ Partner(d) \in Traders
      /\ Own(d) \intersect Own(Partner(d)) = {} /\ Own(Partner(d)) \subseteq Goods
  BY Partners, OwnSides DEF SInv, Ownership
<1>3. \A g \in Goods \ S : refunds'[g] = refunds[g]
  BY <1>0, Typed, Counts
<1>4. Ownership'
  <2>1. S \subseteq Goods
    BY <1>2
  <2>2. /\ \A e \in Traders \ {d} : inventory'[e] = inventory[e]
        /\ inventory'[d] \subseteq inventory[d] \union S
    BY <1>0, <2>1, Receives
  <2>3. \A e \in Traders : \A g \in inventory'[e] : deliveries'[g] = 0 => g \in Own(e)
    BY <1>2, <2>2 DEF SInv, Ownership
  <2>4. \A e \in Traders : items'[e] \subseteq Own(e) /\ exchangeItems'[e] \subseteq Own(Partner(e))
    BY DEF SInv, Ownership
  <2> QED BY <1>0, <2>3, <2>4, OwnershipKept DEF SInv
<1>5. ExchangedOnce'
  BY <1>0, <1>1, ExchangeStays DEF SInv
<1>6. CancelledOnce' /\ SettledOnce'
  <2>1. CASE torn
    BY <2>1 DEF CancelledOnce, SInv, SettledOnce
  <2>2. CASE ~torn
    <3>1. /\ th[t].seen \subseteq Items /\ UnrefundedBut(d, th[t].seen)
          /\ Both(t, d) => Unrefunded(Partner(d))
      BY <2>2 DEF SInv, CancelledOnce, CancelAt
    <3>2. \A g \in S : refunds[g] = 0
      BY <1>2, <2>2, <3>1 DEF UnrefundedBut
    <3>3. \A g \in S : refunds'[g] <= 1
      BY <1>0, <1>2, <3>2, Typed, Counts
    <3>4. Both(t, d) => Unrefunded(Partner(d))'
      BY <1>2, <1>3, <3>1 DEF Unrefunded, UnrefundedBut
    <3>5. \A e \in Traders : /\ Both(t, e)' => e = d /\ Both(t, d)
                             /\ Last(t, e)' => e = d
      BY SameLeft
    <3>6. CancelAt(t)'
      <4>1. CASE th'[t].pc = "empty"
        BY <3>4, <3>5, <4>1 DEF CancelAt
      <4>2. CASE th'[t].pc = "refund" /\ th'[t].seen = th[t].seen \union S /\ S \subseteq Items
        <5>1. UnrefundedBut(d, th[t].seen)'
          BY <1>2, <1>3, <3>1, <4>2 DEF UnrefundedBut
        <5>2. th'[t].seen \subseteq Items
          BY <3>1, <4>2
        <5> QED BY <3>4, <3>5, <4>2, <5>1, <5>2 DEF CancelAt
      <4> QED BY <4>1, <4>2
    <3>7. CancelledOnce'
      BY <1>0, <1>1, <3>6, CancelGoes
    <3>8. SettledOnce'
      BY <1>3, <3>3 DEF SInv, SettledOnce
    <3> QED BY <3>7, <3>8
  <2> QED BY <2>1, <2>2
<1>7. CancelledInstead'
  <2>1. ~departed => /\ locked = Traders
                     /\ \A e \in Traders : Undelivered(e) /\ ~Exchanging(e)
    BY <1>1 DEF SInv, CancelledInstead
  <2>2. ~departed => /\ \A e \in Traders : Undelivered(e)' /\ ~Exchanging(e)'
                     /\ \A u \in Threads : Leaving(u)' => u \in Traders
    <3>1. \A e \in Traders : Undelivered(e)' <=> Undelivered(e)
      BY DEF Undelivered, UndeliveredBut
    <3>2. \A e \in Traders : Exchanging(e)' => Exchanging(e)
      BY <1>1, TradersAreThreads DEF Moves, Exchanging
    <3>3. \A u \in Threads : Leaving(u)' => Leaving(u)
      BY <1>1 DEF Moves, Leaving, Cancelling
    <3> QED BY <2>1, <3>1, <3>2, <3>3 DEF SInv, CancelledInstead
  <2> QED BY <2>1, <2>2 DEF CancelledInstead
<1> QED BY <1>4, <1>5, <1>6, <1>7 DEF SInv

LEMMA RefundItemKeeps ==
  ASSUME SInv, NEW t \in Threads, NEW g \in Items, RefundItem(t, g)
  PROVE  SInv'
<1>0. TInv' /\ TInv
  BY CancelKeepsTypes DEF SInv, Cancel
<1>1. PICK d \in Traders : TurnSees(t, d, g)
  BY <1>0, CancelSteps
<1>2. /\ th[t].pc = "refund" /\ Receive(d, {g}) /\ g \in items[d] /\ g \notin th[t].seen
      /\ refunds' = Count(refunds, {g})
      /\ UNCHANGED <<items, exchangeItems, locked, open, monitor, deliveries, departed, torn>>
  BY <1>1 DEF RefundItem, TurnSees, At, window
<1>3. /\ Both(t, d) \/ Last(t, d)
      /\ Moves(t) /\ th'[t].todo = th[t].todo /\ th'[t].good \subseteq th[t].good
      /\ th'[t].pc = "refund" /\ th'[t].seen = th[t].seen \union {g}
  BY <1>1, <1>2 DEF TurnSees
<1>4. {g} \in SUBSET items[d] /\ {g} \intersect th[t].seen = {} /\ {g} \subseteq Items
  BY <1>2
<1> QED BY <1>0, <1>2, <1>3, <1>4, RefundFrame

LEMMA RefundMesosKeeps ==
  ASSUME SInv, NEW t \in Threads, RefundMesos(t)
  PROVE  SInv'
<1>0. TInv' /\ TInv
  BY CancelKeepsTypes DEF SInv, Cancel
<1>1. PICK d \in Traders : TurnGoes(t, d, "empty")
  BY <1>0, CancelSteps
<1> DEFINE S == items[d] \intersect Mesos
<1>2. /\ th[t].pc = "refund" /\ Receive(d, S) /\ refunds' = Count(refunds, S)
      /\ UNCHANGED <<items, exchangeItems, locked, open, monitor, deliveries, departed, torn>>
  BY <1>1 DEF RefundMesos, TurnGoes, At, window
<1>3. /\ Both(t, d) \/ Last(t, d)
      /\ Moves(t) /\ th'[t].todo = th[t].todo /\ th'[t].good \subseteq th[t].good
      /\ th'[t].pc = "empty"
  BY <1>1 DEF TurnGoes, Comes
<1>4. ~torn => th[t].seen \subseteq Items
  BY <1>2 DEF SInv, CancelledOnce, CancelAt
<1>5. S \in SUBSET items[d] /\ (~torn => S \intersect th[t].seen = {})
  BY <1>4, TradeAssumption
<1> HIDE DEF S
<1> QED BY <1>0, <1>2, <1>3, <1>5, RefundFrame

LEMMA EmptyKeeps ==
  ASSUME SInv, NEW t \in Threads, Empty(t)
  PROVE  SInv'
<1>0. TInv' /\ TInv
  BY CancelKeepsTypes DEF SInv, Cancel
<1>1. PICK d \in Traders : TurnPasses(t, d, "refund", "closeBoth", <<>>)
  BY <1>0, CancelSteps
<1>2. /\ th[t].pc = "empty"
      /\ items' = [items EXCEPT ![d] = {}] /\ exchangeItems' = [exchangeItems EXCEPT ![d] = {}]
      /\ UNCHANGED <<inventory, locked, open, monitor, refunds, deliveries, departed, torn>>
      /\ locked \subseteq Traders
  BY <1>0, <1>1, Typed DEF Empty, TurnPasses, At, history, counts
<1>3. /\ Moves(t) /\ th'[t].good = {} /\ th'[t].seen = {}
      /\ th'[t].pc \in {"refund", "closeBoth"}
  BY <1>1 DEF TurnPasses, Comes
<1>4. ~Exchanging(t)' /\ Leaving(t) /\ monitor' = {t}
  BY <1>0, <1>2, <1>3 DEF Exchanging, Leaving, Cancelling, TInv, MonitorHeld
<1>5. Ownership'
  <2>1. \A e \in Traders : items'[e] \subseteq items[e] /\ exchangeItems'[e] \subseteq exchangeItems[e]
    BY <1>0, <1>2, Typed
  <2>2. \A e \in Traders :
            /\ items'[e] \subseteq Own(e) /\ exchangeItems'[e] \subseteq Own(Partner(e))
            /\ \A g \in inventory'[e] : deliveries'[g] = 0 => g \in Own(e)
    BY <1>2, <2>1 DEF SInv, Ownership
  <2> QED BY <1>0, <1>3, <2>2, OwnershipKept DEF SInv
<1>6. ExchangedOnce'
  BY <1>0, <1>2, <1>3, <1>4, ExchangeStays DEF SInv
<1>7. CancelledOnce'
  <2> SUFFICES ASSUME ~torn PROVE CancelledOnce'
    BY <1>2 DEF CancelledOnce
  <2>1. CASE th'[t].pc = "closeBoth"
    <3>1. CancelAt(t)'
      BY <2>1 DEF CancelAt
    <3> QED BY <1>0, <1>3, <1>4, <3>1, CancelGoes
  <2>2. CASE th'[t].pc = "refund"
    <3>1. Both(t, d) /\ th'[t].todo = <<Partner(d)>> /\ Partner(d) \in Traders
      BY <1>1, <2>2, Partners DEF TurnPasses, Comes
    <3>2. UnrefundedBut(Partner(d), th[t].seen)'
      BY <1>2, <1>3, <3>1 DEF SInv, CancelledOnce, CancelAt, Unrefunded, UnrefundedBut
    <3>3. CancelAt(t)'
      BY <1>3, <2>2, <3>1, <3>2, OneLeft DEF CancelAt
    <3> QED BY <1>0, <1>3, <1>4, <3>3, CancelGoes
  <2> QED BY <1>3, <2>1, <2>2
<1>8. CancelledInstead'
  BY <1>0, <1>2, <1>3, <1>4, InsteadStays DEF SInv
<1> QED BY <1>0, <1>2, <1>5, <1>6, <1>7, <1>8 DEF SInv, SettledOnce

\* The cancel is over, or torn.
LEMMA CancelEndKeeps ==
  ASSUME SInv, NEW t \in Threads, CloseBoth(t) \/ RefundThrows(t)
  PROVE  SInv'
<1>0. TInv' /\ TInv
  BY CancelKeepsTypes DEF SInv, Cancel
<1>1. /\ (torn' = torn /\ open' = {}) \/ torn'
      /\ monitor' = monitor \ {t} /\ Cancelling(t) /\ locked \subseteq Traders
      /\ torn => torn'
      /\ UNCHANGED <<inventory, items, exchangeItems, locked, refunds, deliveries, departed>>
  BY <1>0, Typed DEF CloseBoth, RefundThrows, At, Cancelling, window, history, counts
<1>2. Moves(t) /\ th'[t].good = {} /\ th'[t].pc = "idle"
  BY <1>0, CancelSteps DEF Comes
<1>3. ~Exchanging(t)' /\ ~Leaving(t)'
  BY <1>2 DEF Exchanging, Leaving, Cancelling
<1>4. Ownership'
  BY <1>0, <1>1, <1>2, OwnershipStays DEF SInv
<1>5. ExchangedOnce'
  BY <1>0, <1>1, <1>2, <1>3, ExchangeStays DEF SInv
<1>6. CancelledOnce'
  <2>1. monitor' = {}
    BY <1>0, <1>1 DEF TInv, MonitorHeld
  <2>2. \A u \in Threads : ~Cancelling(u)'
    BY <1>0, <2>1 DEF TInv, MonitorHeld
  <2>3. \A u \in Threads : CancelAt(u)'
    BY <2>2 DEF CancelAt, Cancelling
  <2> QED BY <1>1, <2>3 DEF CancelledOnce
<1>7. CancelledInstead'
  BY <1>0, <1>1, <1>2, <1>3, InsteadStays DEF SInv
<1>8. SettledOnce'
  BY <1>1 DEF SInv, SettledOnce
<1> QED BY <1>0, <1>4, <1>5, <1>6, <1>7, <1>8 DEF SInv

-----------------------------------------------------------------------------
(* The theorems.                                                           *)

LEMMA SInit == Init => SInv
<1> SUFFICES ASSUME Init PROVE SInv
  OBVIOUS
<1>1. Idle.pc = "idle" /\ Idle.good = {}
  BY DEF Idle
<1>2. \A t \in Threads : th[t].pc = "idle" /\ th[t].good = {}
  BY <1>1 DEF Init
<1>3. Ownership
  BY <1>2, TradersAreThreads DEF Init, Ownership, Own
<1>4. ExchangedOnce /\ CancelledInstead
  <2>1. \A d \in Traders : Undelivered(d)
    BY OwnSides, Partners DEF Init, Undelivered, UndeliveredBut
  <2>2. \A g \in Goods : ~(refunds[g] > 0)
    BY DEF Init
  <2> QED BY <1>2, <2>1, <2>2, TradersAreThreads
             DEF ExchangedOnce, CancelledInstead, Exchanging, Leaving, Cancelling
<1>5. CancelledOnce
  BY <1>2, OwnSides DEF Init, CancelledOnce, Unrefunded, UnrefundedBut, CancelAt
<1>6. SettledOnce
  BY DEF Init, SettledOnce
<1> QED BY <1>3, <1>4, <1>5, <1>6, TInit DEF SInv

LEMMA SStep == SInv /\ [Next]_vars => SInv'
<1> SUFFICES ASSUME SInv, [Next]_vars PROVE SInv'
  OBVIOUS
<1>1. CASE UNCHANGED vars
  <2>1. UNCHANGED <<inventory, items, exchangeItems, locked, open, monitor, th, refunds,
                    deliveries, departed, torn>>
    BY <1>1 DEF vars, window, history, counts
  <2>2. TInv'
    BY TStep DEF SInv
  <2>3. Ownership' /\ SettledOnce'
    BY <2>1 DEF SInv, Ownership, SettledOnce
  <2>4. ExchangedOnce'
    BY <2>1 DEF SInv, ExchangedOnce, Undelivered, UndeliveredBut, Exchanging, ExchangeAt, Both, Last
  <2>5. CancelledOnce'
    BY <2>1 DEF SInv, CancelledOnce, Unrefunded, UnrefundedBut, CancelAt, Both, Last
  <2>6. CancelledInstead'
    BY <2>1 DEF SInv, CancelledInstead, Undelivered, UndeliveredBut, Exchanging, Leaving, Cancelling
  <2> QED BY <2>2, <2>3, <2>4, <2>5, <2>6 DEF SInv
<1>2. ASSUME NEW c \in Traders, \E g \in Goods : SetMeso(c, g) \/ SetItem(c, g) PROVE SInv'
  BY <1>2, OfferKeeps
<1>3. ASSUME NEW c \in Traders, CallConfirm(c) \/ Move(c) PROVE SInv'
  BY <1>3, MoveKeeps
<1>4. ASSUME NEW c \in Traders, Complete(c) PROVE SInv'
  BY <1>4, CompleteKeeps
<1>5. ASSUME NEW t \in Threads, NEW c \in Traders, CallCancel(t, c) PROVE SInv'
  BY <1>5, CallCancelKeeps
<1>6. ASSUME NEW t \in Threads, Cancel(t) PROVE SInv'
  BY <1>6, CancelEnterKeeps, RefundItemKeeps, RefundMesosKeeps, EmptyKeeps, CancelEndKeeps DEF Cancel
<1> QED BY <1>1, <1>2, <1>3, <1>4, <1>5, <1>6 DEF Next

\* However the two confirm, however often, and whoever cancels when: no good is
\* handed over twice, and none is given back twice unless an exception ended a
\* cancel.
THEOREM SettledAtMostOnce == Spec => []SettledOnce
<1>1. SInv => SettledOnce
  BY DEF SInv
<1> QED BY <1>1, SInit, SStep, PTL DEF Spec

\* While both players stay a trade never gives goods back to one of them and
\* hands over goods of the other.
THEOREM OutcomeIsOne == Spec => []OneOutcome
<1>1. SInv => OneOutcome
  <2> SUFFICES ASSUME SInv, ~departed, NEW g \in Goods, NEW h \in Goods, refunds[g] > 0
               PROVE  ~(deliveries[h] > 0)
    BY DEF OneOutcome
  <2>1. \A d \in Traders : Undelivered(d)
    BY DEF SInv, CancelledInstead
  <2>2. PICK d \in Traders : h \in Own(Partner(d))
    BY OwnSides, Partners
  <2> QED BY <2>1, <2>2 DEF Undelivered, UndeliveredBut
<1> QED BY <1>1, SInit, SStep, PTL DEF Spec

-----------------------------------------------------------------------------
(* Where the goods are, while both players stay and no cancel is torn.     *)

\* What of its own a player offered in time, or not at all, and what was not
\* refused.
Kept(d) == Own(d) \ (late \union refused)

\* A good of d is in its half and nowhere else, or was not offered; its partner
\* is to receive it if it was.
Offered(d, g) == (g \in items[d] <=> g \notin inventory[d]) /\ g \notin inventory[Partner(d)]
Fetched(d, g) == g \in exchangeItems[Partner(d)] <=> g \notin inventory[d]

\* On the way: out of the half and not received yet, or received and still there.
Taken(d, g)    == g \notin items[d] /\ Fetched(d, g) /\ g \notin inventory[Partner(d)]
Received(d, g) == /\ g \in items[d] <=> g \notin inventory[d]
                  /\ g \in inventory[Partner(d)] <=> g \notin inventory[d]

\* Given back, and perhaps still in the half.
Returned(d, g) == g \in inventory[d] /\ g \notin inventory[Partner(d)]

\* In one inventory and not in the half.
Placed(d, g) == g \notin items[d] /\ (g \in inventory[Partner(d)] <=> g \notin inventory[d])

\* A good that moves into a half is in neither place, or in both.
Offering(d) ==
    /\ \A g \in Kept(d) :
          IF g \in th[d].good /\ th[d].pc = "addMeso"
            THEN g \notin items[d] /\ g \notin inventory[d]
          ELSE IF g \in th[d].good /\ th[d].pc = "removeItem"
            THEN g \in items[d]
          ELSE g \in items[d] <=> g \notin inventory[d]
    /\ th[d].pc = "addMeso" => th[d].seen = items[d] \intersect Mesos

\* From the handshake on, until both windows are closed.
Settles(t) == Exchanging(t) \/ th[t].pc = "close" \/ Leaving(t)

\* Where a good of d is at each stage of the thread that settles the trade.
GoodAt(t, d, g) ==
    LET p == Partner(d)
        s == g \in th[t].seen
    IN  /\ th[t].pc \in {"fetch", "check", "cancel"} => Offered(d, g)
        /\ (th[t].pc = "fetch" /\ Last(t, d)) \/ th[t].pc = "check" => Fetched(d, g)
        /\ th[t].pc = "clear" =>
              /\ Both(t, d) \/ Both(t, p) => Offered(d, g) /\ Fetched(d, g)
              /\ Last(t, d) => Received(d, g)
              /\ Last(t, p) => Taken(d, g)
        /\ th[t].pc = "deliver" =>
              /\ Both(t, d) => Taken(d, g)
              /\ Both(t, p) => IF s THEN Received(d, g) ELSE Offered(d, g) /\ Fetched(d, g)
              /\ Last(t, d) => Placed(d, g)
              /\ Last(t, p) => IF s THEN Placed(d, g) ELSE Taken(d, g)
        /\ th[t].pc = "forget" =>
              /\ Both(t, d) => Taken(d, g)
              /\ Both(t, p) => Received(d, g)
              /\ Last(t, d) \/ Last(t, p) => Placed(d, g)
        /\ th[t].pc = "refund" =>
              /\ Both(t, d) \/ Last(t, d) => IF s THEN Returned(d, g) ELSE Offered(d, g)
              /\ Both(t, p) => Offered(d, g)
              /\ Last(t, p) => Placed(d, g)
        /\ th[t].pc = "empty" =>
              /\ Both(t, d) \/ Last(t, d) => Returned(d, g)
              /\ Both(t, p) => Offered(d, g)
              /\ Last(t, p) => Placed(d, g)
        /\ th[t].pc \in {"close", "closeBoth"} => Placed(d, g)

Stage(t) ==
    /\ th[t].pc \in {"fetch", "check", "cancel"} => open = Traders
    /\ \A d \in Traders :
          /\ th[t].pc = "refund" /\ (Both(t, d) \/ Last(t, d))
                => th[t].seen \subseteq items[d] \intersect Items
          /\ \A g \in Kept(d) : GoodAt(t, d, g)

\* A player that has confirmed moves nothing into the window but a late item.
NothingPending ==
    \A c \in locked : /\ th[c].pc # "addMeso"
                      /\ th[c].pc = "removeItem" => th[c].good \subseteq late

AllPlaced == \A d \in Traders : \A g \in Kept(d) : Placed(d, g)

\* Before both have confirmed the goods are divided; then one thread settles the
\* trade, and in the end they are placed.
Settlement ==
    ~departed /\ ~torn =>
        /\ th[Warper].pc = "idle"
        /\ \A t \in stale : th[t].pc = "refund"
        /\ locked # Traders =>
              open = Traders /\ \A c \in Traders : Offering(c) /\ ~Settles(c)
        /\ locked = Traders =>
              /\ \A c \in Traders : Settles(c) => Stage(c) /\ ~Settles(Partner(c))
              /\ (\A c \in Traders : ~Settles(c)) => AllPlaced

KInv == SInv /\ NothingPending /\ Settlement

Calm == ~departed /\ ~torn

-----------------------------------------------------------------------------
(* The thread that settles the trade.                                      *)

LEMMA StageKnown ==
  ASSUME KInv, Calm, NEW t \in Threads, Settles(t)
  PROVE  /\ t \in Traders /\ locked = Traders /\ Stage(t) /\ ~Settles(Partner(t))
         /\ TInv /\ Ownership /\ Partner(t) \in Traders
<1>1. t \in Traders
  BY TradersAreThreads DEF KInv, Calm, Settlement, Settles, Exchanging, Leaving, Cancelling
<1>2. locked = Traders
  BY <1>1 DEF KInv, Calm, Settlement
<1> QED BY <1>1, <1>2, Partners DEF KInv, Calm, Settlement, SInv

\* What belongs to one player is not touched by what is done with the other's.
LEMMA Sides ==
  ASSUME TInv, Ownership, NEW d \in Traders
  PROVE  /\ Partner(d) \in Traders /\ Partner(d) # d /\ Partner(Partner(d)) = d
         /\ Traders = {d, Partner(d)}
         /\ inventory \in [Traders -> SUBSET Goods] /\ items \in [Traders -> SUBSET Goods]
         /\ exchangeItems \in [Traders -> SUBSET Goods]
         /\ Kept(d) \subseteq Own(d) /\ Own(d) \subseteq Goods
         /\ \A g \in Own(d) : /\ g \notin Own(Partner(d)) /\ g \notin items[Partner(d)]
                              /\ g \notin exchangeItems[d]
<1>1. /\ Partner(d) \in Traders /\ Partner(d) # d /\ Partner(Partner(d)) = d
      /\ Traders = {d, Partner(d)}
  BY Partners
<1>2. Own(d) \subseteq Goods /\ Own(d) \intersect Own(Partner(d)) = {}
  BY OwnSides
<1>3. items[Partner(d)] \subseteq Own(Partner(d)) /\ exchangeItems[d] \subseteq Own(Partner(d))
  BY <1>1 DEF Ownership
<1> QED BY <1>1, <1>2, <1>3, Typed DEF Kept

\* What a thread has before it if it stays with the same ...
LEMMA SameAhead ==
  ASSUME NEW t \in Threads, NEW d \in Traders, Both(t, d) \/ Last(t, d), th'[t].todo = th[t].todo
  PROVE  \A e \in Traders : /\ Both(t, e)' <=> Both(t, e)
                            /\ Last(t, e)' <=> Last(t, e)
                            /\ Both(t, e) \/ Last(t, e) <=> e = d
<1>1. \A e \in Traders : (Both(t, e)' <=> Both(t, e)) /\ (Last(t, e)' <=> Last(t, e))
  BY Partners DEF Both, Last
<1>2. \A e \in Traders : Both(t, e) \/ Last(t, e) => e = d
  BY <1>1, SameLeft
<1> QED BY <1>1, <1>2

\* ... goes on to the other ...
LEMMA OtherAhead ==
  ASSUME NEW t \in Threads, NEW d \in Traders, Both(t, d), th'[t].todo = <<Partner(d)>>
  PROVE  /\ \A e \in Traders : ~Both(t, e)' /\ (Last(t, e)' <=> e = Partner(d))
         /\ \A e \in Traders : ~Last(t, e) /\ (Both(t, e) <=> e = d)
<1>1. Partner(d) \in Traders
  BY Partners
<1>2. \A e \in Traders : ~Both(t, e)' /\ (Last(t, e)' <=> e = Partner(d))
  BY <1>1, OneLeft DEF Last
<1>3. \A e \in Traders : <<d, Partner(d)>> # <<e>>
  BY <1>1
<1>4. \A e \in Traders : <<d, Partner(d)>> = <<e, Partner(e)>> => e = d
  OBVIOUS
<1> QED BY <1>2, <1>3, <1>4 DEF Both, Last

\* ... or is done with the second.
LEMMA NoneAhead ==
  ASSUME NEW t \in Threads, NEW d \in Traders, Last(t, d)
  PROVE  \A e \in Traders : ~Both(t, e) /\ (Last(t, e) <=> e = d)
<1>1. \A e \in Traders : <<d>> # <<e, Partner(e)>>
  BY Partners
<1>2. \A e \in Traders : <<d>> = <<e>> => e = d
  OBVIOUS
<1> QED BY <1>1, <1>2 DEF Both, Last

LEMMA FirstAhead ==
  ASSUME NEW t \in Threads, NEW d \in Traders, th'[t].todo = <<d, Partner(d)>>
  PROVE  \A e \in Traders : ~Last(t, e)' /\ (Both(t, e)' <=> e = d)
BY TwoLeft DEF Both

LEMMA FetchStage ==
  ASSUME KInv, Calm, NEW c \in Traders, Fetch(c)
  PROVE  Stage(c)'
<1>1. /\ c \in Threads /\ th[c].pc = "fetch" /\ Settles(c) /\ Stage(c) /\ TInv /\ Ownership
      /\ open = Traders
  <2>1. c \in Threads /\ th[c].pc = "fetch" /\ Settles(c)
    BY TradersAreThreads DEF Fetch, At, Settles, Exchanging
  <2> QED BY <2>1, StageKnown DEF Stage
<1>2. PICK d \in Traders : TurnPasses(c, d, "fetch", "check", <<>>)
  BY <1>1, ExchangeSteps
<1>3. /\ exchangeItems' = [exchangeItems EXCEPT ![d] = items[Partner(d)]]
      /\ UNCHANGED <<inventory, items, open, late, refused>>
  BY <1>2 DEF Fetch, TurnPasses, history, counts
<1>4. th'[c].pc \in {"fetch", "check"}
  BY <1>2 DEF TurnPasses, Comes
<1>5. ASSUME NEW e \in Traders, NEW g \in Kept(e)' PROVE GoodAt(c, e, g)'
  <2>1. g \in Own(e) /\ g \in Kept(e) /\ GoodAt(c, e, g)
    BY <1>1, <1>3, <1>5 DEF Kept, Stage
  <2>2. Offered(e, g) /\ Offered(e, g)'
    BY <1>1, <1>3, <2>1 DEF GoodAt, Offered
  <2>3. e # d => Fetched(e, g)'
    <3>1. e # d => Partner(e) = d /\ e = Partner(d)
      BY <1>1, Sides
    <3>2. exchangeItems'[d] = items[Partner(d)]
      BY <1>1, <1>3, Sides
    <3> QED BY <1>3, <2>2, <3>1, <3>2 DEF Fetched, Offered
  <2>4. CASE Both(c, d) /\ Comes(c, "fetch", <<Partner(d)>>)
    <3>1. Last(c, e)' => e # d
      BY <1>1, <2>4, OtherAhead, Partners DEF Comes
    <3> QED BY <2>2, <2>3, <2>4, <3>1 DEF GoodAt, Comes
  <2>5. CASE Last(c, d) /\ Comes(c, "check", <<>>)
    <3>1. e = d => Fetched(e, g)
      BY <1>1, <2>1, <2>5 DEF GoodAt
    <3>2. e = d => exchangeItems'[Partner(e)] = exchangeItems[Partner(e)]
      BY <1>1, <1>3, Sides
    <3>3. Fetched(e, g)'
      BY <1>3, <2>3, <3>1, <3>2 DEF Fetched
    <3> QED BY <2>2, <2>5, <3>3 DEF GoodAt, Comes
  <2> QED BY <1>2, <2>4, <2>5 DEF TurnPasses
<1> QED BY <1>1, <1>3, <1>4, <1>5 DEF Stage

LEMMA CheckStage ==
  ASSUME KInv, Calm, NEW c \in Traders, CheckFits(c) \/ CheckFails(c)
  PROVE  Stage(c)' /\ th'[c].pc \in {"clear", "cancel"}
<1>1. /\ c \in Threads /\ th[c].pc = "check" /\ Settles(c) /\ Stage(c) /\ TInv /\ Ownership
      /\ open = Traders
  <2>1. c \in Threads /\ th[c].pc = "check" /\ Settles(c)
    BY TradersAreThreads DEF CheckFits, CheckFails, At, Settles, Exchanging
  <2> QED BY <2>1, StageKnown DEF Stage
<1>2. UNCHANGED <<inventory, items, exchangeItems, open, late, refused>>
  BY DEF CheckFits, CheckFails, window, history, counts
<1>3. ASSUME NEW e \in Traders, NEW g \in Kept(e)' PROVE Offered(e, g)' /\ Fetched(e, g)'
  <2>1. g \in Kept(e) /\ GoodAt(c, e, g)
    BY <1>1, <1>2, <1>3 DEF Kept, Stage
  <2> QED BY <1>1, <1>2, <2>1 DEF GoodAt, Offered, Fetched
<1>4. CASE CheckFits(c)
  <2>1. Comes(c, "clear", <<c, Partner(c)>>)
    BY <1>1, <1>4, ExchangeSteps
  <2>2. th'[c].pc = "clear" /\ \A e \in Traders : ~Last(c, e)'
    BY <1>1, <2>1, FirstAhead DEF Comes
  <2>3. ASSUME NEW e \in Traders, NEW g \in Kept(e)' PROVE GoodAt(c, e, g)'
    BY <1>3, <2>2, <2>3, Partners DEF GoodAt
  <2> QED BY <2>2, <2>3 DEF Stage
<1>5. CASE CheckFails(c)
  <2>1. PICK d \in Traders : Start(c, "cancel", <<d>>)
    BY <1>1, <1>5 DEF CheckFails
  <2>2. th'[c].pc = "cancel"
    BY <1>1, <2>1, StartComes, Todos DEF TInv, Stages, Comes
  <2>3. ASSUME NEW e \in Traders, NEW g \in Kept(e)' PROVE GoodAt(c, e, g)'
    BY <1>3, <2>2, <2>3 DEF GoodAt
  <2> QED BY <1>1, <1>2, <2>2, <2>3 DEF Stage
<1> QED BY <1>4, <1>5

LEMMA ClearStage ==
  ASSUME KInv, Calm, NEW c \in Traders, ClearHalf(c)
  PROVE  Stage(c)'
<1>1. c \in Threads /\ th[c].pc = "clear" /\ Settles(c) /\ Stage(c) /\ TInv /\ Ownership
  <2>1. c \in Threads /\ th[c].pc = "clear" /\ Settles(c)
    BY TradersAreThreads DEF ClearHalf, At, Settles, Exchanging
  <2> QED BY <2>1, StageKnown
<1>2. PICK d \in Traders : TurnGoes(c, d, "deliver")
  BY <1>1, ExchangeSteps
<1>3. /\ items' = [items EXCEPT ![d] = {}]
      /\ UNCHANGED <<inventory, exchangeItems, late, refused>>
      /\ th'[c].pc = "deliver" /\ th'[c].todo = th[c].todo /\ th'[c].seen = {}
      /\ Both(c, d) \/ Last(c, d)
  BY <1>2 DEF ClearHalf, TurnGoes, Comes, history, counts
<1>4. \A e \in Traders : /\ Both(c, e)' <=> Both(c, e)
                         /\ Last(c, e)' <=> Last(c, e)
                         /\ Both(c, e) \/ Last(c, e) <=> e = d
  BY <1>1, <1>3, SameAhead
<1>5. ASSUME NEW e \in Traders, NEW g \in Kept(e)' PROVE GoodAt(c, e, g)'
  <2>1. g \in Kept(e) /\ GoodAt(c, e, g) /\ Partner(e) \in Traders /\ Partner(e) # e
    BY <1>1, <1>3, <1>5, Partners DEF Kept, Stage
  <2>2. CASE e = d
    <3>1. items'[e] = {} /\ ~Both(c, Partner(e)) /\ ~Last(c, Partner(e))
      BY <1>1, <1>3, <1>4, <2>1, <2>2, Sides
    <3> QED BY <1>1, <1>3, <1>4, <2>1, <3>1 DEF GoodAt, Offered, Fetched, Taken, Received, Placed
  <2>3. CASE e # d
    <3>1. items'[e] = items[e] /\ ~Both(c, e) /\ ~Last(c, e)
      BY <1>1, <1>3, <1>4, <2>3, Sides
    <3> QED BY <1>1, <1>3, <1>4, <2>1, <3>1 DEF GoodAt, Offered, Fetched, Taken, Received, Placed
  <2> QED BY <2>2, <2>3
<1> QED BY <1>3, <1>5 DEF Stage

\* A good that is handed over comes to the inventory, unless it is refused.
LEMMA DeliverStage ==
  ASSUME KInv, Calm, NEW c \in Traders,
         (\E g \in Items : DeliverItem(c, g)) \/ DeliverMesos(c)
  PROVE  Stage(c)' /\ th'[c].pc \in {"deliver", "forget"}
<1>1. c \in Threads /\ th[c].pc = "deliver" /\ Settles(c) /\ Stage(c) /\ TInv /\ Ownership
  <2>1. c \in Threads /\ th[c].pc = "deliver" /\ Settles(c)
    BY TradersAreThreads DEF DeliverItem, DeliverMesos, At, Settles, Exchanging
  <2> QED BY <2>1, StageKnown
<1>2. PICK d \in Traders, S \in SUBSET Goods :
         /\ S \subseteq exchangeItems[d] /\ S \intersect th[c].seen = {}
         /\ Both(c, d) \/ Last(c, d)
         /\ Receive(d, S) /\ th'[c].todo = th[c].todo
         /\ UNCHANGED <<items, exchangeItems, late>>
         /\ \/ th'[c].pc = "deliver" /\ th'[c].seen = th[c].seen \union S
            \/ th'[c].pc = "forget" /\ exchangeItems[d] \subseteq th[c].seen \union S
  <2>1. ASSUME NEW g \in Items, DeliverItem(c, g), NEW d \in Traders, TurnSees(c, d, g)
        PROVE  /\ {g} \in SUBSET Goods /\ {g} \subseteq exchangeItems[d]
               /\ {g} \intersect th[c].seen = {}
               /\ Both(c, d) \/ Last(c, d)
               /\ Receive(d, {g}) /\ th'[c].todo = th[c].todo
               /\ UNCHANGED <<items, exchangeItems, late>>
               /\ th'[c].pc = "deliver" /\ th'[c].seen = th[c].seen \union {g}
    BY <1>1, <2>1 DEF DeliverItem, TurnSees, window, Goods
  <2>2. ASSUME DeliverMesos(c), NEW d \in Traders, TurnGoes(c, d, "forget")
        PROVE  /\ exchangeItems[d] \intersect Mesos \in SUBSET Goods
               /\ exchangeItems[d] \intersect Mesos \subseteq exchangeItems[d]
               /\ (exchangeItems[d] \intersect Mesos) \intersect th[c].seen = {}
               /\ Both(c, d) \/ Last(c, d)
               /\ Receive(d, exchangeItems[d] \intersect Mesos) /\ th'[c].todo = th[c].todo
               /\ UNCHANGED <<items, exchangeItems, late>> /\ th'[c].pc = "forget"
               /\ exchangeItems[d] \subseteq th[c].seen \union (exchangeItems[d] \intersect Mesos)
    <3>1. exchangeItems[d] \subseteq Items \union Mesos
      BY <1>1, Sides DEF Goods
    <3>2. /\ Both(c, d) \/ Last(c, d)
          /\ Receive(d, exchangeItems[d] \intersect Mesos) /\ th'[c].todo = th[c].todo
          /\ UNCHANGED <<items, exchangeItems, late>> /\ th'[c].pc = "forget"
          /\ exchangeItems[d] \intersect Items \subseteq th[c].seen
      BY <2>2 DEF DeliverMesos, TurnGoes, Comes, window
    <3>3. th[c].seen \subseteq Items
      BY <1>1 DEF KInv, SInv, ExchangedOnce, ExchangeAt, Exchanging
    <3> QED BY <3>1, <3>2, <3>3, TradeAssumption DEF Goods
  <2>3. \A g \in Items : DeliverItem(c, g) => \E d \in Traders : TurnSees(c, d, g)
    BY <1>1, ExchangeSteps
  <2>4. DeliverMesos(c) => \E d \in Traders : TurnGoes(c, d, "forget")
    BY <1>1, ExchangeSteps
  <2>5. CASE \E g \in Items : DeliverItem(c, g)
    BY <2>1, <2>3, <2>5
  <2>6. CASE DeliverMesos(c)
    BY <2>2, <2>4, <2>6
  <2> QED BY <2>5, <2>6
<1>3. \A e \in Traders : /\ Both(c, e)' <=> Both(c, e)
                         /\ Last(c, e)' <=> Last(c, e)
                         /\ Both(c, e) \/ Last(c, e) <=> e = d
  BY <1>1, <1>2, SameAhead
<1>4. /\ S \subseteq Own(Partner(d)) /\ S \subseteq Goods
      /\ inventory'[Partner(d)] = inventory[Partner(d)]
      /\ inventory[d] \subseteq inventory'[d] /\ inventory'[d] \subseteq inventory[d] \union S
      /\ refused \subseteq refused' /\ S \ refused' \subseteq inventory'[d]
      /\ S \intersect th[c].seen = {}
  <2>1. S \subseteq Own(Partner(d)) /\ S \subseteq Goods
    BY <1>1, <1>2, Typed DEF Ownership
  <2> QED BY <1>1, <1>2, <2>1, Receives, Partners
<1>5. ASSUME NEW e \in Traders, NEW g \in Kept(e)' PROVE GoodAt(c, e, g)'
  <2>1. /\ g \in Kept(e) /\ GoodAt(c, e, g) /\ g \notin refused' /\ g \in Own(e)
        /\ Partner(e) \in Traders /\ Partner(e) # e
    BY <1>1, <1>2, <1>4, <1>5, Partners DEF Kept, Stage
  <2>2. CASE e = d
    <3>1. g \notin S /\ ~Both(c, Partner(e)) /\ ~Last(c, Partner(e))
      BY <1>1, <1>3, <1>4, <2>1, <2>2, Sides
    <3>2. /\ g \in inventory'[e] <=> g \in inventory[e]
          /\ inventory'[Partner(e)] = inventory[Partner(e)]
      BY <1>4, <2>2, <3>1
    <3> QED BY <1>1, <1>2, <1>3, <2>1, <3>1, <3>2 DEF GoodAt, Offered, Fetched, Taken, Received, Placed
  <2>3. CASE e # d
    <3>1. e = Partner(d) /\ Partner(e) = d /\ ~Both(c, e) /\ ~Last(c, e)
      BY <1>1, <1>3, <2>3, Sides
    <3>2. /\ inventory'[e] = inventory[e]
          /\ g \in S => g \in inventory'[Partner(e)] /\ g \in exchangeItems[Partner(e)]
          /\ g \in S => g \notin th[c].seen
          /\ g \notin S => (g \in inventory'[Partner(e)] <=> g \in inventory[Partner(e)])
          /\ items' = items /\ exchangeItems' = exchangeItems
      BY <1>2, <1>4, <2>1, <3>1
    <3>3. /\ Both(c, d) => IF g \in th[c].seen THEN Received(e, g) ELSE Offered(e, g) /\ Fetched(e, g)
          /\ Last(c, d) => IF g \in th[c].seen THEN Placed(e, g) ELSE Taken(e, g)
      BY <1>1, <2>1, <3>1 DEF GoodAt
    <3>4. CASE th'[c].pc = "deliver" /\ th'[c].seen = th[c].seen \union S
      <4>1. g \in th'[c].seen <=> g \in th[c].seen \/ g \in S
        BY <3>4
      <4>2. CASE g \in S
        <5>1. Both(c, d) => Received(e, g)'
          BY <3>2, <3>3, <4>2 DEF Received, Offered, Fetched
        <5>2. Last(c, d) => Placed(e, g)'
          BY <3>2, <3>3, <4>2 DEF Placed, Taken, Fetched
        <5> QED BY <1>3, <2>1, <3>1, <3>4, <4>1, <4>2, <5>1, <5>2 DEF GoodAt
      <4>3. CASE g \notin S
        <5>1. /\ Received(e, g)' <=> Received(e, g)
              /\ Placed(e, g)' <=> Placed(e, g)
              /\ Offered(e, g)' <=> Offered(e, g)
              /\ Fetched(e, g)' <=> Fetched(e, g)
              /\ Taken(e, g)' <=> Taken(e, g)
          BY <3>2, <4>3 DEF Received, Placed, Offered, Fetched, Taken
        <5>2. g \in th'[c].seen <=> g \in th[c].seen
          BY <4>1, <4>3
        <5> QED BY <1>3, <2>1, <3>1, <3>3, <3>4, <5>1, <5>2 DEF GoodAt
      <4> QED BY <4>2, <4>3
    <3>5. CASE th'[c].pc = "forget" /\ exchangeItems[d] \subseteq th[c].seen \union S
      <4>1. g \in exchangeItems[Partner(e)] => g \in th[c].seen \/ g \in S
        BY <3>1, <3>5
      <4>2. Both(c, d) => Received(e, g)'
        <5>1. CASE g \in S
          BY <3>2, <3>3, <5>1 DEF Received, Offered, Fetched
        <5>2. CASE g \notin S
          BY <3>2, <3>3, <4>1, <5>2 DEF Received, Offered, Fetched
        <5> QED BY <5>1, <5>2
      <4>3. Last(c, d) => Placed(e, g)'
        <5>1. CASE g \in S
          BY <3>2, <3>3, <5>1 DEF Placed, Taken, Fetched
        <5>2. CASE g \notin S
          BY <3>2, <3>3, <4>1, <5>2 DEF Placed, Taken, Fetched
        <5> QED BY <5>1, <5>2
      <4> QED BY <1>3, <2>1, <3>1, <3>5, <4>2, <4>3 DEF GoodAt
    <3> QED BY <1>2, <3>4, <3>5
  <2> QED BY <2>2, <2>3
<1> QED BY <1>2, <1>5 DEF Stage

LEMMA ForgetStage ==
  ASSUME KInv, Calm, NEW c \in Traders, Forget(c)
  PROVE  Stage(c)'
<1>1. c \in Threads /\ th[c].pc = "forget" /\ Settles(c) /\ Stage(c) /\ TInv /\ Ownership
  <2>1. c \in Threads /\ th[c].pc = "forget" /\ Settles(c)
    BY TradersAreThreads DEF Forget, At, Settles, Exchanging
  <2> QED BY <2>1, StageKnown
<1>2. PICK d \in Traders : TurnPasses(c, d, "clear", "close", <<Partner(c), c>>)
  BY <1>1, ExchangeSteps
<1>3. /\ exchangeItems' = [exchangeItems EXCEPT ![d] = {}]
      /\ UNCHANGED <<inventory, items, late, refused>>
  BY <1>2 DEF Forget, TurnPasses, history, counts
<1>4. ASSUME NEW e \in Traders, NEW g \in Kept(e)' PROVE GoodAt(c, e, g)'
  <2>1. g \in Kept(e) /\ GoodAt(c, e, g) /\ Partner(e) \in Traders
    BY <1>1, <1>3, <1>4, Partners DEF Kept, Stage
  <2>2. CASE Both(c, d) /\ Comes(c, "clear", <<Partner(d)>>)
    <3>1. /\ ~Both(c, e)' /\ (Last(c, e)' <=> e = Partner(d))
          /\ ~Both(c, Partner(e))' /\ (Last(c, Partner(e))' <=> Partner(e) = Partner(d))
          /\ Both(c, e) <=> e = d
          /\ Both(c, Partner(e)) <=> Partner(e) = d
      BY <1>1, <2>1, <2>2, OtherAhead DEF Comes
    <3>2. e = d \/ e = Partner(d)
      BY <1>1, Sides
    <3>3. Partner(Partner(d)) = d /\ Partner(d) # d
      BY <1>1, Sides
    <3>4. e = d => exchangeItems'[Partner(e)] = exchangeItems[Partner(e)]
      BY <1>1, <1>3, <3>3, Sides
    <3>5. (e = d => Taken(e, g)) /\ (e = Partner(d) => Received(e, g))
      BY <1>1, <2>1, <3>1, <3>3 DEF GoodAt
    <3>6. (e = d => Taken(e, g)') /\ (e = Partner(d) => Received(e, g)')
      BY <1>3, <3>4, <3>5 DEF Taken, Received, Fetched
    <3> QED BY <2>2, <3>1, <3>2, <3>3, <3>6 DEF GoodAt, Comes
  <2>3. CASE Last(c, d) /\ Comes(c, "close", <<Partner(c), c>>)
    <3>1. Last(c, e) \/ Last(c, Partner(e))
      BY <1>1, <2>3, NoneAhead, Partners
    <3>2. Placed(e, g)'
      BY <1>1, <1>3, <2>1, <3>1 DEF GoodAt, Placed
    <3> QED BY <2>3, <3>2 DEF GoodAt, Comes
  <2> QED BY <1>2, <2>2, <2>3 DEF TurnPasses
<1>5. th'[c].pc \in {"clear", "close"}
  BY <1>2 DEF TurnPasses, Comes
<1> QED BY <1>4, <1>5 DEF Stage

LEMMA CloseStage ==
  ASSUME KInv, Calm, NEW t \in Threads, (t \in Traders /\ Close(t)) \/ CloseBoth(t)
  PROVE  Stage(t)' /\ AllPlaced'
<1>1. th[t].pc \in {"close", "closeBoth"} /\ Settles(t) /\ Stage(t) /\ TInv
  <2>1. th[t].pc \in {"close", "closeBoth"} /\ Settles(t)
    BY DEF Close, CloseBoth, At, Settles, Leaving, Cancelling
  <2> QED BY <2>1, StageKnown
<1>2. UNCHANGED <<inventory, items, late, refused>>
  BY DEF Close, CloseBoth, history, counts
<1>3. ASSUME NEW e \in Traders, NEW g \in Kept(e)' PROVE Placed(e, g)'
  <2>1. g \in Kept(e) /\ GoodAt(t, e, g)
    BY <1>1, <1>2, <1>3 DEF Kept, Stage
  <2> QED BY <1>1, <1>2, <2>1 DEF GoodAt, Placed
<1>4. th'[t].pc \in {"close", "idle"}
  BY <1>1, ExchangeSteps, CancelSteps DEF TurnPasses, Comes
<1>5. ASSUME NEW e \in Traders, NEW g \in Kept(e)' PROVE GoodAt(t, e, g)'
  BY <1>3, <1>4, <1>5 DEF GoodAt
<1> QED BY <1>3, <1>4, <1>5 DEF Stage, AllPlaced

LEMMA CancelEnterStage ==
  ASSUME KInv, Calm, NEW t \in Threads, CancelEnter(t)
  PROVE  Stage(t)' /\ th'[t].pc = "refund"
<1>1. /\ th[t].pc = "cancel" /\ Settles(t) /\ Stage(t) /\ TInv /\ Ownership /\ open = Traders
  <2>1. th[t].pc = "cancel" /\ Settles(t)
    BY DEF CancelEnter, At, Settles, Leaving
  <2> QED BY <2>1, StageKnown DEF Stage
<1>2. UNCHANGED <<inventory, items, late, refused>>
  BY DEF CancelEnter, window, history, counts
<1>3. PICK d \in Traders : Turn(t) = d
  BY <1>1, Turns
<1>4. Start(t, "refund", <<d, Partner(d)>>)
  BY <1>1, <1>3 DEF CancelEnter
<1>5. Comes(t, "refund", <<d, Partner(d)>>)
  BY <1>1, <1>4, StartComes, Todos, Partners DEF TInv, Stages
<1>6. /\ th'[t].pc = "refund" /\ th'[t].seen = {}
      /\ \A e \in Traders : ~Last(t, e)' /\ (Both(t, e)' <=> e = d)
  BY <1>5, FirstAhead DEF Comes
<1>7. ASSUME NEW e \in Traders, NEW g \in Kept(e)' PROVE GoodAt(t, e, g)'
  <2>1. g \in Kept(e) /\ GoodAt(t, e, g)
    BY <1>1, <1>2, <1>7 DEF Kept, Stage
  <2>2. Offered(e, g)'
    BY <1>1, <1>2, <2>1 DEF GoodAt, Offered
  <2> QED BY <1>6, <2>2, Partners DEF GoodAt
<1> QED BY <1>6, <1>7 DEF Stage

\* A good that is given back comes to the inventory, unless it is refused.
LEMMA RefundStage ==
  ASSUME KInv, Calm, NEW t \in Threads,
         (\E g \in Items : RefundItem(t, g)) \/ RefundMesos(t)
  PROVE  Stage(t)' /\ th'[t].pc \in {"refund", "empty"}
<1>1. th[t].pc = "refund" /\ Settles(t) /\ Stage(t) /\ TInv /\ Ownership
  <2>1. th[t].pc = "refund" /\ Settles(t)
    BY DEF RefundItem, RefundMesos, At, Settles, Leaving, Cancelling
  <2> QED BY <2>1, StageKnown
<1>2. PICK d \in Traders, S \in SUBSET Goods :
         /\ S \subseteq items[d]
         /\ Both(t, d) \/ Last(t, d)
         /\ Receive(d, S) /\ th'[t].todo = th[t].todo
         /\ UNCHANGED <<items, late>>
         /\ \/ th'[t].pc = "refund" /\ th'[t].seen = th[t].seen \union S /\ S \subseteq Items
            \/ th'[t].pc = "empty" /\ items[d] \subseteq th[t].seen \union S
  <2>1. ASSUME NEW g \in Items, RefundItem(t, g), NEW d \in Traders, TurnSees(t, d, g)
        PROVE  /\ {g} \in SUBSET Goods /\ {g} \subseteq items[d]
               /\ Both(t, d) \/ Last(t, d)
               /\ Receive(d, {g}) /\ th'[t].todo = th[t].todo
               /\ UNCHANGED <<items, late>>
               /\ th'[t].pc = "refund" /\ th'[t].seen = th[t].seen \union {g} /\ {g} \subseteq Items
    BY <1>1, <2>1 DEF RefundItem, TurnSees, window, Goods
  <2>2. ASSUME RefundMesos(t), NEW d \in Traders, TurnGoes(t, d, "empty")
        PROVE  /\ items[d] \intersect Mesos \in SUBSET Goods
               /\ items[d] \intersect Mesos \subseteq items[d]
               /\ Both(t, d) \/ Last(t, d)
               /\ Receive(d, items[d] \intersect Mesos) /\ th'[t].todo = th[t].todo
               /\ UNCHANGED <<items, late>> /\ th'[t].pc = "empty"
               /\ items[d] \subseteq th[t].seen \union (items[d] \intersect Mesos)
    <3>1. items[d] \subseteq Items \union Mesos
      BY <1>1, Sides DEF Goods
    <3>2. /\ Both(t, d) \/ Last(t, d)
          /\ Receive(d, items[d] \intersect Mesos) /\ th'[t].todo = th[t].todo
          /\ UNCHANGED <<items, late>> /\ th'[t].pc = "empty"
          /\ Cardinality(th[t].seen) = Cardinality(items[d] \intersect Items)
      BY <2>2 DEF RefundMesos, TurnGoes, Comes, window
    <3>3. th[t].seen \subseteq items[d] \intersect Items
      BY <1>1, <3>2 DEF Stage
    <3>4. IsFiniteSet(items[d] \intersect Items)
      BY FS_Subset, TradeAssumption
    <3>5. th[t].seen = items[d] \intersect Items
      BY <3>2, <3>3, <3>4, FS_Subset
    <3> QED BY <3>1, <3>2, <3>5 DEF Goods
  <2>3. \A g \in Items : RefundItem(t, g) => \E d \in Traders : TurnSees(t, d, g)
    BY <1>1, CancelSteps
  <2>4. RefundMesos(t) => \E d \in Traders : TurnGoes(t, d, "empty")
    BY <1>1, CancelSteps
  <2>5. CASE \E g \in Items : RefundItem(t, g)
    <3>1. PICK g \in Items, d \in Traders : RefundItem(t, g) /\ TurnSees(t, d, g)
      BY <2>3, <2>5
    <3> QED BY <2>1, <3>1
  <2>6. CASE RefundMesos(t)
    BY <2>2, <2>4, <2>6
  <2> QED BY <2>5, <2>6
<1>3. \A e \in Traders : /\ Both(t, e)' <=> Both(t, e)
                         /\ Last(t, e)' <=> Last(t, e)
                         /\ Both(t, e) \/ Last(t, e) <=> e = d
  BY <1>2, SameAhead
<1>4. /\ S \subseteq Own(d) /\ S \subseteq Goods
      /\ inventory'[Partner(d)] = inventory[Partner(d)]
      /\ inventory[d] \subseteq inventory'[d] /\ inventory'[d] \subseteq inventory[d] \union S
      /\ refused \subseteq refused' /\ S \ refused' \subseteq inventory'[d]
  <2>1. S \subseteq Own(d) /\ S \subseteq Goods
    BY <1>1, <1>2, Typed DEF Ownership
  <2> QED BY <1>1, <1>2, <2>1, Receives, Partners
<1>5. ASSUME NEW e \in Traders, NEW g \in Kept(e)' PROVE GoodAt(t, e, g)'
  <2>1. /\ g \in Kept(e) /\ GoodAt(t, e, g) /\ g \notin refused' /\ g \in Own(e)
        /\ Partner(e) \in Traders /\ Partner(e) # e
    BY <1>1, <1>2, <1>4, <1>5, Partners DEF Kept, Stage
  <2>2. CASE e # d
    <3>1. /\ e = Partner(d) /\ Partner(e) = d /\ g \notin S
          /\ ~Both(t, e) /\ ~Last(t, e)
      BY <1>1, <1>3, <1>4, <2>1, <2>2, Sides
    <3>2. /\ inventory'[e] = inventory[e]
          /\ g \in inventory'[Partner(e)] <=> g \in inventory[Partner(e)]
      BY <1>4, <3>1
    <3> QED BY <1>1, <1>2, <1>3, <2>1, <3>1, <3>2 DEF GoodAt, Offered, Returned, Placed
  <2>3. CASE e = d
    <3>1. ~Both(t, Partner(e)) /\ ~Last(t, Partner(e))
      BY <1>3, <2>1, <2>3
    <3>2. /\ inventory'[Partner(e)] = inventory[Partner(e)]
          /\ g \in S => g \in inventory'[e] /\ g \in items[e]
          /\ g \notin S => (g \in inventory'[e] <=> g \in inventory[e])
      BY <1>2, <1>4, <2>1, <2>3
    <3>3. IF g \in th[t].seen THEN Returned(e, g) ELSE Offered(e, g)
      BY <1>1, <1>3, <2>1, <2>3 DEF GoodAt
    <3>4. g \notin inventory[Partner(e)]
      BY <3>3 DEF Returned, Offered
    <3>5. CASE th'[t].pc = "refund" /\ th'[t].seen = th[t].seen \union S
      <4>1. g \in th'[t].seen <=> g \in th[t].seen \/ g \in S
        BY <3>5
      <4>2. IF g \in th'[t].seen THEN Returned(e, g)' ELSE Offered(e, g)'
        BY <1>2, <3>2, <3>3, <3>4, <4>1 DEF Returned, Offered
      <4> QED BY <1>3, <3>1, <3>5, <4>2, <2>1 DEF GoodAt
    <3>6. CASE th'[t].pc = "empty" /\ items[d] \subseteq th[t].seen \union S
      <4>1. g \in items[e] => g \in th[t].seen \/ g \in S
        BY <2>3, <3>6
      <4>2. Returned(e, g)'
        BY <3>2, <3>3, <3>4, <4>1 DEF Returned, Offered
      <4> QED BY <1>3, <3>1, <3>6, <4>2, <2>1 DEF GoodAt
    <3> QED BY <1>2, <3>5, <3>6
  <2> QED BY <2>2, <2>3
<1>6. ASSUME NEW e \in Traders, th'[t].pc = "refund", Both(t, e)' \/ Last(t, e)'
      PROVE  th'[t].seen \subseteq items'[e] \intersect Items
  <2>1. e = d
    BY <1>3, <1>6
  <2>2. th[t].seen \subseteq items[d] \intersect Items
    BY <1>1, <1>2 DEF Stage
  <2> QED BY <1>2, <1>6, <2>1, <2>2
<1> QED BY <1>2, <1>5, <1>6 DEF Stage

LEMMA EmptyStage ==
  ASSUME KInv, Calm, NEW t \in Threads, Empty(t)
  PROVE  Stage(t)'
<1>1. th[t].pc = "empty" /\ Settles(t) /\ Stage(t) /\ TInv /\ Ownership
  <2>1. th[t].pc = "empty" /\ Settles(t)
    BY DEF Empty, At, Settles, Leaving, Cancelling
  <2> QED BY <2>1, StageKnown
<1>2. PICK d \in Traders : TurnPasses(t, d, "refund", "closeBoth", <<>>)
  BY <1>1, CancelSteps
<1>3. items' = [items EXCEPT ![d] = {}] /\ UNCHANGED <<inventory, late, refused>>
  BY <1>2 DEF Empty, TurnPasses, history, counts
<1>4. th'[t].pc \in {"refund", "closeBoth"} /\ th'[t].seen = {}
  BY <1>2 DEF TurnPasses, Comes
<1>5. ASSUME NEW e \in Traders, NEW g \in Kept(e)' PROVE GoodAt(t, e, g)'
  <2>1. g \in Kept(e) /\ GoodAt(t, e, g) /\ Partner(e) \in Traders
    BY <1>1, <1>3, <1>5, Partners DEF Kept, Stage
  <2>2. /\ Partner(Partner(d)) = d /\ Partner(d) # d /\ (e = d \/ e = Partner(d))
        /\ e = d => items'[e] = {}
        /\ e # d => items'[e] = items[e]
    BY <1>1, <1>3, Sides
  <2>3. CASE Both(t, d) /\ Comes(t, "refund", <<Partner(d)>>)
    <3>1. /\ ~Both(t, e)' /\ (Last(t, e)' <=> e = Partner(d))
          /\ ~Both(t, Partner(e))' /\ (Last(t, Partner(e))' <=> Partner(e) = Partner(d))
          /\ Both(t, e) <=> e = d
          /\ Both(t, Partner(e)) <=> Partner(e) = d
      BY <2>1, <2>3, OtherAhead DEF Comes
    <3>2. (e = d => Returned(e, g)) /\ (e = Partner(d) => Offered(e, g))
      BY <1>1, <2>1, <2>2, <3>1 DEF GoodAt
    <3>3. (e = d => Placed(e, g)') /\ (e = Partner(d) => Offered(e, g)')
      BY <1>3, <2>2, <3>2 DEF Returned, Placed, Offered
    <3> QED BY <1>4, <2>2, <2>3, <3>1, <3>3 DEF GoodAt, Comes
  <2>4. CASE Last(t, d) /\ Comes(t, "closeBoth", <<>>)
    <3>1. (Last(t, e) <=> e = d) /\ (Last(t, Partner(e)) <=> Partner(e) = d)
      BY <2>1, <2>4, NoneAhead
    <3>2. (e = d => Returned(e, g)) /\ (e = Partner(d) => Placed(e, g))
      BY <1>1, <2>1, <2>2, <3>1 DEF GoodAt
    <3>3. Placed(e, g)'
      BY <1>3, <2>2, <3>2 DEF Returned, Placed
    <3> QED BY <2>4, <3>3 DEF GoodAt, Comes
  <2> QED BY <1>2, <2>3, <2>4 DEF TurnPasses
<1> QED BY <1>4, <1>5 DEF Stage

-----------------------------------------------------------------------------
(* A player that has confirmed moves nothing into the window.              *)

LEMMA PendingStays ==
  ASSUME KInv, NEW t \in Threads, Moves(t), locked' \subseteq locked \union {t},
         locked' \subseteq Traders, late \subseteq late',
         t \in locked' => /\ th'[t].pc # "addMeso"
                          /\ th'[t].pc = "removeItem" => th'[t].good \subseteq late'
  PROVE  NothingPending'
<1> SUFFICES ASSUME NEW c \in locked'
             PROVE  /\ th'[c].pc # "addMeso"
                    /\ th'[c].pc = "removeItem" => th'[c].good \subseteq late'
  BY DEF NothingPending
<1>1. CASE c = t
  BY <1>1
<1>2. CASE c # t
  <2>1. c \in locked /\ c \in Threads \ {t}
    BY <1>2, TradersAreThreads
  <2>2. th'[c] = th[c]
    BY <2>1 DEF Moves
  <2> QED BY <2>1, <2>2 DEF KInv, NothingPending
<1> QED BY <1>1, <1>2

LEMMA PendingStep ==
  ASSUME KInv, [Next]_vars
  PROVE  NothingPending'
<1>1. TInv /\ locked \subseteq Traders /\ Traders \subseteq Threads
  BY TradersAreThreads, Typed DEF KInv, SInv
<1>2. CASE UNCHANGED vars
  BY <1>2 DEF vars, window, history, counts, KInv, NothingPending
<1>3. ASSUME NEW c \in Traders, NEW g \in Goods, SetMeso(c, g) PROVE NothingPending'
  <2>1. Moves(c) /\ c \notin locked /\ locked' = locked /\ late' = late
    BY <1>1, <1>3, MoveSteps DEF SetMeso, window, history, counts
  <2> QED BY <1>1, <2>1, PendingStays
<1>4. ASSUME NEW c \in Traders, NEW g \in Goods, SetItem(c, g) PROVE NothingPending'
  <2>1. Moves(c) /\ th'[c].pc = "addItem" /\ locked' = locked /\ late' = late
    BY <1>1, <1>4, MoveSteps DEF SetItem, window, history, counts
  <2> QED BY <1>1, <2>1, PendingStays
<1>5. ASSUME NEW c \in Traders, AddItem(c) PROVE NothingPending'
  <2>1. /\ locked' = locked /\ late \subseteq late' /\ Moves(c)
        /\ \/ th'[c].pc = "idle"
           \/ /\ th'[c].pc = "removeItem" /\ th'[c].good = th[c].good
              /\ c \in locked => th[c].good \subseteq late'
    BY <1>1, <1>5, AddItemForms DEF Comes
  <2> QED BY <1>1, <2>1, PendingStays
<1>6. ASSUME NEW c \in Traders, AddMeso(c) \/ RemoveItem(c) \/ CallConfirm(c) PROVE NothingPending'
  <2>1. Moves(c) /\ th'[c].pc \in {"idle", "confirm"} /\ locked' = locked /\ late' = late
    BY <1>1, <1>6, MoveSteps DEF AddMeso, RemoveItem, CallConfirm, Comes, window, history, counts
  <2> QED BY <1>1, <2>1, PendingStays
<1>7. ASSUME NEW c \in Traders, Complete(c) PROVE NothingPending'
  <2>1. Moves(c) /\ th'[c].pc \notin {"addMeso", "removeItem"}
    <3>1. ASSUME NEW g \in Items, DeliverItem(c, g)
          PROVE  Moves(c) /\ th'[c].pc \notin {"addMeso", "removeItem"}
      BY <1>1, <3>1, ExchangeSteps DEF DeliverItem, At, TurnSees
    <3> QED BY <1>1, <1>7, <3>1, ExchangeSteps DEF Complete, Comes, TurnGoes, TurnPasses
  <2>2. locked' \in {locked, locked \union {c}} /\ late' = late
    BY <1>7 DEF Complete, Handshake, Fetch, CheckFits, CheckFails, ClearHalf, DeliverItem,
                DeliverMesos, ExchangeThrows, Forget, Close, window, history, counts
  <2> QED BY <1>1, <2>1, <2>2, PendingStays
<1>8. ASSUME NEW t \in Threads, NEW c \in Traders, CallCancel(t, c) PROVE NothingPending'
  <2>1. Moves(t) /\ th'[t].pc = "cancel" /\ locked' = locked /\ late' = late
    BY <1>1, <1>8, CancelSteps DEF CallCancel, window, counts, Comes
  <2> QED BY <1>1, <2>1, PendingStays
<1>9. ASSUME NEW t \in Threads, Cancel(t) PROVE NothingPending'
  <2>1. Moves(t) /\ th'[t].pc \notin {"addMeso", "removeItem"}
    <3>1. ASSUME NEW g \in Items, RefundItem(t, g)
          PROVE  Moves(t) /\ th'[t].pc \notin {"addMeso", "removeItem"}
      BY <1>1, <3>1, CancelSteps DEF RefundItem, At, TurnSees
    <3> QED BY <1>1, <1>9, <3>1, CancelSteps DEF Cancel, Comes, TurnGoes, TurnPasses
  <2>2. locked' = locked /\ late' = late
    BY <1>9 DEF Cancel, CancelEnter, RefundItem, RefundThrows, RefundMesos, Empty, CloseBoth,
                window, history, counts
  <2> QED BY <1>1, <2>1, <2>2, PendingStays
<1> QED BY <1>2, <1>3, <1>4, <1>5, <1>6, <1>7, <1>8, <1>9 DEF Next, Move

-----------------------------------------------------------------------------
(* Every step keeps the goods where they belong.                           *)

\* While both stay only a loop that gives back runs over a changed list.
LEMMA StaleStays ==
  ASSUME KInv, Calm, NEW t \in Threads, Moves(t), stale' \subseteq Threads,
         \A u \in stale' : u \in stale \/ th[u].pc = "refund",
         th[t].pc = "refund" => t \notin stale' \/ th'[t].pc = "refund"
  PROVE  \A u \in stale' : th'[u].pc = "refund"
<1>1. \A u \in stale' : th[u].pc = "refund"
  BY DEF KInv, Calm, Settlement
<1> QED BY <1>1 DEF Moves

\* A step of the thread that settles the trade.
LEMMA SettleStep ==
  ASSUME KInv, Calm, NEW c \in Traders, Settles(c), Moves(c), locked' = locked,
         Stage(c)', Settles(c)' \/ AllPlaced', \A u \in stale' : th'[u].pc = "refund"
  PROVE  Settlement'
<1>1. /\ locked = Traders /\ ~Settles(Partner(c))
      /\ Partner(c) \in Threads \ {c} /\ Traders = {c, Partner(c)}
      /\ Warper \in Threads \ {c} /\ th[Warper].pc = "idle"
  BY TradersAreThreads, Partners, StageKnown DEF KInv, Calm, Settlement
<1>2. th'[Partner(c)] = th[Partner(c)] /\ th'[Warper].pc = "idle"
  BY <1>1 DEF Moves
<1>3. ~Settles(Partner(c))'
  BY <1>1, <1>2 DEF Settles, Exchanging, Leaving, Cancelling
<1>4. \A e \in Traders : Settles(e)' => Stage(e)' /\ ~Settles(Partner(e))'
  <2> SUFFICES ASSUME NEW e \in Traders, Settles(e)' PROVE Stage(e)' /\ ~Settles(Partner(e))'
    OBVIOUS
  <2>1. e = c
    BY <1>1, <1>3
  <2> QED BY <1>3, <2>1
<1>5. (\A e \in Traders : ~Settles(e)') => AllPlaced'
  OBVIOUS
<1> QED BY <1>1, <1>2, <1>4, <1>5 DEF Settlement

\* The good of d stays where it is.
Rests(d, g) ==
    /\ g \in items'[d] <=> g \in items[d]
    /\ g \in inventory'[d] <=> g \in inventory[d]
    /\ g \in inventory'[Partner(d)] <=> g \in inventory[Partner(d)]
    /\ g \in exchangeItems'[Partner(d)] <=> g \in exchangeItems[Partner(d)]

LEMMA StageStays ==
  ASSUME NEW c \in Traders, open' = open, th'[c] = th[c], Stage(c),
         \A d \in Traders : /\ items[d] \intersect Items \subseteq items'[d]
                            /\ Kept(d)' \subseteq Kept(d)
                            /\ \A g \in Kept(d)' : Rests(d, g)
  PROVE  Stage(c)'
<1>1. /\ th'[c].pc = th[c].pc /\ th'[c].todo = th[c].todo /\ th'[c].seen = th[c].seen
  OBVIOUS
<1>2. \A d \in Traders : /\ Partner(d) \in Traders
                         /\ Both(c, d)' <=> Both(c, d)
                         /\ Last(c, d)' <=> Last(c, d)
  BY Partners DEF Both, Last
<1>3. ASSUME NEW d \in Traders, NEW g \in Kept(d)' PROVE GoodAt(c, d, g)'
  <2>1. Rests(d, g) /\ GoodAt(c, d, g)
    BY <1>3 DEF Stage
  <2>2. /\ Offered(d, g) => Offered(d, g)'
        /\ Fetched(d, g) => Fetched(d, g)'
        /\ Taken(d, g) => Taken(d, g)'
        /\ Received(d, g) => Received(d, g)'
        /\ Returned(d, g) => Returned(d, g)'
        /\ Placed(d, g) => Placed(d, g)'
    BY <2>1 DEF Rests, Offered, Fetched, Taken, Received, Returned, Placed
  <2>3. g \in th'[c].seen <=> g \in th[c].seen
    BY <1>1
  <2> HIDE DEF Offered, Fetched, Taken, Received, Returned, Placed
  <2> QED BY <1>1, <1>2, <2>1, <2>2, <2>3 DEF GoodAt
<1>4. ASSUME NEW d \in Traders, th'[c].pc = "refund", Both(c, d)' \/ Last(c, d)'
      PROVE  th'[c].seen \subseteq items'[d] \intersect Items
  BY <1>1, <1>2, <1>4 DEF Stage
<1> QED BY <1>1, <1>3, <1>4 DEF Stage

\* A step of a player's thread that does not settle the trade.
LEMMA AsideStep ==
  ASSUME KInv, Calm, NEW c \in Traders, Moves(c), ~Settles(c), ~Settles(c)',
         UNCHANGED <<open, exchangeItems>>, locked' = Traders <=> locked = Traders,
         late \subseteq late', refused \subseteq refused',
         stale' \subseteq Threads, \A u \in stale' : u \in stale \/ th[u].pc = "refund",
         \A d \in Traders : items[d] \intersect Items \subseteq items'[d],
         items'[Partner(c)] = items[Partner(c)], inventory'[Partner(c)] = inventory[Partner(c)],
         \A g \in Own(Partner(c)) : g \in inventory'[c] <=> g \in inventory[c],
         locked # Traders => Offering(c)',
         locked = Traders => \A g \in Kept(c)' : /\ g \in items'[c] <=> g \in items[c]
                                                 /\ g \in inventory'[c] <=> g \in inventory[c]
  PROVE  Settlement'
<1>1. /\ Partner(c) \in Threads \ {c} /\ Partner(c) \in Traders /\ Traders = {c, Partner(c)}
      /\ Partner(Partner(c)) = c /\ Warper \in Threads \ {c} /\ th[Warper].pc = "idle"
      /\ c \in Threads
  BY TradersAreThreads, Partners DEF KInv, Calm, Settlement
<1>2. th'[Partner(c)] = th[Partner(c)] /\ th'[Warper].pc = "idle"
  BY <1>1 DEF Moves
<1>3. Settles(Partner(c))' <=> Settles(Partner(c))
  BY <1>2 DEF Settles, Exchanging, Leaving, Cancelling
<1>4. \A u \in stale' : th'[u].pc = "refund"
  <2>1. th[c].pc # "refund"
    BY DEF Settles, Leaving, Cancelling
  <2> QED BY <1>1, <2>1, StaleStays
<1>5. \A d \in Traders : Kept(d)' \subseteq Kept(d) /\ Kept(d)' \subseteq Own(d)
  BY DEF Kept
<1>6. CASE locked = Traders
  <2>1. ASSUME NEW d \in Traders, NEW g \in Kept(d)' PROVE Rests(d, g)
    <3>1. g \in Own(d)
      BY <1>5, <2>1
    <3>2. CASE d = c
      BY <1>6, <2>1, <3>2 DEF Rests
    <3>3. CASE d = Partner(c)
      BY <1>1, <3>1, <3>3 DEF Rests
    <3> QED BY <1>1, <3>2, <3>3
  <2>2. Stage(Partner(c)) => Stage(Partner(c))'
    BY <1>1, <1>2, <1>5, <2>1, StageStays
  <2>3. AllPlaced => AllPlaced'
    <3>1. ASSUME AllPlaced, NEW d \in Traders, NEW g \in Kept(d)' PROVE Placed(d, g)'
      <4>1. Placed(d, g) /\ Rests(d, g)
        BY <1>5, <2>1, <3>1 DEF AllPlaced
      <4> QED BY <4>1 DEF Placed, Rests
    <3> QED BY <3>1 DEF AllPlaced
  <2>4. \A e \in Traders : Settles(e)' => e = Partner(c) /\ Settles(e) /\ Partner(e) = c
    BY <1>1, <1>3
  <2>5. \A e \in Traders : Settles(e)' => Stage(e)' /\ ~Settles(Partner(e))'
    BY <1>6, <2>2, <2>4 DEF KInv, Calm, Settlement
  <2>6. (\A e \in Traders : ~Settles(e)') => AllPlaced'
    BY <1>1, <1>3, <1>6, <2>3 DEF KInv, Calm, Settlement
  <2> QED BY <1>2, <1>4, <1>6, <2>5, <2>6 DEF Settlement
<1>7. CASE locked # Traders
  <2>1. open = Traders /\ Offering(Partner(c)) /\ ~Settles(Partner(c))
    BY <1>1, <1>7 DEF KInv, Calm, Settlement
  <2>2. Offering(Partner(c))'
    BY <1>1, <1>2, <1>5, <2>1 DEF Offering
  <2>3. \A e \in Traders : Offering(e)' /\ ~Settles(e)'
    BY <1>1, <1>3, <1>7, <2>1, <2>2
  <2> QED BY <1>2, <1>4, <1>7, <2>1, <2>3 DEF Settlement
<1> QED BY <1>6, <1>7

\* Moving goods into the window: what moves is missing from the inventory or in
\* the half as Offering says, or it is late.
LEMMA OfferStep ==
  ASSUME KInv, Calm, NEW c \in Traders, NEW g \in Goods, SetMeso(c, g) \/ SetItem(c, g)
  PROVE  Settlement'
<1>1. TInv /\ Ownership /\ c \in Threads /\ th[c].pc = "idle" /\ stale \subseteq Threads
  BY TradersAreThreads, Typed DEF KInv, SInv, SetMeso, SetItem, At
<1>2. /\ Moves(c) /\ th'[c].pc \in {"addMeso", "addItem"} /\ th'[c].good = {g}
      /\ th'[c].pc = "addMeso" => SetMeso(c, g) /\ th'[c].seen = items[c] \intersect Mesos
  BY <1>1, MoveSteps
<1>3. /\ g \in inventory[c] /\ deliveries[g] = 0
      /\ UNCHANGED <<items, exchangeItems, locked, open, stale, late, refused>>
      /\ IF th'[c].pc = "addMeso"
           THEN inventory' = [inventory EXCEPT ![c] = @ \ {g}] /\ c \notin locked
           ELSE inventory' = inventory
  <2>1. CASE SetMeso(c, g)
    <3>1. th'[c].pc = "addMeso"
      BY <1>1, <2>1, MoveSteps
    <3> QED BY <2>1, <3>1 DEF SetMeso, Fresh, window, history, counts
  <2>2. CASE SetItem(c, g)
    <3>1. th'[c].pc = "addItem"
      BY <1>1, <2>2, MoveSteps
    <3> QED BY <2>2, <3>1 DEF SetItem, Fresh, window, history, counts
  <2> QED BY <2>1, <2>2
<1>4. ~Settles(c) /\ ~Settles(c)'
  BY <1>1, <1>2 DEF Settles, Exchanging, Leaving, Cancelling
<1>5. g \in Own(c) /\ g \notin Own(Partner(c))
  BY <1>1, <1>3, Sides DEF Ownership
<1>6. /\ inventory'[Partner(c)] = inventory[Partner(c)]
      /\ \A h \in Goods \ {g} : h \in inventory'[c] <=> h \in inventory[c]
      /\ th'[c].pc = "addMeso" => g \notin inventory'[c]
      /\ Own(c) \subseteq Goods /\ Own(Partner(c)) \subseteq Goods
  BY <1>1, <1>3, Sides, OwnSides
<1>7. locked # Traders => Offering(c)'
  <2>1. ASSUME locked # Traders PROVE Offering(c)
    BY <2>1 DEF KInv, Calm, Settlement
  <2>2. ASSUME locked # Traders, NEW h \in Kept(c)'
        PROVE  IF h \in th'[c].good /\ th'[c].pc = "addMeso"
                 THEN h \notin items'[c] /\ h \notin inventory'[c]
               ELSE IF h \in th'[c].good /\ th'[c].pc = "removeItem"
                 THEN h \in items'[c]
               ELSE h \in items'[c] <=> h \notin inventory'[c]
    <3>1. h \in Kept(c) /\ (h \in items[c] <=> h \notin inventory[c]) /\ h \in Goods
      BY <1>1, <1>3, <2>1, <2>2, Sides DEF Offering, Kept
    <3>2. CASE h # g
      BY <1>2, <1>3, <1>6, <3>1, <3>2
    <3>3. CASE h = g
      BY <1>2, <1>3, <1>6, <3>1, <3>3
    <3> QED BY <3>2, <3>3
  <2> QED BY <1>2, <1>3, <2>2 DEF Offering
<1>8. locked = Traders => inventory' = inventory
  BY <1>3
<1> QED BY <1>1, <1>2, <1>3, <1>4, <1>5, <1>6, <1>7, <1>8, AsideStep

LEMMA AddMesoStep ==
  ASSUME KInv, Calm, NEW c \in Traders, AddMeso(c)
  PROVE  Settlement'
<1>1. TInv /\ Ownership /\ c \in Threads /\ th[c].pc = "addMeso" /\ stale \subseteq Threads
  BY TradersAreThreads, Typed DEF KInv, SInv, AddMeso, At
<1>2. Moves(c) /\ th'[c].pc = "idle"
  BY <1>1, MoveSteps DEF Comes
<1>3. UNCHANGED <<inventory, exchangeItems, locked, open, stale, late, refused>>
  BY DEF AddMeso, history, counts
<1>4. ~Settles(c) /\ ~Settles(c)'
  BY <1>1, <1>2 DEF Settles, Exchanging, Leaving, Cancelling
<1>5. c \notin locked /\ locked # Traders
  BY <1>1 DEF KInv, NothingPending
<1>6. Offering(c)
  BY <1>5 DEF KInv, Calm, Settlement
<1>7. items' = [items EXCEPT ![c] = @ \union th[c].good]
  <2>1. th[c].seen = items[c] \intersect Mesos
    BY <1>1, <1>6 DEF Offering
  <2>2. items' = [items EXCEPT ![c] = (@ \intersect Items) \union (items[c] \intersect Mesos)
                                          \union th[c].good]
    BY <2>1 DEF AddMeso
  <2>3. (items[c] \intersect Items) \union (items[c] \intersect Mesos) = items[c]
    BY <1>1, Sides DEF Goods
  <2> QED BY <2>2, <2>3
<1>8. items'[c] = items[c] \union th[c].good /\ items'[Partner(c)] = items[Partner(c)]
  BY <1>1, <1>7, Sides
<1>9. Offering(c)'
  <2>1. \A h \in Kept(c)' : h \in Kept(c)
    BY <1>3 DEF Kept
  <2> QED BY <1>1, <1>2, <1>3, <1>6, <1>8, <2>1 DEF Offering
<1>10. \A d \in Traders : items[d] \intersect Items \subseteq items'[d]
  BY <1>1, <1>8, Sides
<1> QED BY <1>1, <1>2, <1>3, <1>4, <1>5, <1>8, <1>9, <1>10, AsideStep

LEMMA AddItemStep ==
  ASSUME KInv, Calm, NEW c \in Traders, AddItem(c)
  PROVE  Settlement'
<1>1. TInv /\ Ownership /\ c \in Threads /\ th[c].pc = "addItem" /\ stale \subseteq Threads
  BY TradersAreThreads, Typed DEF KInv, SInv, AddItem, At
<1>2. UNCHANGED <<inventory, exchangeItems, locked, open, refused>>
  BY <1>1, AddItemForms
<1>3. /\ Moves(c) /\ th'[c].pc \in {"idle", "removeItem"}
      /\ late \subseteq late' /\ stale' \subseteq Threads
      /\ \A u \in stale' : u \in stale \/ th[u].pc = "refund"
      /\ items'[Partner(c)] = items[Partner(c)] /\ items[c] \subseteq items'[c]
  <2>1. Walkers(c) \subseteq Threads /\ \A u \in Walkers(c) : th[u].pc = "refund"
    BY DEF Walkers, At
  <2> QED BY <1>1, <2>1, AddItemForms, Sides DEF Comes
<1>4. ~Settles(c) /\ ~Settles(c)'
  BY <1>1, <1>3 DEF Settles, Exchanging, Leaving, Cancelling
<1>5. Kept(c)' \subseteq Kept(c)
  BY <1>2, <1>3 DEF Kept
<1>6. /\ th'[c].pc = "idle" => items' = items
      /\ th'[c].pc = "removeItem" => /\ th'[c].good = th[c].good
                                     /\ items'[c] = items[c] \union th[c].good
                                     /\ c \in locked => th[c].good \subseteq late'
  BY <1>1, AddItemForms, Sides DEF Comes
<1>7. locked # Traders => Offering(c)'
  <2>1. ASSUME locked # Traders, NEW h \in Kept(c)'
        PROVE  IF h \in th'[c].good /\ th'[c].pc = "addMeso"
                 THEN h \notin items'[c] /\ h \notin inventory'[c]
               ELSE IF h \in th'[c].good /\ th'[c].pc = "removeItem"
                 THEN h \in items'[c]
               ELSE h \in items'[c] <=> h \notin inventory'[c]
    <3>1. h \in items[c] <=> h \notin inventory[c]
      BY <1>1, <1>5, <2>1 DEF KInv, Calm, Settlement, Offering
    <3> QED BY <1>2, <1>3, <1>6, <3>1
  <2> QED BY <1>3, <2>1 DEF Offering
<1>8. locked = Traders => \A h \in Kept(c)' : h \in items'[c] <=> h \in items[c]
  <2>1. \A h \in Kept(c)' : h \notin late'
    BY DEF Kept
  <2> QED BY <1>3, <1>6, <2>1
<1>9. \A d \in Traders : items[d] \intersect Items \subseteq items'[d]
  BY <1>1, <1>3, Sides
<1> QED BY <1>1, <1>2, <1>3, <1>4, <1>7, <1>8, <1>9, AsideStep

LEMMA RemoveItemStep ==
  ASSUME KInv, Calm, NEW c \in Traders, RemoveItem(c)
  PROVE  Settlement'
<1>1. TInv /\ Ownership /\ c \in Threads /\ th[c].pc = "removeItem" /\ stale \subseteq Threads
  BY TradersAreThreads, Typed DEF KInv, SInv, RemoveItem, At
<1>2. Moves(c) /\ th'[c].pc = "idle" /\ th'[c].good = {}
  BY <1>1, MoveSteps DEF Comes
<1>3. /\ inventory' = [inventory EXCEPT ![c] = @ \ th[c].good]
      /\ UNCHANGED <<items, exchangeItems, locked, open, stale, late, refused>>
  BY DEF RemoveItem, window, history, counts
<1>4. ~Settles(c) /\ ~Settles(c)'
  BY <1>1, <1>2 DEF Settles, Exchanging, Leaving, Cancelling
<1>5. /\ inventory'[c] = inventory[c] \ th[c].good /\ inventory'[Partner(c)] = inventory[Partner(c)]
      /\ th[c].good \subseteq Own(c)
  BY <1>1, <1>3, Sides DEF Ownership
<1>6. \A h \in Own(Partner(c)) : h \in inventory'[c] <=> h \in inventory[c]
  <2>1. Own(c) \intersect Own(Partner(c)) = {}
    BY OwnSides
  <2> QED BY <1>5, <2>1
<1>7. Kept(c)' = Kept(c) /\ \A h \in Kept(c) : h \notin late
  BY <1>3 DEF Kept
<1>8. locked # Traders => Offering(c)'
  <2> SUFFICES ASSUME locked # Traders PROVE Offering(c)'
    OBVIOUS
  <2>1. Offering(c)
    BY DEF KInv, Calm, Settlement
  <2>2. ASSUME NEW h \in Kept(c)' PROVE h \in items'[c] <=> h \notin inventory'[c]
    BY <1>1, <1>3, <1>5, <1>7, <2>1, <2>2 DEF Offering
  <2> QED BY <1>2, <2>2 DEF Offering
<1>9. locked = Traders => \A h \in Kept(c)' : h \in inventory'[c] <=> h \in inventory[c]
  <2>1. locked = Traders => th[c].good \subseteq late
    BY <1>1 DEF KInv, NothingPending
  <2> QED BY <1>5, <1>7, <2>1
<1> QED BY <1>1, <1>2, <1>3, <1>4, <1>5, <1>6, <1>8, <1>9, AsideStep

LEMMA CallConfirmStep ==
  ASSUME KInv, Calm, NEW c \in Traders, CallConfirm(c)
  PROVE  Settlement'
<1>1. TInv /\ Ownership /\ c \in Threads /\ th[c].pc = "idle" /\ stale \subseteq Threads
  BY TradersAreThreads, Typed DEF KInv, SInv, CallConfirm, At
<1>2. Moves(c) /\ th'[c].pc = "confirm"
  BY <1>1, MoveSteps DEF Comes
<1>3. UNCHANGED <<inventory, items, exchangeItems, locked, open, stale, late, refused>>
  BY DEF CallConfirm, window, history, counts
<1>4. ~Settles(c) /\ ~Settles(c)'
  BY <1>1, <1>2 DEF Settles, Exchanging, Leaving, Cancelling
<1>5. locked # Traders => Offering(c)'
  <2>1. locked # Traders => Offering(c)
    BY DEF KInv, Calm, Settlement
  <2> QED BY <1>1, <1>2, <1>3, <2>1 DEF Offering, Kept
<1> QED BY <1>1, <1>2, <1>3, <1>4, <1>5, AsideStep

\* The second confirmation: both halves hold all that their players offered.
LEMMA HandshakeStep ==
  ASSUME KInv, Calm, NEW c \in Traders, Handshake(c)
  PROVE  Settlement'
<1>1. TInv /\ Ownership /\ c \in Threads /\ locked \subseteq Traders /\ stale \subseteq Threads
  BY TradersAreThreads, Typed DEF KInv, SInv
<1>2. /\ th[c].pc = "confirm" /\ locked' = locked \union {c}
      /\ UNCHANGED <<inventory, items, exchangeItems, open, stale, late, refused>>
  BY DEF Handshake, At, history, counts
<1>3. Moves(c) /\ th'[c].pc \in {"fetch", "idle"}
  BY <1>1, ExchangeSteps DEF Comes
<1>4. CASE c \notin locked /\ Partner(c) \in locked
  <2>1. locked # Traders /\ locked' = Traders
    BY <1>1, <1>2, <1>4, Partners
  <2>2. Comes(c, "fetch", <<c, Partner(c)>>)
    BY <1>1, <1>4, Todos, Partners, StartComes DEF Handshake, TInv, Stages
  <2>3. /\ open = Traders /\ th[Warper].pc = "idle"
        /\ \A d \in Traders : Offering(d) /\ ~Settles(d)
    BY <2>1 DEF KInv, Calm, Settlement
  <2>4. ASSUME NEW e \in Traders, NEW g \in Kept(e)' PROVE Offered(e, g)'
    <3>1. g \in Kept(e) /\ g \notin late /\ g \in Own(e) /\ g \in Goods
          /\ Partner(e) \in Traders /\ g \notin Own(Partner(e))
      BY <1>1, <1>2, <2>4, Sides DEF Kept
    <3>2. ~(g \in th[e].good /\ th[e].pc \in {"addMeso", "removeItem"})
      BY <1>2, <1>4, <3>1, Partners DEF KInv, NothingPending
    <3>3. g \in items[e] <=> g \notin inventory[e]
      BY <2>3, <3>1, <3>2 DEF Offering
    <3>4. deliveries[g] = 0
      <4>1. Undelivered(Partner(e)) /\ Partner(Partner(e)) = e
        BY <2>1, <3>1, Partners DEF KInv, SInv, ExchangedOnce
      <4> QED BY <3>1, <4>1 DEF Undelivered, UndeliveredBut
    <3>5. g \notin inventory[Partner(e)]
      BY <1>1, <3>1, <3>4 DEF Ownership
    <3> QED BY <1>2, <3>3, <3>5 DEF Offered
  <2>5. \A e \in Traders : ~Last(c, e)' /\ (Both(c, e)' <=> e = c)
    BY <1>1, <2>2, FirstAhead DEF Comes
  <2>6. Stage(c)'
    <3>1. th'[c].pc = "fetch"
      BY <2>2 DEF Comes
    <3>2. ASSUME NEW e \in Traders, NEW g \in Kept(e)' PROVE GoodAt(c, e, g)'
      BY <2>4, <2>5, <3>1, <3>2 DEF GoodAt
    <3> QED BY <1>2, <2>3, <3>1, <3>2 DEF Stage
  <2>7. Settles(c)'
    BY <2>2 DEF Comes, Settles, Exchanging
  <2>8. /\ Partner(c) \in Threads \ {c} /\ Warper \in Threads \ {c}
        /\ Partner(c) \in Traders /\ Traders = {c, Partner(c)}
    BY TradersAreThreads, Partners
  <2>9. th'[Partner(c)] = th[Partner(c)] /\ th'[Warper].pc = "idle"
    BY <1>3, <2>3, <2>8 DEF Moves
  <2>10. ~Settles(Partner(c))'
    BY <2>3, <2>8, <2>9 DEF Settles, Exchanging, Leaving, Cancelling
  <2>11. \A e \in Traders : Settles(e)' => e = c
    BY <2>8, <2>10
  <2>12. \A e \in Traders : Settles(e)' => Stage(e)' /\ ~Settles(Partner(e))'
    BY <2>6, <2>10, <2>11
  <2>13. \A u \in stale' : th'[u].pc = "refund"
    BY <1>1, <1>2, <1>3, StaleStays
  <2> QED BY <2>1, <2>7, <2>9, <2>12, <2>13 DEF Settlement
<1>5. CASE ~(c \notin locked /\ Partner(c) \in locked)
  <2>1. th'[c].pc = "idle"
    BY <1>1, <1>5, ExchangeSteps DEF Comes
  <2>2. locked' = Traders <=> locked = Traders
    BY <1>1, <1>2, <1>5, Partners
  <2>3. ~Settles(c) /\ ~Settles(c)'
    BY <1>2, <2>1 DEF Settles, Exchanging, Leaving, Cancelling
  <2>4. locked # Traders => Offering(c)'
    <3>1. locked # Traders => Offering(c)
      BY DEF KInv, Calm, Settlement
    <3> QED BY <1>2, <2>1, <3>1 DEF Offering, Kept
  <2> QED BY <1>1, <1>2, <1>3, <2>2, <2>3, <2>4, AsideStep
<1> QED BY <1>4, <1>5

LEMMA CompleteStep ==
  ASSUME KInv, Calm, NEW c \in Traders, Complete(c), ~Handshake(c)
  PROVE  Settlement'
<1>1. TInv /\ c \in Threads /\ stale \subseteq Threads
  BY TradersAreThreads, Typed DEF KInv, SInv
<1>2. Settles(c) /\ locked' = locked /\ th[c].pc # "refund"
  BY DEF Complete, Fetch, CheckFits, CheckFails, ClearHalf, DeliverItem, DeliverMesos,
         ExchangeThrows, Forget, Close, At, window, Settles, Exchanging
<1>3. \A u \in stale' : u \in stale \/ th[u].pc = "refund"
  BY DEF Complete, Fetch, CheckFits, CheckFails, ClearHalf, DeliverItem, DeliverMesos,
         ExchangeThrows, Forget, Close, Upset, Walkers, At
<1>4. stale' \subseteq Threads
  BY <1>1 DEF Complete, Fetch, CheckFits, CheckFails, ClearHalf, DeliverItem, DeliverMesos,
         ExchangeThrows, Forget, Close, Upset, Walkers
<1>5. ASSUME Moves(c), Stage(c)', Settles(c)' \/ AllPlaced' PROVE Settlement'
  BY <1>1, <1>2, <1>3, <1>4, <1>5, StaleStays, SettleStep
<1>6. CASE Fetch(c)
  <2>1. Moves(c) /\ th'[c].pc \in {"fetch", "check"}
    BY <1>1, <1>6, ExchangeSteps DEF TurnPasses, Comes
  <2> QED BY <1>5, <1>6, <2>1, FetchStage DEF Settles, Exchanging
<1>7. CASE CheckFits(c) \/ CheckFails(c)
  <2>1. Moves(c)
    BY <1>1, <1>7, ExchangeSteps DEF Comes
  <2>2. Stage(c)' /\ th'[c].pc \in {"clear", "cancel"}
    BY <1>7, CheckStage
  <2> QED BY <1>5, <2>1, <2>2 DEF Settles, Exchanging, Leaving
<1>8. CASE ClearHalf(c)
  <2>1. Moves(c) /\ th'[c].pc = "deliver"
    BY <1>1, <1>8, ExchangeSteps DEF TurnGoes, Comes
  <2> QED BY <1>5, <1>8, <2>1, ClearStage DEF Settles, Exchanging
<1>9. CASE (\E g \in Items : DeliverItem(c, g)) \/ DeliverMesos(c)
  <2>1. Moves(c)
    BY <1>1, <1>9, ExchangeSteps DEF TurnSees, TurnGoes, Comes
  <2>2. Stage(c)' /\ th'[c].pc \in {"deliver", "forget"}
    BY <1>9, DeliverStage
  <2> QED BY <1>5, <2>1, <2>2 DEF Settles, Exchanging
<1>10. CASE ExchangeThrows(c)
  <2>1. c \in stale /\ th[c].pc # "refund"
    BY <1>2, <1>10 DEF ExchangeThrows
  <2> QED BY <2>1 DEF KInv, Calm, Settlement
<1>11. CASE Forget(c)
  <2>1. Moves(c) /\ th'[c].pc \in {"clear", "close"}
    BY <1>1, <1>11, ExchangeSteps DEF TurnPasses, Comes
  <2> QED BY <1>5, <1>11, <2>1, ForgetStage DEF Settles, Exchanging
<1>12. CASE Close(c)
  <2>1. Moves(c)
    BY <1>1, <1>12, ExchangeSteps DEF TurnPasses, Comes
  <2> QED BY <1>1, <1>5, <1>12, <2>1, CloseStage
<1> QED BY <1>6, <1>7, <1>8, <1>9, <1>10, <1>11, <1>12 DEF Complete

\* Nobody else runs over what an emptied half was to receive.
LEMMA CancelStep ==
  ASSUME KInv, Calm, NEW t \in Threads, Cancel(t), ~RefundThrows(t)
  PROVE  Settlement'
<1>1. TInv /\ stale \subseteq Threads
  BY Typed DEF KInv, SInv
<1>2. Leaving(t) /\ locked' = locked
  BY DEF Cancel, CancelEnter, RefundItem, RefundMesos, Empty, CloseBoth, At, window, history,
         Leaving, Cancelling
<1>3. Settles(t) /\ t \in Traders /\ ~Settles(Partner(t))
  BY <1>2, StageKnown DEF Settles
<1>4. \A c \in Traders : Takers(c) = {}
  <2>1. Threads = {t, Partner(t), Warper} /\ th[Warper].pc = "idle"
    BY <1>3, TradersAreThreads, Partners DEF KInv, Calm, Settlement
  <2> QED BY <1>2, <1>3, <2>1 DEF Takers, At, Settles, Exchanging, Leaving, Cancelling
<1>5. stale' \subseteq stale /\ (th[t].pc = "refund" => t \notin stale' \/ th'[t].pc = "refund")
  <2>1. CASE Empty(t)
    <3>1. Turn(t) \in Traders
      BY <1>1, <2>1, Turns DEF Empty, At
    <3>2. th[t].pc = "empty"
      BY <2>1 DEF Empty, At
    <3> QED BY <1>4, <2>1, <3>1, <3>2 DEF Empty, Upset
  <2>2. CASE \E g \in Items : RefundItem(t, g)
    BY <2>2 DEF RefundItem
  <2>3. CASE CancelEnter(t) \/ RefundMesos(t) \/ CloseBoth(t)
    BY <2>3 DEF CancelEnter, RefundMesos, CloseBoth, At
  <2> QED BY <2>1, <2>2, <2>3 DEF Cancel
<1>6. ASSUME Moves(t), Stage(t)', Settles(t)' \/ AllPlaced' PROVE Settlement'
  <2>1. \A u \in stale' : th'[u].pc = "refund"
    BY <1>1, <1>5, <1>6, StaleStays
  <2> QED BY <1>2, <1>3, <1>6, <2>1, SettleStep
<1>7. CASE CancelEnter(t)
  <2>1. Moves(t)
    BY <1>1, <1>7, CancelSteps DEF Comes
  <2> QED BY <1>6, <1>7, <2>1, CancelEnterStage DEF Settles, Leaving, Cancelling
<1>8. CASE (\E g \in Items : RefundItem(t, g)) \/ RefundMesos(t)
  <2>1. Moves(t)
    BY <1>1, <1>8, CancelSteps DEF TurnSees, TurnGoes, Comes
  <2>2. Stage(t)' /\ th'[t].pc \in {"refund", "empty"}
    BY <1>8, RefundStage
  <2> QED BY <1>6, <2>1, <2>2 DEF Settles, Leaving, Cancelling
<1>9. CASE Empty(t)
  <2>1. Moves(t) /\ th'[t].pc \in {"refund", "closeBoth"}
    BY <1>1, <1>9, CancelSteps DEF TurnPasses, Comes
  <2> QED BY <1>6, <1>9, <2>1, EmptyStage DEF Settles, Leaving, Cancelling
<1>10. CASE CloseBoth(t)
  <2>1. Moves(t)
    BY <1>1, <1>10, CancelSteps DEF Comes
  <2> QED BY <1>6, <1>10, <2>1, CloseStage
<1> QED BY <1>7, <1>8, <1>9, <1>10 DEF Cancel

LEMMA KInit == Init => KInv
<1> SUFFICES ASSUME Init PROVE KInv
  OBVIOUS
<1>1. \A t \in Threads : th[t].pc = "idle" /\ th[t].good = {}
  BY DEF Init, Idle
<1>2. NothingPending /\ locked # Traders /\ stale = {}
  BY DEF Init, NothingPending, Traders
<1>3. \A c \in Traders : Offering(c) /\ ~Settles(c)
  BY <1>1, TradersAreThreads
     DEF Init, Offering, Kept, Own, Settles, Exchanging, Leaving, Cancelling
<1>4. open = Traders /\ th[Warper].pc = "idle"
  BY <1>1, TradersAreThreads DEF Init
<1> QED BY <1>2, <1>3, <1>4, SInit DEF KInv, Settlement

LEMMA KStep == KInv /\ [Next]_vars => KInv'
<1> SUFFICES ASSUME KInv, [Next]_vars PROVE Settlement'
  BY SStep, PendingStep DEF KInv
<1>1. Calm' => Calm
  <2>1. departed' \in {departed, TRUE} /\ torn' \in {torn, TRUE}
    <3>1. CASE UNCHANGED vars
      BY <3>1 DEF vars, history
    <3>2. ASSUME NEW c \in Traders,
                 \/ \E g \in Goods : SetMeso(c, g) \/ SetItem(c, g)
                 \/ CallConfirm(c) \/ Move(c)
          PROVE  UNCHANGED <<departed, torn>>
      BY <3>2 DEF SetMeso, SetItem, CallConfirm, Move, AddMeso, AddItem, RemoveItem, history
    <3>3. ASSUME NEW c \in Traders, Complete(c) PROVE UNCHANGED <<departed, torn>>
      BY <3>3 DEF Complete, Handshake, Fetch, CheckFits, CheckFails, ClearHalf, DeliverItem,
                  DeliverMesos, ExchangeThrows, Forget, Close, history, counts
    <3>4. ASSUME NEW t \in Threads, Cancel(t) PROVE departed' = departed /\ torn' \in {torn, TRUE}
      BY <3>4 DEF Cancel, CancelEnter, RefundItem, RefundThrows, RefundMesos, Empty, CloseBoth,
                  history, counts
    <3>5. ASSUME NEW t \in Threads, NEW c \in Traders, CallCancel(t, c)
          PROVE  departed' = TRUE /\ torn' = torn
      BY <3>5 DEF CallCancel
    <3> QED BY <3>1, <3>2, <3>3, <3>4, <3>5 DEF Next
  <2>2. departed \in BOOLEAN /\ torn \in BOOLEAN
    BY Typed DEF KInv, SInv
  <2> QED BY <2>1, <2>2 DEF Calm
<1> SUFFICES ASSUME Calm, Calm' PROVE Settlement'
  BY <1>1 DEF Calm, Settlement
<1>2. CASE UNCHANGED vars
  <2>1. UNCHANGED <<inventory, items, exchangeItems, locked, open, th, stale, late, refused>>
    BY <1>2 DEF vars, window, history, counts
  <2>2. \A c \in Traders : /\ Settles(c)' <=> Settles(c)
                           /\ Offering(c) => Offering(c)'
                           /\ Stage(c) => Stage(c)'
    <3> SUFFICES ASSUME NEW c \in Traders
                 PROVE  /\ Settles(c)' <=> Settles(c)
                        /\ Offering(c) => Offering(c)'
                        /\ Stage(c) => Stage(c)'
      OBVIOUS
    <3>1. Settles(c)' <=> Settles(c)
      BY <2>1 DEF Settles, Exchanging, Leaving, Cancelling
    <3>2. Offering(c) => Offering(c)'
      BY <2>1 DEF Offering, Kept
    <3>3. Stage(c) => Stage(c)'
      <4>1. \A d \in Traders : Kept(d)' = Kept(d) /\ \A g \in Kept(d)' : Rests(d, g)
        BY <2>1 DEF Kept, Rests
      <4> QED BY <2>1, <4>1, StageStays
    <3> QED BY <3>1, <3>2, <3>3
  <2>3. AllPlaced => AllPlaced'
    BY <2>1 DEF AllPlaced, Placed, Kept
  <2>4. \A c \in Traders : Partner(c) \in Traders
    BY Partners
  <2>5. CASE locked = Traders
    BY <2>1, <2>2, <2>3, <2>4, <2>5 DEF KInv, Calm, Settlement
  <2>6. CASE locked # Traders
    BY <2>1, <2>2, <2>6 DEF KInv, Calm, Settlement
  <2> QED BY <2>5, <2>6
<1>3. ASSUME NEW c \in Traders, NEW g \in Goods, SetMeso(c, g) \/ SetItem(c, g) PROVE Settlement'
  BY <1>3, OfferStep
<1>4. ASSUME NEW c \in Traders, CallConfirm(c) \/ Move(c) PROVE Settlement'
  BY <1>4, CallConfirmStep, AddMesoStep, AddItemStep, RemoveItemStep DEF Move
<1>5. ASSUME NEW c \in Traders, Complete(c) PROVE Settlement'
  BY <1>5, HandshakeStep, CompleteStep
<1>6. ASSUME NEW t \in Threads, NEW c \in Traders, CallCancel(t, c) PROVE FALSE
  BY <1>6 DEF CallCancel, Calm
<1>7. ASSUME NEW t \in Threads, Cancel(t) PROVE Settlement'
  <2>1. ~RefundThrows(t)
    BY DEF RefundThrows, Calm
  <2> QED BY <1>7, <2>1, CancelStep
<1> QED BY <1>2, <1>3, <1>4, <1>5, <1>6, <1>7 DEF Next

\* A good that is in one place is in exactly one.
LEMMA OnePlace ==
  ASSUME KInv, NEW d \in Traders, NEW g \in Kept(d), Offered(d, g) \/ Placed(d, g)
  PROVE  Cardinality(Places(g)) = 1
<1>1. /\ g \in Goods /\ g \notin items[Partner(d)]
      /\ Partner(d) \in Traders /\ Traders = {d, Partner(d)}
  BY Sides DEF KInv, SInv
<1>2. PICK place : Places(g) = {place}
  <2>1. CASE g \in inventory[d] /\ g \notin inventory[Partner(d)] /\ g \notin items[d]
    <3>1. Places(g) = {<<"inventory", d>>}
      BY <1>1, <2>1 DEF Places
    <3> QED BY <3>1
  <2>2. CASE g \notin inventory[d] /\ g \in inventory[Partner(d)] /\ g \notin items[d]
    <3>1. Places(g) = {<<"inventory", Partner(d)>>}
      BY <1>1, <2>2 DEF Places
    <3> QED BY <3>1
  <2>3. CASE g \notin inventory[d] /\ g \notin inventory[Partner(d)] /\ g \in items[d]
    <3>1. Places(g) = {<<"items", d>>}
      BY <1>1, <2>3 DEF Places
    <3> QED BY <3>1
  <2>4. \/ g \in inventory[d] /\ g \notin inventory[Partner(d)] /\ g \notin items[d]
        \/ g \notin inventory[d] /\ g \in inventory[Partner(d)] /\ g \notin items[d]
        \/ g \notin inventory[d] /\ g \notin inventory[Partner(d)] /\ g \in items[d]
    BY DEF Placed, Offered
  <2> QED BY <2>1, <2>2, <2>3, <2>4
<1> QED BY <1>2, FS_Singleton

\* While both players stay and no exception ends a cancel, a trade neither loses
\* nor doubles a good that found room and was offered before its player confirmed:
\* whenever no handler is under way it is in exactly one place, and in an
\* inventory once the window is closed.
THEOREM GoodsAreConserved == Spec => []ConservedWhileBothStay
<1>1. KInv => ConservedWhileBothStay
  <2> SUFFICES ASSUME KInv, ~departed, ~torn, \A t \in Threads : At(t, "idle"),
                      NEW g \in Goods \ (late \union refused)
               PROVE  /\ Cardinality(Places(g)) = 1
                      /\ open = {} => \E c \in Traders : g \in inventory[c]
    BY DEF ConservedWhileBothStay, Conserved
  <2>1. PICK d \in Traders : g \in Kept(d)
    BY OwnSides DEF Kept
  <2>2. \A c \in Traders : th[c].pc = "idle" /\ ~Settles(c)
    BY TradersAreThreads DEF At, Settles, Exchanging, Leaving, Cancelling
  <2>3. Partner(d) \in Traders /\ g \in Own(d) /\ g \notin Own(Partner(d)) /\ g \in Goods
    BY <2>1, Sides DEF KInv, SInv, Kept
  <2>4. CASE locked = Traders
    <3>1. Placed(d, g)
      BY <2>1, <2>2, <2>4 DEF KInv, Settlement, AllPlaced
    <3>2. \E c \in Traders : g \in inventory[c]
      BY <2>3, <3>1 DEF Placed
    <3> QED BY <2>1, <3>1, <3>2, OnePlace
  <2>5. CASE locked # Traders
    <3>1. open = Traders /\ Offering(d)
      BY <2>5 DEF KInv, Settlement
    <3>2. g \in items[d] <=> g \notin inventory[d]
      BY <2>1, <2>2, <3>1 DEF Offering
    <3>3. deliveries[g] = 0
      <4>1. Undelivered(Partner(d)) /\ Partner(Partner(d)) = d
        BY <2>3, <2>5, Partners DEF KInv, SInv, ExchangedOnce
      <4> QED BY <2>3, <4>1 DEF Undelivered, UndeliveredBut
    <3>4. g \notin inventory[Partner(d)]
      BY <2>3, <3>3 DEF KInv, SInv, Ownership
    <3>5. open # {}
      BY <3>1
    <3>6. Offered(d, g)
      BY <3>2, <3>4 DEF Offered
    <3> QED BY <2>1, <3>5, <3>6, OnePlace
  <2> QED BY <2>4, <2>5
<1> QED BY <1>1, KInit, KStep, PTL DEF Spec
=============================================================================
