-------------------------------- MODULE Trade --------------------------------
(***************************************************************************)
(* server/MapleTrade.java: the trade window of two characters, from the    *)
(* moment both sides are in it.                                            *)
(*                                                                         *)
(* Each side moves goods (items, mesos) from its inventory into its half   *)
(* of the window and confirms; the second confirmation exchanges the two   *)
(* halves.  A side that leaves, changes map or disconnects cancels the     *)
(* trade, and so may a thread of the server that warps it (an event's      *)
(* timer).  The handshake and cancelling are synchronized on the trade of  *)
(* the character with the lower id, one monitor for the pair; moving goods *)
(* and the exchange itself are not.                                        *)
(*                                                                         *)
(* A good is a model value: where it is is all that matters.  One that has *)
(* been given back or handed over is not offered again.  Whether there is  *)
(* room for it is a free choice whenever it is to be received; so is the   *)
(* outcome of the checks before an exchange.                               *)
(*                                                                         *)
(* The half of the window is an ArrayList and what is to be received a     *)
(* LinkedList: a loop over either that finds it changed by another thread  *)
(* ends with a ConcurrentModificationException, and with it the handler.   *)
(***************************************************************************)
EXTENDS Naturals, Sequences, FiniteSets

CONSTANTS
    Left, Right,   \* the two characters; each is also the thread of its packets
    Warper,        \* a server thread that may move either of them
    Items, Mesos,  \* goods: only the deposit of mesos looks at the lock
    Owner,         \* who starts with each good
    Kind,          \* the inventory an item belongs into, each with a lock
    AfterTear      \* bound: are handlers called after a cancel that threw?

Traders == {Left, Right}
Threads == Traders \union {Warper}
Goods   == Items \union Mesos

ASSUME TradeAssumption ==
    /\ Left # Right /\ Warper \notin Traders
    /\ Owner \in [Goods -> Traders]
    /\ Items \intersect Mesos = {}
    /\ IsFiniteSet(Items)

VARIABLES
    inventory,      \* character -> the goods it has
    items,          \* character -> its half of the window
    exchangeItems,  \* character -> what it is about to receive
    locked,         \* the sides that have confirmed
    open,           \* the characters whose getTrade() is not null
    monitor,        \* the threads inside the synchronized methods
    th,             \* where each thread is
    stale,          \* the threads whose loop runs over a list changed meanwhile
    refunds,        \* history: times a good was given back by cancel
    deliveries,     \* history: times a good was handed over by completeTrade
    late,           \* history: the items offered by a side that had confirmed
    refused,        \* history: the goods there was no room for
    departed,       \* history: has anybody left while the window was open?
    torn            \* history: was a cancel ended by an exception?

window  == <<items, exchangeItems, locked, open>>
counts  == <<refunds, deliveries, late, refused>>
history == <<counts, departed, torn>>
vars    == <<inventory, window, monitor, th, stale, history>>

Partner(c) == IF c = Left THEN Right ELSE Left

\* The locals of a handler: where it is, the good it moves, the characters it
\* still has to deal with, the current one first, and what it has seen: the
\* items its loop is through with, or the mesos of the half setMeso adds to.
Idle == [pc |-> "idle", good |-> {}, todo |-> <<>>, seen |-> {}]

Init ==
    /\ inventory = [c \in Traders |-> {g \in Goods : Owner[g] = c}]
    /\ items = [c \in Traders |-> {}]
    /\ exchangeItems = [c \in Traders |-> {}]
    /\ locked = {}
    /\ open = Traders
    /\ monitor = {}
    /\ th = [t \in Threads |-> Idle]
    /\ stale = {}
    /\ refunds = [g \in Goods |-> 0]
    /\ deliveries = [g \in Goods |-> 0]
    /\ late = {} /\ refused = {}
    /\ departed = FALSE /\ torn = FALSE

At(t, pc)      == th[t].pc = pc
Go(t, pc)      == th' = [th EXCEPT ![t].pc = pc]
Done(t)        == th' = [th EXCEPT ![t] = Idle]
Start(t, pc, todo) == th' = [th EXCEPT ![t] = [Idle EXCEPT !.pc = pc, !.todo = todo]]
Turn(t)        == Head(th[t].todo)
\* On to the other character, or to the next stage when both are dealt with.
NextTurn(t, again, after, todo) ==
    IF Len(th[t].todo) > 1 THEN Start(t, again, Tail(th[t].todo)) ELSE Start(t, after, todo)
Saw(t, g)      == th' = [th EXCEPT ![t].seen = @ \union {g}]

\* How often a good was handed over: more than once is all that matters.
Count(h, S) == [g \in Goods |-> IF g \in S /\ h[g] < 2 THEN h[g] + 1 ELSE h[g]]

\* The threads in a loop over the half of c, and those in one over what it is
\* to receive.
Walkers(c) == {t \in Threads : At(t, "refund") /\ Turn(t) = c}
Takers(c)  == {t \in Threads : At(t, "check") \/ (At(t, "deliver") /\ Turn(t) = c)}

\* Clearing a list that is not empty makes the loops over it stale.
Upset(S, list) == IF list \intersect Items = {} THEN {} ELSE S

\* addFromDrop and gainMeso: c has the goods, or there is no room for some of
\* them and they are gone; no caller looks at the outcome.
Receive(c, S) ==
    \E lost \in SUBSET S :
        /\ inventory' = [inventory EXCEPT ![c] = @ \union (S \ lost)]
        /\ refused' = refused \union lost

\* addFromDrop waits while c's own handler holds the lock of that inventory.
CanReceive(c, g) == ~(At(c, "removeItem") /\ \E h \in th[c].good : Kind[h] = Kind[g])

-----------------------------------------------------------------------------
(* Moving goods into the window.                                           *)

\* getTrade() is not null.
Trading(c) == c \in open /\ (torn => AfterTear)

\* A good is offered once: given back or handed over it is another good.
Fresh(g) == refunds[g] = 0 /\ deliveries[g] = 0

\* MapleTrade.setMeso: take the mesos from the character ...
SetMeso(c, g) ==
    /\ At(c, "idle") /\ Trading(c)
    /\ g \in Mesos \intersect inventory[c] /\ Fresh(g)
    /\ c \notin locked
    /\ inventory' = [inventory EXCEPT ![c] = @ \ {g}]
    /\ th' = [th EXCEPT ![c] = [Idle EXCEPT !.pc = "addMeso", !.good = {g},
                                             !.seen = items[c] \intersect Mesos]]
    /\ UNCHANGED <<window, monitor, stale, history>>

\* ... then add them to those of its half, which may have been read before
\* another thread set them to zero.
AddMeso(c) ==
    /\ At(c, "addMeso")
    /\ \E old \in {items[c] \intersect Mesos, th[c].seen} :
          items' = [items EXCEPT ![c] = (@ \intersect Items) \union old \union th[c].good]
    /\ Done(c)
    /\ UNCHANGED <<inventory, exchangeItems, locked, open, monitor, stale, history>>

\* SET_ITEMS finds the trade open; unlike setMeso it does not look at the lock.
SetItem(c, g) ==
    /\ At(c, "idle") /\ Trading(c)
    /\ g \in Items \intersect inventory[c] /\ Fresh(g)
    /\ th' = [th EXCEPT ![c] = [Idle EXCEPT !.pc = "addItem", !.good = {g}]]
    /\ UNCHANGED <<inventory, window, monitor, stale, history>>

\* With the inventory locked, a copy of the item enters the half, whatever has
\* become of the trade, or finds it full or its slot taken ...
AddItem(c) ==
    /\ At(c, "addItem")
    /\ \/ /\ items' = [items EXCEPT ![c] = @ \union th[c].good]
          /\ late' = IF c \in locked THEN late \union th[c].good ELSE late
          /\ stale' = stale \union Walkers(c)
          /\ Go(c, "removeItem")
       \/ Done(c) /\ UNCHANGED <<items, late, stale>>
    /\ UNCHANGED <<inventory, exchangeItems, locked, open, monitor, refunds, deliveries, refused,
                   departed, torn>>

\* ... and the item leaves its slot.
RemoveItem(c) ==
    /\ At(c, "removeItem")
    /\ inventory' = [inventory EXCEPT ![c] = @ \ th[c].good]
    /\ Done(c)
    /\ UNCHANGED <<window, monitor, stale, history>>

-----------------------------------------------------------------------------
(* CONFIRM: MapleTrade.completeTrade.                                      *)

CallConfirm(c) ==
    /\ At(c, "idle") /\ Trading(c)
    /\ Start(c, "confirm", <<>>)
    /\ UNCHANGED <<inventory, window, monitor, stale, history>>

\* Seeded defect: one's own lock is not looked at.
Handshake_Again(c) ==
    /\ At(c, "confirm")
    /\ monitor = {}
    /\ locked' = locked \union {c}
    /\ IF Partner(c) \in locked THEN Start(c, "fetch", <<c, Partner(c)>>) ELSE Done(c)
    /\ UNCHANGED <<inventory, items, exchangeItems, open, monitor, stale, history>>

\* checkTradeCompleteHandshake: lock one's own side, once, and go on with the
\* exchange if the other side was locked before.
Handshake(c) ==
    /\ At(c, "confirm")
    /\ monitor = {}
    /\ locked' = locked \union {c}
    /\ IF c \notin locked /\ Partner(c) \in locked
         THEN Start(c, "fetch", <<c, Partner(c)>>)
         ELSE Done(c)
    /\ UNCHANGED <<inventory, items, exchangeItems, open, monitor, stale, history>>

\* fetchExchangedItems of one's own side, then of the partner's.
Fetch(c) ==
    /\ At(c, "fetch")
    /\ exchangeItems' = [exchangeItems EXCEPT ![Turn(c)] = items[Partner(Turn(c))]]
    /\ NextTurn(c, "fetch", "check", <<>>)
    /\ UNCHANGED <<inventory, items, locked, open, monitor, stale, history>>

\* Room for everything and no limit on mesos exceeded.
CheckFits(c) ==
    /\ At(c, "check")
    /\ Start(c, "clear", <<c, Partner(c)>>)
    /\ stale' = stale \ {c}
    /\ UNCHANGED <<inventory, window, monitor, history>>

\* Seeded defect: an exchange that does not fit is given up without a word.
CheckFails_Silently(c) ==
    /\ At(c, "check")
    /\ Done(c)
    /\ stale' = stale \ {c}
    /\ UNCHANGED <<inventory, window, monitor, history>>

\* One of the two cannot take it: cancelTrade for that one.
CheckFails(c) ==
    /\ At(c, "check")
    /\ \E d \in Traders : IF d \in open THEN Start(c, "cancel", <<d>>) ELSE Done(c)
    /\ stale' = stale \ {c}
    /\ UNCHANGED <<inventory, window, monitor, history>>

\* completeTrade of one's own side, then of the partner's: empty its half ...
ClearHalf(c) ==
    /\ At(c, "clear")
    /\ items' = [items EXCEPT ![Turn(c)] = {}]
    /\ stale' = stale \union Upset(Walkers(Turn(c)), items[Turn(c)])
    /\ Start(c, "deliver", th[c].todo)
    /\ UNCHANGED <<inventory, exchangeItems, locked, open, monitor, history>>

\* ... give it what it receives, item by item ...
DeliverItem(c, g) ==
    /\ At(c, "deliver") /\ c \notin stale
    /\ g \in (exchangeItems[Turn(c)] \intersect Items) \ th[c].seen
    /\ CanReceive(Turn(c), g)
    /\ Receive(Turn(c), {g})
    /\ deliveries' = Count(deliveries, {g})
    /\ Saw(c, g)
    /\ UNCHANGED <<window, monitor, stale, refunds, late, departed, torn>>

\* ... and the mesos ...
DeliverMesos(c) ==
    /\ At(c, "deliver")
    /\ exchangeItems[Turn(c)] \intersect Items \subseteq th[c].seen
    /\ Receive(Turn(c), exchangeItems[Turn(c)] \intersect Mesos)
    /\ deliveries' = Count(deliveries, exchangeItems[Turn(c)] \intersect Mesos)
    /\ Start(c, "forget", th[c].todo)
    /\ stale' = stale \ {c}
    /\ UNCHANGED <<window, monitor, refunds, late, departed, torn>>

\* ... and forget that.
Forget(c) ==
    /\ At(c, "forget")
    /\ exchangeItems' = [exchangeItems EXCEPT ![Turn(c)] = {}]
    /\ NextTurn(c, "clear", "close", <<Partner(c), c>>)
    /\ UNCHANGED <<inventory, items, locked, open, monitor, stale, history>>

\* A cancel has cleared what is to be received under the loop over it: the
\* checks, or the exchange, end there.
ExchangeThrows(c) ==
    /\ At(c, "check") \/ At(c, "deliver")
    /\ c \in stale
    /\ Done(c)
    /\ stale' = stale \ {c}
    /\ UNCHANGED <<inventory, window, monitor, history>>

\* partner.getChr().setTrade(null), then c.setTrade(null).
Close(c) ==
    /\ At(c, "close")
    /\ open' = open \ {Turn(c)}
    /\ NextTurn(c, "close", "idle", <<>>)
    /\ UNCHANGED <<inventory, items, exchangeItems, locked, monitor, stale, history>>

-----------------------------------------------------------------------------
(* MapleTrade.cancelTrade.                                                 *)

\* EXIT, a change of map, a disconnection: a thread cancels for a character
\* whose trade it finds open.
CallCancel(t, c) ==
    /\ At(t, "idle")
    /\ t \in {c, Warper}
    /\ Trading(c)
    /\ departed' = TRUE
    /\ Start(t, "cancel", <<c>>)
    /\ UNCHANGED <<inventory, window, monitor, stale, counts, torn>>

\* Seeded defect: the method is not synchronized.
CancelEnter_Unsynchronized(t) ==
    /\ At(t, "cancel")
    /\ IF Turn(t) \in open
         THEN /\ monitor' = monitor \union {t}
              /\ Start(t, "refund", <<Turn(t), Partner(Turn(t))>>)
         ELSE UNCHANGED monitor /\ Done(t)
    /\ UNCHANGED <<inventory, window, stale, history>>

\* tradeCancelHandshake looks at the trade again inside the monitor: one that
\* is gone by now is left alone.
CancelEnter(t) ==
    /\ At(t, "cancel")
    /\ monitor = {}
    /\ IF Turn(t) \in open
         THEN monitor' = {t} /\ Start(t, "refund", <<Turn(t), Partner(Turn(t))>>)
         ELSE UNCHANGED monitor /\ Done(t)
    /\ UNCHANGED <<inventory, window, stale, history>>

\* MapleTrade.cancel of that character, then of its partner: give back the
\* items in its half, one by one ...
RefundItem(t, g) ==
    /\ At(t, "refund") /\ t \notin stale
    /\ g \in (items[Turn(t)] \intersect Items) \ th[t].seen
    /\ CanReceive(Turn(t), g)
    /\ Receive(Turn(t), {g})
    /\ refunds' = Count(refunds, {g})
    /\ Saw(t, g)
    /\ UNCHANGED <<window, monitor, stale, deliveries, late, departed, torn>>

\* ... until an item has entered it or the exchange has emptied it meanwhile:
\* the monitor is left, with nothing cleared and the trade open ...
RefundThrows(t) ==
    /\ At(t, "refund") /\ t \in stale
    /\ monitor' = monitor \ {t}
    /\ Done(t)
    /\ stale' = stale \ {t}
    /\ torn' = TRUE
    /\ UNCHANGED <<inventory, window, counts, departed>>

\* ... or as many items have been given back as there are; then the mesos ...
RefundMesos(t) ==
    /\ At(t, "refund")
    /\ Cardinality(th[t].seen) = Cardinality(items[Turn(t)] \intersect Items)
    /\ Receive(Turn(t), items[Turn(t)] \intersect Mesos)
    /\ refunds' = Count(refunds, items[Turn(t)] \intersect Mesos)
    /\ Start(t, "empty", th[t].todo)
    /\ stale' = stale \ {t}
    /\ UNCHANGED <<window, monitor, deliveries, late, departed, torn>>

\* Seeded defect: the half of the window is given back but not emptied.
Empty_Kept(t) ==
    /\ At(t, "empty")
    /\ NextTurn(t, "refund", "closeBoth", <<>>)
    /\ UNCHANGED <<inventory, window, monitor, stale, history>>

\* ... and empty it.
Empty(t) ==
    /\ At(t, "empty")
    /\ items' = [items EXCEPT ![Turn(t)] = {}]
    /\ exchangeItems' = [exchangeItems EXCEPT ![Turn(t)] = {}]
    /\ stale' = stale \union Upset(Takers(Turn(t)), exchangeItems[Turn(t)])
    /\ NextTurn(t, "refund", "closeBoth", <<>>)
    /\ UNCHANGED <<inventory, locked, open, monitor, history>>

\* Both references are cleared and the monitor is left.
CloseBoth(t) ==
    /\ At(t, "closeBoth")
    /\ open' = {}
    /\ monitor' = monitor \ {t}
    /\ Done(t)
    /\ UNCHANGED <<inventory, items, exchangeItems, locked, stale, history>>

-----------------------------------------------------------------------------
\* The rest of a handler that has been called.
Move(c)     == AddMeso(c) \/ AddItem(c) \/ RemoveItem(c)
Complete(c) ==
    \/ Handshake(c) \/ Fetch(c) \/ CheckFits(c) \/ CheckFails(c)
    \/ ClearHalf(c) \/ (\E g \in Items : DeliverItem(c, g)) \/ DeliverMesos(c)
    \/ ExchangeThrows(c) \/ Forget(c) \/ Close(c)
Cancel(t)   ==
    \/ CancelEnter(t) \/ (\E g \in Items : RefundItem(t, g)) \/ RefundThrows(t)
    \/ RefundMesos(t) \/ Empty(t) \/ CloseBoth(t)

Next ==
    \/ \E c \in Traders :
          \/ \E g \in Goods : SetMeso(c, g) \/ SetItem(c, g)
          \/ CallConfirm(c) \/ Move(c) \/ Complete(c)
    \/ \E t \in Threads : Cancel(t) \/ \E c \in Traders : CallCancel(t, c)

\* A handler that was called goes on: the monitor is only ever held for a while.
\* No player has to offer, to confirm or to leave.
Fairness ==
    /\ \A c \in Traders : WF_vars(Move(c)) /\ WF_vars(Complete(c))
    /\ \A t \in Threads : WF_vars(Cancel(t))

Spec == Init /\ [][Next]_vars
FairSpec == Spec /\ Fairness

-----------------------------------------------------------------------------
ThreadRecord ==
    [pc : {"idle", "addMeso", "addItem", "removeItem", "confirm", "fetch", "check", "clear",
           "deliver", "forget", "close", "cancel", "refund", "empty", "closeBoth"},
     good : SUBSET Goods, todo : Seq(Traders), seen : SUBSET Goods]

\* The type invariant.
TypeOK ==
    /\ {inventory, items, exchangeItems} \subseteq [Traders -> SUBSET Goods]
    /\ locked \subseteq Traders /\ open \subseteq Traders
    /\ monitor \subseteq Threads /\ Cardinality(monitor) <= 1
    /\ th \in [Threads -> ThreadRecord]
    /\ stale \subseteq Threads
    /\ {refunds, deliveries} \subseteq [Goods -> 0..2]
    /\ {late, refused} \subseteq SUBSET Goods
    /\ {departed, torn} \subseteq BOOLEAN

\* However many times both players confirm and whoever cancels when, a good is
\* handed over at most once, and given back at most once unless a cancel was
\* ended by an exception.
SettledOnce == \A g \in Goods : (refunds[g] <= 1 \/ torn) /\ deliveries[g] <= 1

\* Where a good is, in an inventory or in a half of the window.
Places(g) == {<<"inventory", c>> : c \in {d \in Traders : g \in inventory[d]}}
                \union {<<"items", c>> : c \in {d \in Traders : g \in items[d]}}

\* Whenever no handler is under way every good is in exactly one place, and in
\* an inventory once the window is closed: a trade neither loses goods nor
\* makes more of them.  That is said of goods that found room and were not
\* offered after confirming, as long as no cancel was ended by an exception.
Conserved ==
    (\A t \in Threads : At(t, "idle")) /\ ~torn =>
        \A g \in Goods \ (late \union refused) :
            /\ Cardinality(Places(g)) = 1
            /\ open = {} => \E c \in Traders : g \in inventory[c]

\* While nobody leaves that does hold, of exchanges that fit and of those that
\* are cancelled because they do not.
ConservedWhileBothStay == ~departed => Conserved

\* While nobody leaves a trade settles one way: goods are never given back to
\* one player and the other's handed over.
OneOutcome == ~departed => \A g, h \in Goods : ~(refunds[g] > 0 /\ deliveries[h] > 0)

\* Once both players have confirmed the window closes for both, whoever was
\* faster and whether or not the exchange could be made; only an exception
\* that ends a cancel leaves it open.
ConfirmedIsSettled == (locked = Traders) ~> (open = {} \/ torn)
=============================================================================
