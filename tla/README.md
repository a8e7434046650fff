# Boswell in TLA+

Boswell is a MapleStory game server (a HeavenMS derivative): about 123 000 lines of Java under
`src/src/main/java` and 113 000 lines of JavaScript content scripts under `src/scripts`. It has no
tests, and its documentation is its comments. Two things are hard in it. The server is a set of
small in-memory protocols between packet handlers, pool threads and timers, each written with its
own mixture of locks, monitors, flags and copies. And nearly two thousand scripts are called back
into those protocols, a few lines at a time, each keeping the state of a conversation or an event
by hand. This directory models both in TLA+: the protocols as modules, the scripts as tables that
these modules run. TLC checks them, and TLAPS proves what can be proved.

Paths below are relative to `src/src/main/java`, those that begin with `scripts/` to `src`.

## 1. How the program runs

* **Packet handlers.** MINA delivers the packets of one client one after the other; the packets of
  different clients are handled concurrently (`net/MapleServerHandler.java`). An exception that
  leaves a handler is caught and logged. So a *player is a thread* in the models: a player is
  never in two handlers at once, two players may be anywhere.
* **Disconnection** is a task of the `ThreadManager` pool, concurrent with everything.
* **`server/ThreadManager.java`**: a pool of 20 to 1000 threads with a queue of 50. Two tasks that
  one caller submits may be taken in either order.
* **`server/TimerManager.java`**: four threads with `scheduleAtFixedRate`. One periodic task is
  never run twice at the same time; `cancel(false)` lets a run in progress finish; an exception
  ends that run only (`LoggingSaveRunnable`).
* **Scripts.** A script manager keeps a script engine per client (or per event) and invokes its
  functions: `action` of an NPC, `enter` of a portal, `start` of a map, `playerEntry` and a dozen
  others of an event. A script calls back into the server while it runs, and that may call another
  script. No lock is held around scripts. Their errors are printed, and what the manager does then
  differs from one kind of script to the next.
* Locks are fair reentrant locks (`net/server/audit/locks`).

## 2. Inventory

*State*, *operations*, what makes it *hard* and what makes it *correct*, component by component.
`PROJECT.json` lists every component with its sources, also those that are not modelled. The first
nine are.

| Component | State and operations | What is hard | Correct when |
| --- | --- | --- | --- |
| **Delayed-action schedulers** `net/server/channel/worker/BaseScheduler.java` with `OverallScheduler`, `EventScheduler`, `MobMistScheduler`, `MobClearSkillScheduler` | table of registered entries, idle countdown, the periodic task; `registerEntry`, `interruptEntry`, `dispose`, the monitor's run | the monitor works on a copy and removes by key; the countdown cancels the task while handlers register; actions throw | a table with entries has a live task; nothing is dropped unserved; nothing is run twice by one side |
| **Mob animation** `.../MobAnimationScheduler.java`, `server/life/MapleMonster.java` | the set of mobs on animation behind a lock of its own, on top of the table | set and table change at different moments; keys are used again and again | one animation per mob, never cut short, always released |
| **Event script scheduler** `scripting/event/worker/EventScriptScheduler.java` | the same table, a disposed flag; all three operations run in the `ThreadManager` pool | the pool reorders registration, cancellation and disposal; a call that throws ends the run | a disposed event stays quiet; a call is made, and again only after an exception |
| **Match checker** `net/server/coordinator/MapleMatchCheckerCoordinator.java` | element of a match, entry per player, hand-made lock per player, semaphore; create, answer, dismiss | three overlapping locking mechanisms, one held while another is waited for | accepted by all or not at all, one result per match, every call returns |
| **Invitations** `net/server/coordinator/MapleInviteCoordinator.java`, `net/server/worker/InvitationWorker.java` | three maps per invitation type; create, answer, remove, expire | each operation is three map operations without a lock; the timer writes back ages of a copy | no table keeps a leftover |
| **Trade window** `server/MapleTrade.java`, `net/server/channel/handlers/PlayerInteractionHandler.java` | two halves of a window, locks, exchange; deposit, confirm, cancel | deposits and the exchange are not covered by the monitor that serializes cancelling | no good is lost or doubled, one outcome, a confirmed trade ends |
| **NPC and quest conversations** `scripting/npc`, `scripting/quest`, `NPCTalkHandler`, `NPCMoreTalkHandler`, `scripts/npc`, `scripts/quest` | the script in conversation, its `status` and globals, the page at the client, the cooldown; open, answer, refuse, dispose, change of map | the client's page and the server's script are two states kept in step by every line of every script; a script gives and takes over several calls, and may throw in between | nobody is left in a conversation without a page; a failed call leaves no trace; nothing is given twice; an answer reaches its asker |
| **Portals and changes of map** `server/maps/MapleGenericPortal.java`, `client/MapleCharacter.java`, `scripts/portal`, `scripts/map` | `canWarpMap`, `canWarpCounter`, the conversation, the event; enter, warp, arrive, die, log in | changes of map nest through the scripts they run, and overlap with those of timers; the counter is unguarded | the gate reopens; a waiting client is answered; one destination per call; a closed gate takes nothing |
| **Event instance** `scripting/event/EventInstanceManager.java`, `scripts/event` | players, their references to the event, timer, cleared and disposed flags, lobby; register, leave, die, log off, party changes, time out, clear, dispose | script handlers hold no lock and interleave at every call; each event decides by itself when it ends | a disposed event is empty, forgets nobody on its maps and frees its lobby; an empty event ends |
| Monster status scheduler `.../MobStatusScheduler.java` | BaseScheduler with overtime effects run by a listener | a second table behind its own lock | an effect ends with its status |
| Face expressions `.../FaceExpressionScheduler.java` | a cooldown per character on top of BaseScheduler | check and set of the cooldown | one expression per cooldown |
| Session coordinator `net/server/coordinator/MapleSessionCoordinator.java` | hosts and machines logged in, in transition, cached; open, login, transition, close | three tries at a lock per host, flags taken and given up around checks | one session per host and account; none left behind |
| Event manager `scripting/event/EventManager.java` | lobbies, guild queue, pool of ready instances | instances created ahead by workers and counted against a limit | a lobby is held by one instance; the pool does not exceed its limit |
| Party `net/server/world/World.java`, `MapleParty.java` | members, leader, doors; join, leave, expel, disband | size checked outside the lock, references held by characters | at most six members, one leader, one party each |
| Party search, expeditions, guilds, alliances, messenger, buddies | membership under one lock each | less: mostly database access | membership agrees on both sides |
| Player shops, hired merchants, Fredrick `server/maps/MapleHiredMerchant.java`, `MaplePlayerShop.java` | items with bundles, mesos, visitors; buy, take back, close | closing hands out a copy while customers buy; proceeds in memory or database | an item is sold or given back, not both |
| Storage, Duey, cash shop, MTS, inventory, characters, maps, mobs, reactors, mini games, party quests, registries, data, packets, commands | see `PROJECT.json` | single locks, game rules, I/O | - |

The parts meet as follows: handlers call the coordinators and the trade window directly; channel
and mob code register actions with the schedulers, whose tasks run in `TimerManager` and call back
into the code that registered; `InvitationWorker` is a periodic task of `TimerManager`. A
conversation, a portal or a map script may warp the player, and every warp passes the gate of
`changeMap`, closes the conversations and tells the event of the player; an event warps its
players, and its own schedule goes through the event script scheduler and `ThreadManager`.

## 3. Modules

| Module | Models | Composes |
| --- | --- | --- |
| `BaseScheduler` | `BaseScheduler.java` with its entry points | - |
| `MobAnimationScheduler` | `MobAnimationScheduler.java` | EXTENDS `BaseScheduler`, implements `AnimationMode` |
| `AnimationMode` | what `MapleMonster.applyAnimationIfRoaming` relies on (abstract) | - |
| `EventScriptScheduler` | `EventScriptScheduler.java`, `EventScheduledFuture.java` | the `ThreadManager` pool as a set |
| `MatchChecker` | `MapleMatchCheckerCoordinator.java` | - |
| `InviteCoordinator` | `MapleInviteCoordinator.java` | the pass of `InvitationWorker` |
| `Trade` | `MapleTrade.java` and the deposits of `PlayerInteractionHandler.java` | - |
| `Dialogue` | the vocabulary of tables: answers, facts, effects, pages, preludes | - |
| `NpcScripts1`..`8`, `QuestScripts1`..`3` | `scripts/npc`, `scripts/quest`, a table for each script (quests: `start` and `end`) | `Dialogue` |
| `Conversations` | the script managers and the handlers of NPC packets | `Dialogue`, with the tables as constants |
| `WorldScripts` | what the scripts of portals and maps have beyond `Dialogue` | `Dialogue` |
| `PortalScripts1`..`3`, `MapScripts` | `scripts/portal`, `scripts/map` | `WorldScripts` |
| `Portals` | portals, `changeMap`, the scripts on arrival | `WorldScripts`, with the tables as constants |
| `EventScripts`, `EventTables` | the vocabulary and families of `scripts/event`; 66 scripts | - |
| `EventInstance` | `EventInstanceManager.java` and its callers | `EventScripts`, with the scripts as constants |
| `MC*` | instances for TLC | the module of the same name, and the tables |
| `SchedulerProofs` (of `BaseScheduler` and `MobAnimationScheduler`), `EventScriptSchedulerProofs`, `MatchCheckerProofs`, `InviteProofs`, `TradeProofs`, `ConversationsProofs`, `PortalsProofs`, `EventInstanceProofs` | proofs | EXTEND the module they are about |

Conventions. A section of code under one lock, or one operation of a concurrent collection, is one
action; between two of them everything interleaves. The locals of a thread are a record with a
`pc`, or, for events, a stack of frames. Variables commented *history* record what has happened
for the properties and are read by no guard. Timestamps are replaced by the fact that matters,
that a deadline has passed. A definition whose comment starts with *Seeded defect* or *Mutant* is
a version of the next definition with a plausible bug in it; the specification does not use it. It
is there to show, put in the place of the right one, that a property notices.

### BaseScheduler

Handlers and the monitor share `registeredEntries`, `idleProcs` and `schedulerTask` under
`schedulerLock`. A run of the monitor is `MonitorBegin` (the pool starts it), then, under the lock,
`MonitorIdle` (empty table: count, and cancel the task after `MonitorLife` idle runs) or
`MonitorSnapshot` (copy the table); `MonitorClock` (the time is read after the unlock, what is not
due drops out of the copy), `MonitorRun` for each due entry, without a lock; `MonitorRemove` under
the lock; `MonitorDispatch` and `MonitorNotify` for the listeners. `MonitorRunThrows` is the
exception that ends a run before anything is removed. Handlers register (`RegisterEntry`, one
locked section) and interrupt (`InterruptEntry` under the lock, `InterruptRun` and
`InterruptDispatch` after it). `Dispose` is the shutdown, after which nothing refuses a
registration: the code has no disposed flag here, so the model has none.

A registration is the number of its `registerEntry` call, so that two registrations under one key
are told apart; the history variable `calls` gives the key of each. `ReuseKeys` says whether a key
may be registered again. For the four simple schedulers the key is the `Runnable` itself and it is
FALSE; the mob schedulers use the mob, and it is TRUE.

### MobAnimationScheduler and AnimationMode

`registerAnimationMode` holds `animationLock` over three steps: find the mob at rest (`AnimLock`),
register the entry (`AnimRegister`, the locked section of BaseScheduler), add the mob to the set
(`AnimAdd`). The monitor's listener takes the same lock (`AnimNotify`) after the entry was removed.
The refinement mapping calls a mob free when it is neither in the set nor about to be, and over
when its latest registration is due. `AnimationMode` says that only a mob whose time is over is
released, and that a busy mob does not start another animation.

### EventScriptScheduler

Here each operation of the API only submits a task (`CallRegister`, `CallCancel`, `CallDispose`);
the pool carries the tasks out in any order (`PoolRegister`, `PoolCancel`, `PoolDispose`). A
Runnable is registered once and may be cancelled only after `schedule` returned its future. The
monitor is as above without the listeners. The Runnables of `schedule` catch `ScriptException` and
`NoSuchMethodException` (`EventInstanceManager.java:687`), those of a disposal nothing; whatever
else is thrown ends the run before the removal (`MonitorRunThrows`, for the Runnables `MayThrow`):
those still in the copy wait for the next run, and those called are called again by it. `runs`
counts the calls of each action, taking back those of a run that an exception ended, so
`AgainOnlyAfterException` says that nothing else makes a call be made twice. `called` and `dropped`
remember which were ever called and which a cancellation took out of the table: a cancellation that
the pool takes too early does not excuse `EventuallyRun` from the call.

### MatchChecker

A call holds a permit of the semaphore from `CallCreate` or `CallAnswer` until `End`. `PoolNext`,
`PoolFails` and `PoolDone` are the hand-made lock: players are taken one at a time and given back
when one is not free. Answers and dismissals find their entry (`AnswerGet`) and enter the monitor
of the match (`AnswerAccept`, `AnswerDeny`, `AnswerDismiss`, `AnswerInactive`); the answer that
decides goes through `DisposePool`, `DisposeRemove` and `Dispatch` inside the monitor. The finally
blocks (`End`) give back players without looking at who holds them, and so does the model. An
acceptance is four steps (`SetAccept`, `CountRead`, `CountWrite`, `CountCompare`): `confirmCount++`
is a read and a write, and the leader's own acceptance, at the end of `createMatchConfirmation`, is
outside the monitor. `counted` is the set of the members whose acceptance is in the counter, so what
a write loses can be told; a value once written is taken to be seen by every thread. The two
collections are unsynchronized in the code (`HashMap`, `HashSet`); the model takes every single
operation on them as atomic, so what a data race inside them does is not covered.

Three things a match can do are not what its code seems to promise. A member who has accepted may
dismiss the match and it comes off all the same: the acceptance of the leader looks neither at the
monitor nor at `active`, and a dismissal that waits for the monitor does not look whether the match
was completed meanwhile. Such members are recorded in `withdrawn`, and `OneResult` excludes both
results of a match nobody withdrew from. And once a call about another match has unpooled a member
(`End` again), that member may accept while the leader does: both see the count complete and the
match comes off twice, or one acceptance is lost from the count and it never does. Such matches are
recorded in `overlapped`, from which `OneResult` and `FullMatchComesOff` excuse them. Lastly a
creation that waits for the monitor of an old match has its players pooled, like the answers that
wait for it: `Stuck` names the circles this closes, and `ReturnsUnlessStuck` says that nothing else
keeps a call.

### InviteCoordinator

One slot of the three tables is the whole model, since the invited players and the types do not
meet. `AddInvite`, `AddFrom` and `AddTimeout` are the three steps of `addRequest`, `RemoveInvite`,
`RemoveFrom` and `RemoveTimeout` those of `removeRequest`. The pass of the timer reads an entry of
its copy (`TimerCopy`) and later ages or removes it (`TimerAge`, `TimerExpire` ...).

### Trade

Each player moves goods into its half (`SetMeso` and `AddMeso`; `SetItem`, `AddItem`, `RemoveItem`)
and confirms (`CallConfirm`, `Handshake` under the monitor). The second confirmation exchanges
outside of it: `Fetch` for both halves, `CheckFits` or `CheckFails`, then `ClearHalf`, `DeliverItem`
for each item, `DeliverMesos`, `Forget` for each side, then `Close`. Players, or a server thread that
warps one of them (`Warper`), cancel: `CallCancel`, `CancelEnter` inside the monitor, `RefundItem`,
`RefundMesos` and `Empty` for each half, `CloseBoth`. A step is what one thread does to one piece of
shared state; consecutive assignments of one method to the same half are one step (`Empty`).

What can go wrong in between is part of it:

* The halves are lists that handlers change under the loops over them. `stale` names the threads
  whose loop has become invalid: the next turn of it throws (`RefundThrows`, `ExchangeThrows`), which
  ends the handler, and a cancel then leaves the monitor with nothing emptied and the trade open
  (`torn`). A loop that has been through as many items as the list holds ends as if nothing had
  happened, as the iterator of an `ArrayList` does (`RefundMesos`).
* Nobody looks at what `addFromDrop` returns: goods there is no room for are gone (`Receive`,
  `refused`). Inventory locks appear as `CanReceive`.
* `SET_ITEMS` does not look at the lock of the half, so that an item can enter it after its player
  has confirmed, during the exchange and even after the trade is gone (`late`); `setMeso` looks, but
  adds to a sum that may have been read before a cancel (`AddMeso`).

Goods are model values, whether an exchange fits is a free choice, and one that has been given back
or handed over counts as another good (`Fresh`). After a torn cancel nothing bounds what the same
trade can go through again, so `AfterTear` says whether handlers are called then: not in `trade`,
whose properties except those goods, but in `trade_conserved`. The opening of the window, chat,
amounts and fees are left out.

### Dialogue, the tables, Conversations

Nearly every NPC and quest script is a `status` moved by a prelude (`if (mode == 1) status++` ...)
and a ladder of `if (status == n)`. A table keeps that: the *rule* of the prelude (named in
`Dialogue`), and for each status the *branches*, the paths through its code: which
facts about the player the path found true and false, its effects in order, the page it leaves,
whether it disposes. Where a script treats an answer specially, the table overrides that status
and answer (`At`, `But`). Globals that steer later calls are a memory (`When`, `Keep`). Texts,
amounts and places are left out; what is kept is what the properties tell apart.

`Conversations` runs one player. A call of a script (`CallScript`, used by `ClickNpc`, `OpenQuest`
and `Answer`) takes any branch whose facts do not contradict each other, and may end in an
exception at any effect that can throw: taking items that are not there any more, after some
stacks of them (`removeById`), or a call of the script that does not exist. Between two calls
anything about the player may have changed, so facts are chosen afresh in every call; a fact or a
selection that one call stores in a global and a later one uses is a memory and may be stale by then
(`gotAllDocs` of `2032002`). `ChangeMap`
closes everything at any time, also between a script's start and its page (`away`).
`DisposeCommand`, `ClickExpires`, `CooldownExpires`, `AnswerNobody`, `DeclineText` and
`RefuseQuest` are the remaining paths of the handlers. Two bounds keep the product of a stranded
NPC and every quest small: `QuestsOver` (the two quests that are opened over a stranded NPC
conversation) and `Wanderings` (the statuses it may meanwhile reach).

Scripts that break a property are named in sets that the property excuses (`Stranding` 78,
`Unsecured` 30, `HalfDone` 44, `Repeating` 20 entries in `MCConversations`). Each name there is a
finding about that script (section 5); everything else is held to the property.

### WorldScripts, PortalScripts, MapScripts, Portals

A portal script runs to its end in one call and returns whether the player goes through; a map
script runs on arrival. `Portals` has one player who enters a portal (`EnterPortal`, `Proceed`,
one `Do...` per kind of effect, `FinishScript`), a portal without a script, or dies; timers and
events move him at any time (`MovedByOthers`), his event ends, he logs in again. A change of map is
evaluated with everything nested in it (`Change`): the count, the event that is told and may throw
him out, the landing, the scripts of the map, being sent ahead, the reopening of the gate; a change
that fails or overlaps with another is a *mishap* and leaves the fields as some interleaving of
the unguarded increments can leave them. Any portal may be entered and any map script may run on
arrival, since which map has which is client data. Portals to the ships run no map script.

An `openNpc` shows a page (`Opened`), unless the NPC has no script of that name or its script ends
before a page: then the conversation is disposed of and the client hears nothing (`Silent` in the
tables, `Unheard` in `Portals`). While a conversation is open it does nothing (`Refused`). An entry
is refused with an answer (`RefuseEntry`), or, for a player marked as a cheater on another channel
than the fourth, with a message only (`TurnAway`, `ChangeMapHandler.java:56-59`).

### EventScripts, EventTables, EventInstance

An event script is a record of handlers, each a sequence of *deeds*. Five families (`PartyQuest`,
`BossFight`, `Expedition`, `Trial`, `Errand`) cover most of the 66 scripts; a table says which
family a script follows and what it does differently. `EventInstance` runs one instance: whatever
happens is a *call* of a thread, a stack of frames, and every deed is a step, so that calls
interleave at every deed. The synchronized methods (`registerPlayer`, `dispose(boolean)`,
`changedLeader`) hold the monitor for as long as they do in the code, scripts inside them included:
`DoRegister`/`Put` are the look at the flag and the insertion, `DoSeal`/`Sweep`/`Release` the three
parts of a disposal. `DoGo`, `DoWarp`, `DoLanded` are a change of map, which tells the event before
it moves the player and gives up when another one is under way. What happens: `Wander`,
`LeaveParty`, `Expel`, `HandOver`, `Drop` (the disconnection, a task of the pool), `Die`, `Revive`,
`Finish`, `Accident`, `Rejoin`, `TimerFires`, `LaterFires`.

Abstractions: a map is one the instance made (`in`), the channel's own copy of it (`astray`) or
another (`out`); timers may fire at any time; a disconnected player is marked (`leaving`), the
event hears of it, then he is gone, and five minutes later, that is at any time, calls about him
are exceptions. Left out: monsters, respawn schedules, properties, rewards, the carnival, the
extra timers of `addEventTimer`, `disposeExpedition`, the shutdown of the server, the standard
respawn of the packet handler once `playerRevive` has returned false, and `afterChangedMap`, which
only shows a page; that a later task which ended in a `RuntimeException` is tried again
(`EventScriptScheduler` has that). Lost updates of `canWarpCounter` are in `Portals`.

## 4. Runs

Each bound below was chosen so that the events named happen together, and the seeded defects show
that the instance is large enough for each property to fail.

| Run | Instance | What it shows |
| --- | --- | --- |
| `scheduler_any` | 2 keys used again, 2 handlers, actions that throw, shutdown; safety only, symmetric | entries have a live task; two handlers never both run an entry; a registration whose key is used once is not dropped unserved |
| `animation` | 2 mobs, 3 animations, 2 handlers, shutdown; fair | no mob is stuck; one animation per mob, none run twice; `AnimationMode` is implemented, with its liveness unless the channel is shut down |
| `script_calls` | 3 calls of which 2 may throw at every attempt, each registered, cancelled, and one disposal, in any order; fair | a disposed event is quiet; a call is made again only after an exception ended the run that made it, and made unless it was cancelled in time, the event disposed or exceptions go on for ever |
| `match` | 3 players, 2 matches, 2 permits, 5 answers or dismissals | accepted only by all; a refusal is final; each result once unless acceptances overlapped with the leader's, and one result unless a member withdrew |
| `match_live` | 3 players, 2 matches, 2 permits, 3 answers, no dismissal; fair | permits are given back on every path; every call returns unless two wait for each other; a full match comes off unless calls hang or the leader's acceptance was miscounted |
| `match_stall` | 2 players, leader may dismiss; fair | **violation** of `EveryCallReturns`, see findings |
| `invite` | 2 threads, 2 invitations and 2 removals each, timeout 2; fair | whatever races leave behind in the table of ages drains |
| `trade` | 2 items of different inventories, 1 sum of mesos, 3 threads, loops that throw, goods that are refused or late; no new handlers after a torn cancel; fair | nothing is handed over twice, or given back twice unless a cancel was torn; a trade both confirmed closes, but for that; while nobody leaves goods that were neither refused nor late are conserved and there is one outcome |
| `trade_conserved` | the same, with handlers after a torn cancel | **violation** of `Conserved`, see findings |
| `conversations` | every tabulated NPC and quest script, one player | but for the scripts named: no conversation is stranded, a failed call has given and taken nothing, nothing is given twice in one conversation; an answer reaches its asker. Before it starts TLC computes `MCReach`, the points of every script, and evaluates `ReachAssumption` on them |
| `portals` | every tabulated portal and map script, one player, 2 mishaps between logins | the gate of `changeMap` reopens; a waiting client is answered; a call moves the player once; a gate that stays shut takes nothing. TLC also evaluates `WaysAssumption` on every tabulated way |
| `event` | 66 event scripts with 3 players and 1 call at a time; the scripts of one player, and `Expedition`, `GuildQuest`, `TreasurePQ`, `s4aWorld`, `PartyQuest` with 2 players, with 2 calls that interleave at every deed | a disposed event is empty, leaves nobody behind on its maps, gave its lobby back once; an event that nobody is left in will end |

Bounds. `MaxReg` and `MaxTask` bound calls and tasks ever started; two registrations are enough for
one to be replaced, taken out or revived while the other is being run, three for an animation to
start again while another is released. `MonitorLife` is 84 in the code and 2 here: the countdown
has a middle. `MaxTask >= MaxReg` is assumed, so the bound on tasks blocks no registration. The
semaphore has 2 permits of its 7 where three players act, so two are inside and one may wait; that
the safety of a match does not depend on this number is proved. Five answers let a player that has
accepted answer again or withdraw beside the answers of the others; the three of `match_live` let
the last acceptance, or a refusal, meet a creation that waits for the same monitor, an acceptance
beside the leader's, and a count it loses: all of them are reached. `Timeout` is 5 in the code and 2 here. Tallies of runs stop at 2, "more than once".
`MaxMishaps` is 2: one to leave the count wrong, one to meet it. In `event` a setting bounds the
calls in progress and the happenings besides timers; two happenings let one script run into the
effects of another, and `minPlayers` is cut to what the team can fall below.
Deadlock is checked for `scheduler_any`, `conversations` and `portals`, where something can always
happen; where all calls may have been made and everyone is at rest the configuration switches it
off, and a property (`ReturnsUnlessStuck`, `ConfirmedIsSettled`, the event properties "at rest") says
that the rest is a legitimate one.

Fairness. Weak fairness for whatever the pool, the timer or the scheduler of the JVM runs: the
monitor's steps, a handler that has begun, a pool task that was submitted, the passing of time.
Nothing is assumed of what players do. The one strong fairness is that of `AnimNotify`: the
monitor waits for `animationLock`, a fair lock that others take again and again. `MatchChecker`'s
spinning loops are weakly fair only: a thread that never finds its player free is the point of
`match_stall`. Conversations, portals and events are stated without fairness: what must eventually
happen there (an answer, the end of an empty event) is stated as what must be pending when all is
at rest, which does not depend on how often players act.

## 5. Findings

Shown by a run:

1. `EveryCallReturns` (`MapleMatchCheckerCoordinator.java:304`). The call that ends a match, for
   instance the last member's acceptance, waits inside the monitor of the match to pool those who
   accepted; a dismissal by one of them, say the leader, has pooled that player and waits for the
   monitor. Both stay for ever, with two of the seven permits. (`match_live` counts such a circle,
   and the one closed by a creation that waits at :227, as `Stuck`.)
2. `Conserved` (`server/MapleTrade.java:187`). Goods on their way into the window while the partner
   cancels: added after the refund and before the half is emptied, they are gone.

Met while modelling, in the model, but claimed by no property because the code has them:

* The leader's acceptance is outside `synchronized(mmce)` (`MapleMatchCheckerCoordinator.java:272`):
  beside it a member's acceptance may complete the match a second time, or the count of one of them
  is lost and the match never comes off (`overlapped`).
* An item added to a half while a cancel gives it back (`MapleTrade.java:151`) ends the cancel with an
  exception; the trade stays open and the next cancel gives the same items back again (`torn`).
* An item offered after its player has confirmed (`PlayerInteractionHandler.java:528`) is emptied
  with the half and handed over to nobody (`late`), and so is one that `addFromDrop` refuses
  (`MapleTrade.java:122`, `:152`, `refused`).
* A cancellation that the pool takes before its registration is lost (`EventScriptScheduler.java:132`):
  the call is made. A call that ends in a `RuntimeException` is made again every 200 ms, with those
  its run had made before it, and those behind it wait (`:87`).
* An invitation made while its predecessor is being removed loses its age and is never expired
  (`MapleInviteCoordinator.java:73`, `:84`).
* `EventInstanceManager.java:604` says no script method should be triggered after disposal:
  `invokeScriptFunction` looks at the flag once and then calls, so a disposal in between is late.
* Clearing (`:1081`) and disposal (`:640`) that overlap give the lobby back twice, by name; the
  second time it may belong to the next event (`LobbyReturned` allows it only then). Two players
  who leave at once both find the team not lacking (`:1129`). Unregistering a player from an old
  copy of the list takes the reference to his newer event from him. A player whose registration or
  another change of map overlaps with the end stays on the maps that are torn down (the
  excuses of `NobodyForgotten`). An event that nobody entered, because all of its team logged off
  first, has no timer when its script starts it in `playerEntry` (the trials, `KerningTrain`).

Of single scripts (the exception sets):

* *Events.* `RockSpirit`, `RockSpiritVIP`: `exitMap` is a number, `timeOut` fails on it and the
  lobby stays taken. `MahaBattle`: `minPlayers` is not declared, so a disconnection ends nothing.
  `s4aWorld`: `playerDisconnected` does nothing. `DangerousInfo`, `Puppeteer`: `changedMap` looks at
  the map the player comes from, so entering ends the event. `MK_PrimeMinister2`: `changedMap`
  names a `player` that is not there. `SpellBreakers`, `JennsBrother`: leaving the map is not noticed.
  `KerningPQ.clearPQ` leaves the timer running. `4jberserk`, `4jrush` and `BossQuest*` call methods
  that do not exist and never start.
* *Portals.* Thirteen `Masteria_*` return the opposite of what they did, and twelve others return true
  having done nothing, or having opened an NPC without a script (`in2159011`, `cannon_tuto_09`) or one
  whose script ends before a page (`TD_MC_enterboss1`): the client waits until it is moved (`Mute`).
  So does a cheater whom `ChangeMapHandler` only sends a message. `Spacegaga_out0`..`2` lack the
  braces of an `else`, and the three `TowerTop`s and `enterInfo` warp after they started an event that
  warps (`Restless`). `tamepig_out2` takes the items of players it does not let out (`Tolls`).
  `gotoNext4`, `in_xmas_party`, `lionCastle_enter` compare the method `getLevel` with a number.
* *Conversations.* Calls of methods that do not exist (`1021`'s `dropMessage`, `sendImage` in eight
  Evan quests, `showItemGain` in `2570` and `23011`, `haveITem` in `9201106`, `gainRandomItem` in
  `2040020` ...), undeclared variables (`2041009`, `9300010`, `1002100` ...): the call fails half-way, and the
  conversation stays open (`Stranding`, `HalfDone`). 20 scripts give a reward on a page one can step
  back to (`Repeating`). `2032002` looks for the documents in one call and takes them in a later one,
  after the fire ore: if they are gone by then, the ore is taken for nothing.

## 6. Proofs

TLAPS proves the following for every value of the constants that satisfies the assumption of the
module (`BoundsAssumption`: bounds are naturals, `MonitorLife` is positive, switches are Booleans;
`PortalAssumption`, `EventAssumption`: bounds are naturals, the sets of players and calls finite,
the leader belongs to the team, a script has its handlers; `TradeAssumption`: two different players,
a third party that warps, each good has an owner, mesos are not items, and the items are finitely many; `ReachAssumption`, `WaysAssumption`: see the
conversations and the portals below; `DeedsAssumption`: the handlers of an event script consist of
deeds that say what they need to, and none of them counts a change of map off, which
`canWarpCounter` lets only the Java code do). The tables are constants too: what is proved holds
for any scripts that satisfy the assumption, and TLC evaluates it on the tables of the project; the
gate of `Portals` and `DisposedStaysEmpty` do without it.

| Theorem | Statement |
| --- | --- |
| `SchedulerProofs!TypeCorrect` | `Spec => []TypeOK` |
| `SchedulerProofs!AlwaysMonitored` | `Spec => []EntriesHaveMonitor` |
| `SchedulerProofs!NoneDropped` | `Spec => []SoleRegistrationServed` |
| `SchedulerProofs!InterruptedAtMostOnce` | `Spec => []InterruptedOnce` |
| `SchedulerProofs!MonitoredAtMostOnce` | `Spec => []MonitoredOnce`, if `MayThrow = FALSE` |
| `SchedulerProofs!AnimationsUseTheTable` | `AnimSpec => Spec` of `BaseScheduler` |
| `SchedulerProofs!NoMobIsStuck` | `AnimSpec => []NoStuckMob` |
| `SchedulerProofs!AnimationIsOne` | `AnimSpec => []OneAnimationPerMob` |
| `SchedulerProofs!AnimationIsRefined` | `AnimSpec => ImplementsAnimationMode` |
| `SchedulerProofs!AnimationEndsOnce` | `AnimSpec => []MonitoredOnce`, if `MayThrow = FALSE` |
| `EventScriptSchedulerProofs!TypeCorrect` | `Spec => []TypeOK` |
| `EventScriptSchedulerProofs!TableCorrect` | `Spec => [](EntriesHaveMonitor /\ DisposedIsQuiet)` |
| `EventScriptSchedulerProofs!CalledAgain` | `Spec => []AgainOnlyAfterException` |
| `MatchCheckerProofs!MatchTypeCorrect` | `Spec => []TypeOK` |
| `MatchCheckerProofs!AcceptedIsUnanimous` | `Spec => []AcceptedByAll` |
| `MatchCheckerProofs!RefusalHolds` | `Spec => []RefusalIsFinal` |
| `MatchCheckerProofs!ResultIsUnique` | `Spec => []OneResult` |
| `InviteProofs!InvitesWellTyped` | `Spec => []TypeOK` |
| `TradeProofs!TradeTypeCorrect` | `Spec => []TypeOK` |
| `TradeProofs!SettledAtMostOnce` | `Spec => []SettledOnce` |
| `TradeProofs!OutcomeIsOne` | `Spec => []OneOutcome` |
| `TradeProofs!GoodsAreConserved` | `Spec => []ConservedWhileBothStay` |
| `ConversationsProofs!ConversationsTypeCorrect` | `Spec => []TypeOK` |
| `ConversationsProofs!NobodyIsStranded` | `Spec => []NeverStranded` |
| `ConversationsProofs!AnswersReachTheirAsker` | `Spec => []AnswerReachesAsker` |
| `ConversationsProofs!FailuresAreClean` | `Spec => []AllOrNothing`, if `Careful` |
| `ConversationsProofs!NothingIsGivenTwice` | `Spec => GivenOnce`, if `Frugal` |
| `PortalsProofs!PortalsTypeCorrect` | `Spec => []TypeOK` |
| `PortalsProofs!GateAlwaysReopens` | `Spec => []GateReopens` |
| `PortalsProofs!ClientIsAnswered` | `Spec => []Answered` |
| `PortalsProofs!DestinationIsOne` | `Spec => []OneDestination` |
| `PortalsProofs!NobodyPaysInVain` | `Spec => []GateTakesNothing` |
| `EventInstanceProofs!DisposedStaysEmpty` | `Spec => []DisposedIsEmpty` |
| `EventInstanceProofs!WellTyped` | `Spec => []TypeOK` |
| `EventInstanceProofs!LobbyNotLost` | `Spec => []NoLobbyLost`: `disposed /\ AtRest => freed > 0` |
| `EventInstanceProofs!LobbyGivenBackOnce` | `Spec => [](ClearsOnce(script, M) => LobbyReturned)`, for any `M` with `Mild(M)` |
| `EventInstanceProofs!EventsEndThemselves` | `Spec => [](EndsItself(script, Tame, Enders) /\ ~past.crashed => EmptyEventWillEnd)`, for any `Tame \subseteq Deeds` and any `Enders` |

* `EntriesHaveMonitor` is inductive next to `TypeOK`: the only steps that clear the task also see
  or make the table empty, under the same lock.
* `SoleRegistrationServed` is not inductive: the removal by key trusts a list made long before.
  The invariant adds that the table and every copy pair a registration with its own key
  (`KnownEntries`, `KnownCopies`) and that a key on a removal list has a registration that was run
  (`RunBeforeRemoved`). If the key was registered once, that is the one removed.
* `InterruptedOnce` rests on ownership: an entry taken out is in one handler's hands (`OneTaker`),
  not in the table, and not yet run (`TakenOut`).
* `MonitoredOnce` rests on there being one run at a time (`OneRun`, true until a shutdown, which
  cancels the task under a run that goes on). What that run has run is on its list
  (`RunIsBeingRemoved`), so the next copy holds only what was never run (`FreshCopies`). With
  throwing actions it is false, the list being lost: hence the hypothesis.
* The animations need one invariant, `AInv`, with two halves. Who may look: `animationLock` is held
  from the look at the set until the mob is in it (`Locking`), so a mob that is registered was not
  held by anybody. What may be remembered: until a shutdown a mob is held exactly while it is in the
  table or on the way from there to the listener (`HeldUntilReleased`), hence nobody replaces an
  entry that a run has copied (`CopiesInTable`). Through a shutdown only what the listener may still
  be told matters: one run at most is that far (`OneNotifier`), and the mobs on its list are held
  and over (`ReleasesAreOver`), which is what the release of `AnimationMode` demands. Nothing of
  this needs `MayThrow = FALSE`: a mob whose run is lost stays in the table.
* `AgainOnlyAfterException` is the same argument carried through a disposal and through exceptions:
  the disposed flag keeps a second task from starting while the last run finishes (`BusyTask`), and
  a run that an exception ends takes its calls back together with its list.
* The properties of the match checker have one invariant, `IInv`, and it does not mention
  `pooledCids`: the hand-made lock, which anybody may release, protects none of them. What does:
  a creation works on an element that nobody has seen until it is put (`NumbersAreFresh`); who is
  asked about a match or answers it is a member (`MembersAnswer`); who is counted has accepted, so
  that a complete count means everybody (`CountsAcceptances`, `CompletedByAll`); a member counts
  inside the monitor (`Synchronized`), so that without the leader beside it one call at most
  completes the match (`CompletedOnce`); a dismissal only while the match is
  active (`DismissedOnce`), after which a member who has not accepted it and is not its founder has
  no way to (`DismissedIsIncomplete`); and so with one who declined, inside whose call nobody else
  answers for him (`RefusedIsIncomplete`). Each step decides about the match its thread is on
  (`DecisionKeeps`) or about none (`QuietKeeps`).
* The exchange of a trade is synchronized with nothing. That it hands over no good twice rests on
  the handshake before it, which happens once and after both have confirmed (`ExchangedOnce`), and
  on what changes hands being a copy of a half, which holds goods of one player only
  (`Ownership`). As long as no exception has ended a cancel, cancelling gives back nothing twice:
  inside the monitor either the trade is gone or nothing has been given back yet (`CancelledOnce`). While both stay, only the thread that
  was to make the exchange cancels, and then nothing has been handed over (`CancelledInstead`):
  that is `OneOutcome`.
* `ConservedWhileBothStay` says where every good is, so its invariant has to say it for every stage
  of the trade, of the goods that were offered in time and not refused (`Kept`). Until the handshake,
  what a player misses of its own is in its half or in the hands of the thread that is putting it
  there (`Offering`); a player that has confirmed is not moving anything but a late item
  (`NothingPending`). From the handshake on one thread settles, and `Stage` says for each of its
  steps, within a loop for the items it is through with, which halves are still filled, what it
  carries, and who has received or got back what (`Settlement`).
* What can be said of all conversations from each script alone is the point of the proofs about
  them. `Reach` gives each script the points of its conversation: status, memory, page shown, things
  given so far. `Sound` says that its calls lead from point to point, that a script not excused has a
  page at each, and that a stranded NPC script also survives the pages that quests part with.
  That no script is ever called at another point is the invariant: an open quest is at the point
  that the page on the screen says (`QuestAtPoint`), an NPC under it was left without a page, and an
  open NPC with no quest over it is at the point of the page too (`NpcAtPoint`). It rests on how the
  handlers exclude each other, so it fails as soon as an answer goes to the NPC first or one of the
  conversations survives a change of map (the seeded defects). `Careful` and `Frugal` say of each
  script alone what `AllOrNothing` and `GivenOnce` say of all conversations; they are hypotheses of
  the two theorems, since they are about the scripts, and TLC finds them true of the tables in the
  project, over `MCReach`. They would not be for every quest in `QuestsOver`: seven NPC scripts
  (`1012008`, `1072002`, `2131001`, `2131003`, `2131005`..`2131007`) that are stranded give again
  when the answer to another quest's last page reaches them.
* `GateReopens` says nothing once a change has failed, so it is not inductive: the invariant adds
  how far the count may then be off (`Counted`, one below and three above zero for each mishap) and
  that a script does not go on after an exception (`Going`). What a change of map makes of the gate
  is proved once for any state of the world, along its nesting: `ChangeOutcome`, from the lemmas on
  the arrival and on being sent ahead.
* The other three properties of `Portals` follow from conditions on each way through a portal
  script alone (`WaysAssumption`): unless its script is excused, a way that lets the player through
  answers the client (`Telling`), has one change of map at most (`MovesOnce`), and what it takes it
  takes after a change of map or with one ahead that nothing before can stop (`PaysToGo`). The
  invariant says the same of what is left of the way (`WillBeTold`, `MovedOnce`, `PaidToGo`), and
  the proof is that what happens between two steps does not undo what has been done: nothing makes
  an answered client wait, or moves the player on account of the entry. It needs the gate: a change
  that did not fail has told the client or was ignored, and through an open gate it moves the
  player exactly once (`ChangeTells`), since an event that exits him while it is told of the change
  shuts the gate on it. A dead player's answer and a portal without a script rest on the same lemma.
* `DisposedIsEmpty` is not inductive either: a registration that has looked at the flag and not yet
  put the player in would break it after the disposal. The monitor excludes that (`PutIsEarly`),
  and since a player has the event only while he is registered (`MembersAreRegistered`), the sweep,
  which walks the registered players, leaves nobody with it.
* `TypeOK` of the events is deeper than a type invariant usually is: `canWarpCounter` is counted up
  where a change of map begins and down where it ends, by every call that moves the player, and no
  call looks at what the others are doing. The invariant (`Typed`) says that the counter covers the
  places on all stacks where a change of map is still to be counted off (`Counted`, by
  cardinality). A place is named by its distance from the end of the stack and of the frame, which
  does not change when deeds are put on top and taken off, so every step is one of three: it keeps
  the places or loses some (`Shrinks`, all the others), it counts one up and adds one (`DoGo`,
  `GoKeeps`), or it counts one down and takes exactly that one away (`DoLanded`, `LandedCounts`).
* That no lobby is lost rests on who owes it (`Pays`): behind `cleared` a call is just about to give
  it back, behind `disposed` one is on its way through `dispose(boolean)`, until it is given back;
  the call that ends a disposal passes the debt on when the event has been cleared in between.
* That it is given back only once is not true of any script: one that clears in the middle of a
  handler and again at its end, or from a call that its own clearing makes, would do it twice. The
  theorem therefore has a condition on the script. `Mild(M)` says that the deeds in `M` lead to
  no clearing: none of them is `Clear`, and what a member of `M` calls consists of members of `M`
  again. `ClearsOnce(s, M)` says that the handlers of `s` are made of such deeds, except that
  `clearPQ` clears, before it does anything but stop the timer. The invariant (`Once`) then follows the one call that clears through its stages,
  for as long as calls have not overlapped: before it the stacks hold only deeds of `M` and at most
  one `clearPQ` (`Asking`); from `eventCleared` on nothing else can ask for a clearing (`Clearing`,
  `Giving`); and `cleared` and `freed` say at each stage how far it is. `MostClearOnce`, an
  assumption of `MCEventInstance` that TLC evaluates, is that all scripts of the tables but three
  meet the condition. The three, of `DelliBattle` (when the time is up), `DangerousInfo` and
  `Puppeteer` (when a player changes map), clear elsewhere too.
* That an event does not keep its lobby for ever is a condition on the script as well.
  `SeesToEnd(Enders, s)` says of each of these deeds that it disposes of the event, clears it, or
  leads to another of them whatever is answered: by the timer, the later task, a handler, a question.
  `EndsItself` adds that `setup` or `playerEntry` does one of them, that the timer is stopped only
  before another, and that no handler breaks or ends the revival half-way. The invariant (`EndInv`)
  keeps the second for every stack of every call, whatever is put on top or dropped (`Faring`), and
  with it that the end is `Assured` by a flag, a timer or a task, or some call has it before it
  (`Awaits`), or the first player is still to enter (`AtEntry`). What uses a deed up leaves what it
  promised: the timer that runs out puts the handler's deeds on a stack, a clearing sets the flag,
  and a call that loses a guarded frame loses it with the deed behind the stop. The calls may
  overlap. The excuse of a call that a `RuntimeException` ended half-way is wider in the theorem
  (`~past.crashed`) than in the run. `MostEndThemselves`, an assumption of `MCEventInstance` that
  TLC evaluates, is that 48 of the 66 tables meet the condition, with their own deeds as `Tame`; it
  names the 18 others (an error in a handler, a `playerRevive` that returns false, a time that may
  only take the team elsewhere, no task at all in `s4aWorld`). All but the four of `Unending` end all
  the same, as the run shows, but by several handlers together.
* The type invariant of `InviteCoordinator` follows table by table: an operation writes one entry of
  one table, and the pass of the timer writes back only ages of its own copy, whose keys were
  copied from a well-typed table (`Placed`).

The strengthenings were checked with TLC on the instances above before they were proved.

Only model-checked: everything about liveness (TLAPS proves no fairness argument with ENABLED):
`EventuallyRun`, `ReturnsUnlessStuck`, `FullMatchComesOff`, `AgesDrain`, `ConfirmedIsSettled` and the
fairness of `AnimationMode` (`ImplementsAnimationFairness`); that the
points of the tables are what `ReachAssumption`, `Careful` and `Frugal` say (an induction over each
table's own data), and so of `WaysAssumption`; that the lobby is given back once by the
three scripts of `MostClearOnce`, and that an empty event ends (`EmptyEventWillEnd`) for the 18 that
`MostEndThemselves` names and after an exception in a call that overlapped with no other; where the players of an event end
up (`NobodyForgotten`), which depends on whom each script takes out before it disposes of the event,
and where to, and so on what the handlers say together. (Induction over the
natural numbers is used in its set form, `WFMin` of the library, for what `FlattenSeq` returns; the
theorems that take an operator cannot be used.)

## 7. Not modelled

`PROJECT.json` gives the reason for each component. In short: game rules over static data, packet
formatting, WZ parsing and database access have no protocol of their own; `java.util.concurrent` is
modelled where it is used; the remaining protocols are the plan. Within the modelled components:

* what the match listeners do with a result (founding a guild, starting a carnival); the opening of
  a trade, its amounts and fees; the effect of data races inside unsynchronized collections
  (`matchEntries`, the managers' `cms`, `qms` and `scripts`, the shared `engine` of
  `AbstractScriptManager`);
* NPC and quest scripts that are not a status and a ladder (the tables hold 590 of the 741 NPC
  scripts and 340 `start`s and `end`s of the 259 quest scripts): loops over players or items, functions
  of their own, shops, the styling of texts. Their files have no table;
* what an NPC's script does that a portal opens, beyond whether it shows a page: `Conversations` has
  those scripts (only the warp of `1052115` is in the portal's table, since no page comes before it);
* the portal and map scripts `f_dojang_1st`, `f_spaceGaGa_sMap`, `u_explorationPoint`,
  `curseforest`, `davy_next0` and `2`..`4`, `enterMCave`, `glpqPortal2`, `go_secretroom`, `out_pepeking`,
  `party6_stage800`, `skyrom`, `TD_MC_enterboss2`, `TD_neo_inTree`, `timeQuest`, `dojang_next`,
  `dojang_up`, `party3_jailin`, `highposition` and that of map 926120300, which compute with maps,
  mobs or properties;
* event scripts without an instance (boats, area bosses, double experience: they only schedule), and
  those whose `setup` fails;
* reactor scripts: they drop items and spawn monsters.

## 8. Plan

Done: the schedulers, the match checker, invitations, the trade window, conversations, portals and
event instances, with the proofs of section 6. What would come next, in order of importance:

1. Proofs: `NobodyForgotten`, from a condition on each script; a weaker condition than `EndsItself`
   for the scripts that need several handlers to end their events.
2. `EventManager`: lobbies, ready instances against their limit, the guild queue, composed with
   `EventInstance` (a lobby given back twice).
3. `Party` with `PartySearch`: size, leader and the copies held by characters, composed with
   `EventInstance`.
4. `SessionCoordinator`: hosts, machines and accounts, abstract specification "one session per
   account".
5. `HiredMerchant` with Fredrick: an abstract specification in which an item is sold or given back.
6. `MobStatusScheduler` and `FaceExpressionScheduler` on top of `BaseScheduler`; `Trade` from the
   invitation on, with amounts and fees; expeditions; looting; reactors.
