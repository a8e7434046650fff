----------------------------- MODULE EventTables ----------------------------
(***************************************************************************)
(* The scripts of events that make an instance, each as the family it      *)
(* follows and what it does differently.                                   *)
(***************************************************************************)
EXTENDS EventScripts

e1stSpellBreaker == [Errand EXCEPT !.clear = <<StopTimer, SetCleared>>]
e2ndSpellBreaker == [Errand EXCEPT !.clear = <<StopTimer, SetCleared>>]
e3rdJob_bowman == Trial
e3rdJob_magician == Trial
e3rdJob_mount ==
  [Trial EXCEPT
     !.friend = <<If("fact", <<FirstOf(<<Exit, Go("out")>>)>>, <<>>)>>,
     !.clear = <<StopTimer, SetCleared, FirstOf(<<Unregister, Go("out"), Dispose>>)>>]
e3rdJob_pirate == Trial
e3rdJob_thief == Trial
e3rdJob_warrior == Trial
e3rdSpellBreaker == [Errand EXCEPT !.clear = <<StopTimer, SetCleared>>]
e4jaerial ==
  [Trial EXCEPT
     !.setup = <<StartTimer>>, !.entry = <<Go("in")>>, !.clear = <<StopTimer, SetCleared>>]
e4jship ==
  [Trial EXCEPT
     !.setup = <<StartTimer>>, !.entry = <<Go("in")>>,
     !.friend = <<If("fact", <<FirstOf(<<Exit, Go("out")>>)>>, <<>>)>>,
     !.clear = <<StopTimer, SetCleared, FirstOf(<<Unregister, Go("out"), Dispose>>)>>]
e4jsuper ==
  [Trial EXCEPT
     !.setup = <<StartTimer>>, !.entry = <<Go("in")>>,
     !.friend = <<If("fact", <<FirstOf(<<Exit, Go("out")>>)>>, <<>>)>>,
     !.clear = <<StopTimer, SetCleared, FirstOf(<<Unregister, Go("out"), Dispose>>)>>]
AmoriaPQ ==
  [PartyQuest EXCEPT
     !.need = 6, !.timeout = <<If("fact", <<WarpTeam("out")>>, <<End>>)>>]
Aran_2ndmount ==
  [Trial EXCEPT
     !.friend = <<If("fact", <<FirstOf(<<Exit, Go("out")>>)>>, <<>>)>>,
     !.clear = <<StopTimer, SetCleared, FirstOf(<<Unregister, Go("out"), Dispose>>)>>]
Aran_3rdmount ==
  [Trial EXCEPT
     !.friend = <<If("fact", <<FirstOf(<<Exit, Go("out")>>)>>, <<>>)>>,
     !.clear = <<StopTimer, SetCleared, FirstOf(<<Unregister, Go("out"), Dispose>>)>>]
BalrogBattle == [Expedition EXCEPT !.need = 6]
BalrogBattle_Easy == [Expedition EXCEPT !.need = 3]
BalrogQuest == Trial
CWKPQ ==
  [BossFight EXCEPT
     !.need = 6, !.changed = <<If("outside", MayEnd("lacking"), Restarts)>>]
Cygnus_Magic_Library ==
  [Errand EXCEPT
     !.changed = Outside(<<If("fact", <<Removed, Dispose>>, <<>>)>>)]
DangerousInfo ==
  [Errand EXCEPT
     !.changed = <<If("coming", <<Removed, StopTimer, SetCleared, Dispose>>, <<Breaks>>)>>]
DelliBattle ==
  [PartyQuest EXCEPT
     !.friend = <<If("fact", <<End>>, <<>>)>>, !.timeout = <<Clear>>]
DollHouse == Trial
ElementalBattle == [PartyQuest EXCEPT !.need = 2]
EllinPQ == [PartyQuest EXCEPT !.need = 4, !.lost = <<If("lacking", <<End>>, <<Exit>>)>>]
ElnathPQ == PartyQuest
GuardianNex ==
  [BossFight EXCEPT
     !.solo = TRUE, !.open = FALSE, !.revive = Respawned \o <<Handled>>,
     !.timeout = <<ExitAll, Dispose>>]
GuildQuest ==
  [BossFight EXCEPT
     !.need = 6, !.changed = Outside(MayEnd("lacking, closed")),
     !.lost = MayEnd("lacking, closed"),
     !.revive = <<If("fact", <<>>, Respawned \o <<If("lacking, closed", <<End>>, <<>>), Handled>>)>>,
     !.dead = <<If("fact", <<End>>, <<>>)>>,
     !.timeout = <<If("cleared", <<WarpTeam("in")>>, <<If("fact", <<If("short", <<End>>, <<StartTimer>>)>>, <<End>>)>>)>>,
     !.clear = <<StopTimer, SetCleared, WarpTeam("in"), StartTimer>>]
HenesysPQ ==
  [PartyQuest EXCEPT
     !.need = 3, !.friend = <<If("fact", <<Later>>, <<>>)>>,
     !.timeout = <<If("fact", <<WarpTeam("in")>>, <<End>>)>>,
     !.clear = <<StopTimer, SetCleared, WarpTeam("in")>>, !.later = <<End>>]
HolidayPQ_1 == [PartyQuest EXCEPT !.need = 3, !.friend = <<If("fact", <<End>>, <<>>)>>]
HolidayPQ_2 == [PartyQuest EXCEPT !.need = 3, !.friend = <<If("fact", <<End>>, <<>>)>>]
HolidayPQ_3 == [PartyQuest EXCEPT !.need = 3, !.friend = <<If("fact", <<End>>, <<>>)>>]
HorntailBattle == [Expedition EXCEPT !.need = 6]
HorntailPQ ==
  [PartyQuest EXCEPT
     !.need = 3, !.clear = <<StopTimer, SetCleared, WarpTeam("out")>>]
JennsBrother == [Errand EXCEPT !.clear = <<StopTimer, SetCleared>>]
KerningPQ == [PartyQuest EXCEPT !.need = 3, !.clear = <<SetCleared>>]
KerningTrain ==
  [Trial EXCEPT
     !.entry = <<Go("in"), Later>>, !.changed = Nothing, !.exit = <<Unregister, Go("out")>>,
     !.end = <<ExitAll, Dispose>>, !.timeout = Nothing, !.later = <<End>>]
KingPepeAndYetis ==
  [BossFight EXCEPT
     !.solo = TRUE, !.open = FALSE, !.revive = Nothing, !.timeout = <<ExitAll, Dispose>>,
     !.clear = Nothing]
LatanicaBattle == PartyQuest
LudiMazePQ ==
  [PartyQuest EXCEPT
     !.need = 3, !.clear = <<StopTimer, SetCleared, WarpTeam("in")>>]
LudiPQ ==
  [PartyQuest EXCEPT
     !.need = 5, !.timeout = <<If("fact", <<WarpTeam("in")>>, <<End>>)>>,
     !.clear = <<StopTimer, SetCleared, StartTimer, WarpTeam("in")>>]
MagatiaPQ_A == [PartyQuest EXCEPT !.need = 4]
MagatiaPQ_Z == [PartyQuest EXCEPT !.need = 4]
MahaBattle ==
  [BossFight EXCEPT
     !.solo = TRUE, !.open = FALSE, !.changed = Outside(<<Breaks>>), !.lost = <<Breaks>>,
     !.revive = <<Breaks>>]
MK_PrimeMinister ==
  [BossFight EXCEPT
     !.open = FALSE, !.setup = <<If("fact", <<StartTimer>>, <<Later>>)>>,
     !.removed = <<Unregister, PutOut>>, !.timeout = <<ExitAll, Dispose>>,
     !.later = <<If("fact", <<StartTimer>>, <<Later>>)>>]
MK_PrimeMinister2 ==
  [BossFight EXCEPT
     !.open = FALSE, !.setup = <<If("fact", <<StartTimer>>, <<Later>>)>>,
     !.changed = Outside(<<Breaks>>), !.removed = <<Unregister, PutOut>>,
     !.timeout = <<ExitAll, Dispose>>, !.later = <<If("fact", <<StartTimer>>, <<Later>>)>>]
OrbisPQ ==
  [PartyQuest EXCEPT
     !.need = 5, !.timeout = <<If("fact", <<WarpTeam("in")>>, <<End>>)>>]
PapulatusBattle == [Expedition EXCEPT !.open = FALSE]
PinkBeanBattle ==
  [Expedition EXCEPT
     !.need = 6, !.revive = Nothing, !.dead = <<If("fact", <<End>>, <<>>)>>]
PiratePQ ==
  [PartyQuest EXCEPT
     !.need = 3, !.changed = <<If("outside", MayEnd("lacking"), Restarts)>>,
     !.lost = <<If("lacking", <<End>>, <<Exit>>)>>,
     !.clear = <<StopTimer, SetCleared, WarpTeam("out")>>]
Puppeteer ==
  [Errand EXCEPT
     !.changed = <<If("coming", <<Removed, StopTimer, SetCleared, Dispose>>, <<Breaks>>)>>]
RockSpirit ==
  [BossFight EXCEPT
     !.solo = TRUE, !.open = FALSE, !.entry = <<Go("in"), Later>>,
     !.exit = <<Unregister, Breaks>>, !.revive = Respawned \o <<Handled>>,
     !.timeout = Nothing, !.clear = Nothing, !.later = <<End>>]
RockSpiritVIP ==
  [BossFight EXCEPT
     !.solo = TRUE, !.open = FALSE, !.entry = <<Go("in"), Later>>,
     !.exit = <<Unregister, Breaks>>, !.revive = Respawned \o <<Handled>>,
     !.timeout = Nothing, !.clear = Nothing, !.later = <<End>>]
s4aWorld ==
  [PartyQuest EXCEPT
     !.changed = Outside(<<Unregister, EndIfFew>>), !.end = Nothing, !.left = <<Exit>>,
     !.disband = <<EndAnyway>>, !.lost = Nothing, !.revive = Nothing, !.chief = Nothing,
     !.timeout = <<EndAnyway>>, !.clear = <<EndAnyway>>]
ScargaBattle == [Expedition EXCEPT !.need = 6]
ShowaBattle == [Expedition EXCEPT !.need = 3]
TD_Battle1 == [PartyQuest EXCEPT !.need = 2]
TD_Battle2 == [PartyQuest EXCEPT !.need = 2]
TD_Battle3 == [PartyQuest EXCEPT !.need = 2]
TD_Battle4 == [PartyQuest EXCEPT !.need = 2]
TD_Battle5 == [PartyQuest EXCEPT !.need = 2]
TreasurePQ ==
  [PartyQuest EXCEPT
     !.need = 4, !.clear = <<StopTimer, SetCleared, Later>>,
     !.later = <<StartTimer, WarpTeam("in")>>]
WeddingCathedral ==
  [BossFight EXCEPT
     !.changed = Outside(MayEnd("marrying")), !.lost = MayEnd("marrying"),
     !.revive = MayEnd("marrying"), !.timeout = <<If("fact", <<StartTimer>>, <<End>>)>>]
WeddingChapel ==
  [BossFight EXCEPT
     !.changed = Outside(MayEnd("marrying")), !.lost = MayEnd("marrying"),
     !.revive = MayEnd("marrying"), !.timeout = <<If("fact", <<StartTimer>>, <<End>>)>>]
ZakumBattle ==
  [BossFight EXCEPT
     !.need = 6, !.changed = Outside(<<Unregister>>), !.lost = <<Unregister>>,
     !.revive = <<Unregister>>]
ZakumPQ == PartyQuest
=============================================================================
