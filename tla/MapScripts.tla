----------------------------- MODULE MapScripts -----------------------------
(***************************************************************************)
(* Tables of the scripts under scripts/map, which run when a player comes to*)
(* a map: u_<name> for onUserEnter, f_<name> for onFirstUserEnter.         *)
(***************************************************************************)
EXTENDS WorldScripts

f_spaceGaGa_start ==
  If(Fact("getMap().getTimeLeft() >= 1"),
    Do(<<Call("resetEnteredScript"), Call("useItem 2360002")>>, Done),
  Do(<<Call("resetEnteredScript"), Call("getMap().addMapTimer 180"),
       Call("useItem 2360002")>>, Done))

u_100000006 ==
  If(AllOf({Started(2175), Fact("getMap().getMonsterById(9300156) = null")}),
    Do(<<Call("getMap().spawnMonsterOnGroundBelow")>>, Done),
  Done)

u_108010101 ==
  If(InMap(108010101),
    If(Fact("getMap().getMonsterById(9001002) = null"),
      Do(<<Call("getMap().spawnMonsterOnGroundBelow")>>, Done),
    Done),
  If(InMap(108010301),
    If(Fact("getMap().getMonsterById(9001000) = null"),
      Do(<<Call("getMap().spawnMonsterOnGroundBelow")>>, Done),
    Done),
  If(InMap(108010201),
    If(Fact("getMap().getMonsterById(9001001) = null"),
      Do(<<Call("getMap().spawnMonsterOnGroundBelow")>>, Done),
    Done),
  If(InMap(108010401),
    If(Fact("getMap().getMonsterById(9001003) = null"),
      Do(<<Call("getMap().spawnMonsterOnGroundBelow")>>, Done),
    Done),
  If(AllOf({InMap(108010501), Fact("getMap().getMonsterById(9001008) = null")}),
    Do(<<Call("getMap().spawnMonsterOnGroundBelow")>>, Done),
  Done)))))

u_108010201 == u_108010101
u_108010301 == u_108010101
u_108010401 == u_108010101
u_108010501 == u_108010101

u_108010600 ==
  Do(<<Unless(Fact("getMap().containsNPC(1104100)"), <<Call("spawnNpc 1104100")>>)>>, Done)

u_108010610 ==
  Do(<<Unless(Fact("getMap().containsNPC(1104101)"), <<Call("spawnNpc 1104101")>>)>>, Done)

u_108010620 ==
  Do(<<Unless(Fact("getMap().containsNPC(1104102)"), <<Call("spawnNpc 1104102")>>)>>, Done)

u_108010630 ==
  Do(<<Unless(Fact("getMap().containsNPC(1104103)"), <<Call("spawnNpc 1104103")>>)>>, Done)

u_108010640 ==
  Do(<<Unless(Fact("getMap().containsNPC(1104104)"), <<Call("spawnNpc 1104104")>>)>>, Done)

u_108010701 == Done
u_130030000 == Do(<<Call("updateQuestInfo 20010 1")>>, Done)
u_130030001 == Do(<<Call("updateQuestInfo 20010 1")>>, Done)

u_200000112 ==
  Do(<<Given(Fact("getClient().getEventManager('Boats').getPr.."), <<Ahead(200090000)>>)>>, Done)

u_200000122 ==
  Do(<<Given(Fact("getClient().getEventManager('Trains').getP.."), <<Ahead(200090100)>>)>>, Done)

u_200000132 ==
  Do(<<Given(Fact("getClient().getEventManager('Cabin').getPr.."), <<Ahead(200090200)>>)>>, Done)

u_200000152 ==
  Do(<<Given(Fact("getClient().getEventManager('Genie').getPr.."), <<Ahead(200090400)>>)>>, Done)

u_200090000 ==
  Do(<<Call("MaplePacketCreator.musicChange"),
       Call("MaplePacketCreator.crogBoatPacket true")>>, Done)

u_200090010 == u_200090000

u_220000111 ==
  Do(<<Given(Fact("getClient().getEventManager('Trains').getP.."), <<Ahead(200090110)>>)>>, Done)

u_240000111 ==
  Do(<<Given(Fact("getClient().getEventManager('Cabin').getPr.."), <<Ahead(200090210)>>)>>, Done)

u_260000110 ==
  Do(<<Given(Fact("getClient().getEventManager('Genie').getPr.."), <<Ahead(200090410)>>)>>, Done)

u_540010001 ==
  Do(<<Given(Fact("getClient().getEventManager('AirPlane').ge.."), <<Ahead(540010002)>>)>>, Done)

u_540010100 ==
  Do(<<Given(Fact("getClient().getEventManager('AirPlane').ge.."), <<Ahead(540010101)>>)>>, Done)

u_600010002 ==
  Do(<<Given(Fact("getClient().getEventManager('Subway').getP.."), <<Ahead(600010003)>>)>>, Done)

u_600010004 ==
  Do(<<Given(Fact("getClient().getEventManager('Subway').getP.."), <<Ahead(600010005)>>)>>, Done)

u_677000001 ==
  If(Fact("getMap().getMonsterById(9400612) = null"),
    Do(<<Call("getMap().spawnMonsterOnGroundBelow")>>, Done),
  Done)

u_677000003 ==
  If(Fact("getMap().getMonsterById(9400610) = null"),
    Do(<<Call("getMap().spawnMonsterOnGroundBelow")>>, Done),
  Done)

u_677000005 ==
  If(Fact("getMap().getMonsterById(9400609) = null"),
    Do(<<Call("getMap().spawnMonsterOnGroundBelow")>>, Done),
  Done)

u_677000007 ==
  If(Fact("getMap().getMonsterById(9400611) = null"),
    Do(<<Call("getMap().spawnMonsterOnGroundBelow")>>, Done),
  Done)

u_677000009 ==
  If(Fact("getMap().getMonsterById(9400613) = null"),
    Do(<<Call("getMap().spawnMonsterOnGroundBelow")>>, Done),
  Done)

u_677000012 ==
  If(Fact("getMap().getMonsterById(9400633) = null"),
    Do(<<Call("getMap().spawnMonsterOnGroundBelow")>>, Done),
  Done)

u_910510000 ==
  If(Fact("isCygnus()"),
    If(AllOf({Started(20730), Fact("getQuestProgress(20730,9300285) = 0")}),
      Do(<<Call("getMap().spawnMonsterOnGroundBelow")>>, Done),
    Done),
  If(AllOf({Started(21731), Fact("getQuestProgress(21731,9300344) = 0")}),
    Do(<<Call("getMap().spawnMonsterOnGroundBelow")>>, Done),
  Done))

u_914000100 == Do(<<Call("updateQuestInfo 21000 1")>>, Done)

u_922000000 ==
  Do(<<Call("getClient().getChannelServer().getMapFacto..2"),
       Call("getClient().getChannelServer().getMapFacto..2"),
       Call("getClient().getChannelServer().getMapFacto..2")>>, Done)

u_925040100 ==
  If(AllOf({Started(21747), Fact("getQuestProgress(21747,9300351) = 0")}),
    Do(<<Call("getMap().spawnMonsterOnGroundBelow")>>, Done),
  Done)

u_926000000 ==
  If(Fact("getClient().getChannelServer().getMapFacto..8"),
    Do(<<Call("getClient().getChannelServer().getMapFacto..3"),
         Call("getClient().getChannelServer().getMapFacto..4")>>, Done),
  Do(<<Call("getClient().getChannelServer().getMapFacto..3")>>, Done))

u_926000010 == Do(<<Call("getClient().getChannelServer().getMapFacto..3")>>, Done)
u_aranDirection == Done
u_babyPigMap == Do(<<Call("getClient().getQM().forceStartQuest 22015")>>, Done)
u_cannon_tuto_01 == Breaks
u_cannon_tuto_direction == Breaks
u_cannon_tuto_direction1 == Breaks
u_cannon_tuto_direction2 == Breaks
u_crash_Dragon == Done

u_dojang_Eff ==
  If(Fact("((floor((getMap().getId() / 100)) % 100) %.."),
    Do(<<Call("resetEnteredScript"), Call("showDojoClock"), Call("dojoEnergy")>>, Done),
  Do(<<Call("resetEnteredScript"), Call("showDojoClock")>>, Done))

u_dojang_Msg ==
  Do(<<Given(InMap(925020000), <<Call("resetDojoEnergy")>>),
       Unless(InMap(925020000), <<Call("resetEnteredScript")>>)>>, Done)

u_evanleaveD == Done
u_getDragonEgg == Done
u_go10000 == Done
u_go1000000 == Done
u_go1010000 == Done
u_go1010100 == Done
u_go1010200 == Done
u_go1010300 == Done
u_go1020000 == Done
u_go20000 == Done
u_go30000 == Done
u_go40000 == Done
u_go50000 == Done
u_goAdventure == Do(<<Call("goAdventure")>>, Done)
u_goArcher == Do(<<Call("startExplorerExperience")>>, Done)
u_goLith == Do(<<Call("goLith")>>, Done)
u_goMagician == Do(<<Call("startExplorerExperience")>>, Done)
u_goPirate == Do(<<Call("startExplorerExperience")>>, Done)
u_goRogue == Do(<<Call("startExplorerExperience")>>, Done)
u_goSwordman == Do(<<Call("startExplorerExperience")>>, Done)

u_iceCave ==
  Do(<<Call("teachSkill 20000014 -1 0 -1"), Call("teachSkill 20000015 -1 0 -1"),
       Call("teachSkill 20000016 -1 0 -1"), Call("teachSkill 20000017 -1 0 -1"),
       Call("teachSkill 20000018 -1 0 -1")>>, Done)

u_Massacre_result ==
  If(Fact("getPyramid() = null"), Done, Do(<<Call("getPyramid().sendScore")>>, Done))

u_meetWithDragon == Done
u_pepeking_effect == Do(<<Call("getMap().spawnMonsterOnGroundBelow")>>, Done)
u_PromiseDragon == Done
u_Resi_tutor10 == Breaks
u_Resi_tutor20 == Done
u_Resi_tutor30 == Do(<<Call("updateAreaInfo 23007")>>, Done)
u_Resi_tutor40 == Do(<<Silent(2159012)>>, Done)
u_Resi_tutor50 == Breaks
u_Resi_tutor60 == Do(<<Silent(2159007)>>, Done)
u_Resi_tutor70 == Breaks
u_Resi_tutor80 == Breaks

u_rien ==
  Do(<<Under({Completed(21101), Fact("containsAreaInfo(21019,'miss=o;arr=o;helper=clear')")}, {},
         <<Call("updateAreaInfo 21019")>>)>>, Done)

u_rienArrow ==
  Do(<<Given(Fact("containsAreaInfo(21019,'miss=o;helper=clea.."),
         <<Call("updateAreaInfo 21019")>>)>>, Done)
=============================================================================
