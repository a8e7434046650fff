--------------------------- MODULE PortalScripts1 ---------------------------
(***************************************************************************)
(* Tables of the scripts under scripts/portal: the portals from 0 to F.    *)
(* p_<name> is the function enter of the script <name>.js.                 *)
(***************************************************************************)
EXTENDS WorldScripts

p_08_xmas_out == Do(<<WarpTo("(getMapId() - 2)")>>, Through)

p_1stTower_out ==
  If(Fact("getMap().countMonsters() = 0"),
    Do(<<Warp(211060200), Complete(3139), ToEvent("clearPQ")>>, Through),
  Stays)

p_1stTowerTop ==
  If(Has(4032858, 1),
    Do(<<Call("getEventManager('JennsBrother').setPropert.."),
         Given(Fact("the event has room"), <<Instance("JennsBrother")>>), Warp(921140100),
         Take(4032858, 1)>>, Stays),
  If(AllOf({Has(4032832, 1), Started(3139)}),
    Do(<<Call("getEventManager('1stSpellBreaker').setProp.."),
         Given(Fact("the event has room"), <<Instance("1stSpellBreaker")>>),
         Warp(211060201)>>, Stays),
  Stays))

p_2ndTower_out ==
  If(Fact("getMap().countMonsters() = 0"),
    Do(<<Warp(211060400), Complete(3140), ToEvent("clearPQ")>>, Through),
  Stays)

p_2ndTowerTop ==
  If(Has(4032833, 1),
    Do(<<Call("getEventManager('2ndSpellBreaker').setProp.."),
         Given(Fact("the event has room"), <<Instance("2ndSpellBreaker")>>),
         Warp(211060401)>>, Stays),
  Stays)

p_3rdTower_out ==
  If(Fact("getMap().countMonsters() = 0"),
    Do(<<Warp(211060600), Complete(3141), ToEvent("clearPQ")>>, Through),
  Stays)

p_3rdTowerTop ==
  If(Has(4032834, 1),
    Do(<<Call("getEventManager('3rdSpellBreaker').setProp.."),
         Given(Fact("the event has room"), <<Instance("3rdSpellBreaker")>>),
         Warp(211060601)>>, Stays),
  Stays)

p_advice00 == Do(<<Enable>>, Through)
p_advice01 == Do(<<Enable>>, Through)
p_advice02 == Do(<<Enable>>, Through)
p_advice03 == Do(<<Enable>>, Through)
p_advice04 == Do(<<Enable>>, Through)
p_advice05 == Do(<<Enable>>, Through)
p_advice06 == Do(<<Enable>>, Through)
p_advice07 == Do(<<Enable>>, Through)
p_advice08 == Do(<<Enable>>, Through)
p_advice09 == Do(<<Enable>>, Through)
p_adviceMap == Do(<<Enable>>, Through)
p_aMatchMove2 == Do(<<WarpTo("getSavedLocation('MIRROR')")>>, Through)
p_apq00 == Do(<<Warp(670010300)>>, Through)
p_apq01 == Do(<<Warp(670010301)>>, Through)
p_apq02 == Do(<<Warp(670010302)>>, Through)
p_apq1 == Do(<<Warp(670010400)>>, Through)
p_apq2 == Do(<<Warp(670010500)>>, Through)
p_apq3 == Do(<<Warp(670010600)>>, Through)
p_apqClosed == Stays

p_apqDoor ==
  If(Fact("getMap().getReactorByName('gate{getPortal.."), Stays,
  If(Fact("getMap().getReactorByName('gate{getPortal..2"), Do(<<Warp(670010600)>>, Through),
  Stays))

p_aqua_pq_boss_0 == Do(<<Warp(230040420)>>, Through)
p_aranTutorAloneX == Do(<<Warp(914000100)>>, Through)

p_aranTutorArrow0 ==
  If(Fact("containsAreaInfo(21002,'arr0=o')"), Do(<<Block>>, Stays),
  Do(<<Block, Call("updateAreaInfo 21002")>>, Through))

p_aranTutorArrow1 ==
  If(Fact("containsAreaInfo(21002,'arr1=o')"), Do(<<Block>>, Stays),
  Do(<<Block, Call("updateAreaInfo 21002")>>, Through))

p_aranTutorArrow2 ==
  If(Fact("containsAreaInfo(21002,'arr2=o')"), Do(<<Block>>, Stays),
  Do(<<Block, Call("updateAreaInfo 21002")>>, Through))

p_aranTutorArrow3 ==
  If(Fact("containsAreaInfo(21002,'arr3=o')"), Do(<<Block>>, Stays),
  Do(<<Block, Call("updateAreaInfo 21002")>>, Through))

p_aranTutorGuide0 ==
  If(Fact("containsAreaInfo(21002,'normal=o')"), Do(<<Block>>, Stays),
  Do(<<Block, Call("updateAreaInfo 21002")>>, Through))

p_aranTutorGuide1 ==
  If(Fact("containsAreaInfo(21002,'chain=o')"), Do(<<Block>>, Stays),
  Do(<<Block, Call("updateAreaInfo 21002")>>, Through))

p_aranTutorGuide2 ==
  If(Fact("containsAreaInfo(21002,'cmd=o')"), Do(<<Block>>, Stays),
  Do(<<Block, Call("updateAreaInfo 21002")>>, Through))

p_aranTutorLost ==
  If(Fact("containsAreaInfo(21002,'fin=o')"), Do(<<Block>>, Stays),
  Do(<<Block, Call("updateAreaInfo 21002")>>, Through))

p_aranTutorMono0 ==
  If(Fact("containsAreaInfo(21002,'mo1=o')"), Do(<<Block>>, Stays),
  Do(<<Block, Call("updateAreaInfo 21002")>>, Through))

p_aranTutorMono1 ==
  If(Fact("containsAreaInfo(21002,'mo2=o')"), Do(<<Block>>, Stays),
  Do(<<Block, Call("updateAreaInfo 21002")>>, Through))

p_aranTutorMono2 ==
  If(Fact("containsAreaInfo(21002,'mo3=o')"), Do(<<Block>>, Stays),
  Do(<<Block, Call("updateAreaInfo 21002")>>, Through))

p_aranTutorMono3 ==
  If(Fact("containsAreaInfo(21002,'mo4=o')"), Do(<<Block>>, Stays),
  Do(<<Block, Call("updateAreaInfo 21002")>>, Through))

p_aranTutorOut1 ==
  If(Started(21000),
    Do(<<Call("teachSkill 20000017 0 -1 -1"), Call("teachSkill 20000018 0 -1 -1"),
         Call("teachSkill 20000017 1 0 -1"), Call("teachSkill 20000018 1 0 -1"),
         Warp(914000200)>>, Through),
  Stays)

p_aranTutorOut2 ==
  Do(<<Call("teachSkill 20000014 0 -1 -1"), Call("teachSkill 20000015 0 -1 -1"),
       Call("teachSkill 20000014 1 0 -1"), Call("teachSkill 20000015 1 0 -1"),
       Warp(914000210)>>, Through)

p_aranTutorOut3 ==
  Do(<<Call("teachSkill 20000016 0 -1 -1"), Call("teachSkill 20000016 1 0 -1"),
       Warp(914000220)>>, Through)

p_ariant_Agit ==
  If(AllOf({Completed(3928), Completed(3931), Completed(3934)}), Do(<<Warp(260000201)>>, Through),
  Stays)

p_ariant_castle == If(Has(4031582, 1), Do(<<Warp(260000301)>>, Through), Stays)

p_ariant_queens ==
  If(Fact("getBuffSource(MapleBuffStat.MORPH) = 2210005"), Stays,
  Do(<<Warp(260000300)>>, Through))

p_ariantMout == Do(<<Warp(980010020)>>, Through)
p_ariantMout2 == Do(<<Warp(980010000)>>, Through)
p_babyPigOut == If(Completed(22015), Do(<<Warp(100030300)>>, Through), Through)
p_balog_end == If(Room(4001261, 1), Do(<<Give(4001261, 1), Warp(105100100)>>, Through), Stays)
p_balogTemple == Do(<<Warp(105100000)>>, Through)
p_bedroom_out == If(Started(2570), Do(<<Warp(120000101)>>, Through), Stays)
p_beginnerTut1 == Do(<<Warp(20000)>>, Through)
p_cannon_tuto_06 == Breaks
p_cannon_tuto_07 == Breaks
p_cannon_tuto_09 == Do(<<Silent(8)>>, Through)
p_cannon_tuto_10 == Through

p_captinsg00 ==
  If(Has(4000381, 1),
    If(Fact("getParty() = null"), Stays,
    If(AllOf({Fact("isLeader()"), Fact("getEventManager('LatanicaBattle').getEligi.."),
              Fact("the event has room")}),
      Do(<<Instance("LatanicaBattle")>>, Through),
    Stays)),
  Stays)

p_catPriest_map == Do(<<Warp(925000000)>>, Through)
p_contactDragon == Do(<<Warp(900090100)>>, Through)
p_dangerousRoof == Stays

p_davy2_hd1 ==
  If(OfEvent("getProperty('stage2b') = '0'"),
    Do(<<Call("getMap(925100202).spawnAllMonstersFromMapS.."), ToEvent("setProperty stage2b 1"),
         Warp(925100202)>>, Through),
  Do(<<Warp(925100202)>>, Through))

p_davy3_hd1 ==
  If(OfEvent("getProperty('stage3b') = '0'"),
    Do(<<Call("getMap(925100302).spawnAllMonstersFromMapS.."), ToEvent("setProperty stage3b 1"),
         Warp(925100302)>>, Through),
  Do(<<Warp(925100302)>>, Through))

p_davy_next1 ==
  If(AllOf({InAnEvent, OfEvent("getProperty('stage2') = '3'")}), Do(<<Warp(925100200)>>, Through),
  Stays)

p_Depart_goBack00 == Do(<<WarpTo("(getMap().getId() - 10)")>>, Through)
p_Depart_goBack01 == Do(<<WarpTo("(getMap().getId() - 10)")>>, Through)

p_Depart_goFoward0 ==
  If(InMap(103040410),
    If(AnyOf({Completed(2287), Started(2287)}), Do(<<Warp(103040420)>>, Through), Stays),
  If(InMap(103040420),
    If(AnyOf({Completed(2288), Started(2288)}), Do(<<Warp(103040430)>>, Through), Stays),
  If(AnyOf({InMap(103040440), InMap(103040450)}),
    Do(<<WarpTo("(getMap().getId() + 10)")>>, Through),
  Stays)))

p_Depart_goFoward1 == p_Depart_goFoward0

p_Depart_ToKerning ==
  If(Fact("the event has room"), Do(<<Instance("KerningTrain")>>, Through), Stays)

p_Depart_TopFloor == Do(<<Npc(1052125)>>, Through)
p_Depart_topOut == Do(<<Warp(103040300)>>, Through)

p_dojang_exit ==
  If(Fact("getSavedLocation('MIRROR') = -1"), Do(<<Warp(100000000)>>, Through),
  Do(<<WarpTo("getSavedLocation('MIRROR')")>>, Through))

p_dojang_tuto ==
  If(Fact("getMap().getMonsterById(9300216) = null"), Stays,
  Do(<<Call("enteredScript dojang_Msg"), Call("setFinishedDojoTutorial"),
       Warp(925020001)>>, Through))

p_dracoout == Do(<<Warp(240000100)>>, Through)

p_DragonEggNotice ==
  If(Fact("containsAreaInfo(22014,'egg=o')"), Do(<<Block>>, Stays),
  Do(<<Block, Call("updateAreaInfo 22014")>>, Breaks))

p_dragoneyes == If(Completed(22012), Stays, Do(<<Complete(22012), Block>>, Through))

p_dragonNest ==
  If(Started(100203), Do(<<Warp(240040612)>>, Through), Do(<<Warp(240040611)>>, Through))

p_EBoat1 == Do(<<Warp(200090000)>>, Through)
p_EBoat2 == Do(<<Warp(200090000)>>, Through)

p_elevator ==
  If(InMap(222020100), Do(<<Warp(222020200)>>, Through), Do(<<Warp(222020100)>>, Through))

p_eliza_Garden == Do(<<Warp(920020000)>>, Through)

p_end_cow ==
  If(Started(2180),
    If(AnyOf({Has(4031847, 1), Has(4031848, 1), Has(4031849, 1)}),
      If(Has(4031850, 1), Do(<<Warp(120000103)>>, Through), Stays),
    Do(<<Warp(120000103)>>, Through)),
  Do(<<Warp(120000103)>>, Through))

p_enter_earth00 == If(Has(4031890, 1), Do(<<Warp(221000300)>>, Through), Stays)
p_enter_earth01 == If(Has(4031890, 1), Do(<<Warp(120000101)>>, Through), Stays)
p_enter_nautil == Do(<<Warp(120010000)>>, Through)
p_enter_td == Do(<<Warp(600000000)>>, Through)
p_enterAchter == Do(<<Warp(100000201)>>, Through)

p_enterBackStreet ==
  If(Started(21747), Do(<<Warp(925040000)>>, Through),
  If(AllOf({Started(21744), Completed(21745)}), Do(<<Warp(925040000)>>, Through), Stays))

p_enterDisguise0 ==
  If(AnyOf({Started(20301), Started(20302), Started(20303), Started(20304), Started(20305)}),
    If(Has(4032179, 1), Do(<<Warp(130010000)>>, Through), Stays),
  Do(<<Warp(130010000)>>, Through))

p_enterDisguise1 ==
  If(AnyOf({Started(20301), Started(20302), Started(20303), Started(20304), Started(20305)}),
    If(AnyOf({Fact("getClient().getChannelServer().getMapFacto.."), Has(4032101, 1)}), Stays,
    Do(<<Warp(108010600)>>, Through)),
  Do(<<Warp(130010010)>>, Through))

p_enterDisguise2 ==
  If(AnyOf({Started(20301), Started(20302), Started(20303), Started(20304), Started(20305)}),
    If(AnyOf({Fact("getClient().getChannelServer().getMapFacto..2"), Has(4032102, 1)}), Stays,
    Do(<<Warp(108010610)>>, Through)),
  Do(<<Warp(130010020)>>, Through))

p_enterDisguise3 ==
  If(AnyOf({Started(20301), Started(20302), Started(20303), Started(20304), Started(20305)}),
    If(AnyOf({Fact("getClient().getChannelServer().getMapFacto..3"), Has(4032103, 1)}), Stays,
    Do(<<Warp(108010620)>>, Through)),
  Do(<<Warp(130010110)>>, Through))

p_enterDisguise4 ==
  If(AnyOf({Started(20301), Started(20302), Started(20303), Started(20304), Started(20305)}),
    If(AnyOf({Fact("getClient().getChannelServer().getMapFacto..4"), Has(4032104, 1)}), Stays,
    Do(<<Warp(108010630)>>, Through)),
  Do(<<Warp(130010120)>>, Through))

p_enterDisguise5 ==
  If(AnyOf({Started(20301), Started(20302), Started(20303), Started(20304), Started(20305)}),
    If(AnyOf({Fact("getClient().getChannelServer().getMapFacto..5"), Has(4032105, 1)}), Stays,
    Do(<<Warp(108010640)>>, Through)),
  Do(<<Warp(130020000)>>, Through))

p_enterDollcave ==
  If(AnyOf({Completed(20730), Completed(21734)}), Do(<<Warp(105040201)>>, Through),
  Do(<<Npc(1063011)>>, Stays))

p_enterDollWay ==
  If(AnyOf({Completed(20730), Completed(21734)}), Do(<<Warp(105070300)>>, Through),
  If(Started(21734), Do(<<Warp(910510100)>>, Through), Stays))

p_enterEvanRoom == Do(<<Warp(100030100)>>, Through)

p_enterFirstDH ==
  If(Started(20701),
    If(Fact("getPlayerCount(913000000) = 0"),
      Do(<<Call("getMap(913000000).resetPQ"), Warp(913000000)>>, Through),
    Stays),
  If(Started(20702),
    If(Fact("getPlayerCount(913000100) = 0"),
      Do(<<Call("getMap(913000100).resetPQ"), Warp(913000100)>>, Through),
    Stays),
  If(AllOf({Started(20703), Fact("getPlayerCount(913000200) = 0")}),
    Do(<<Call("getMap(913000200).resetPQ"), Warp(913000200)>>, Through),
  Stays)))

p_enterfourthDH ==
  If(AnyOf({Has(4032125, 1), Has(4032126, 1), Has(4032127, 1), Has(4032128, 1), Has(4032129, 1)}),
    Stays,
  If(AnyOf({Started(20611), Started(20612), Started(20613), Started(20614), Started(20615)}),
    If(Fact("getPlayerCount(913020300) = 0"),
      Do(<<Call("getMap(913020300).killAllMonsters"), Warp(913020300),
           Call("spawnMonster 9300294 87 88")>>, Through),
    Stays),
  Stays))

p_enterGym ==
  If(Started(21701), Do(<<Warp(914010000)>>, Through),
  If(Started(21702), Do(<<Warp(914010100)>>, Through),
  If(Started(21703), Do(<<Warp(914010200)>>, Through), Stays)))

p_enterInfo ==
  If(Started(21733),
    Do(<<Warp(910400000), Call("getEventManager('DangerousInfo').setProper.."),
         Given(Fact("the event has room"), <<Instance("DangerousInfo")>>),
         Call("getMap(910400000).spawnMonsterOnGroundBelow")>>, Breaks),
  Do(<<Warp(104000004)>>, Through))

p_enterMagiclibrar ==
  If(Started(20718),
    Do(<<Call("getEventManager('Cygnus_Magic_Library').se.."),
         Given(Fact("the event has room"), <<Instance("Cygnus_Magic_Library")>>)>>, Through),
  Do(<<Warp(101000003)>>, Through))

p_enterNepenthes ==
  If(Started(21739),
    If(AllOf({Fact("getWarpMap(920030000).countPlayers() = 0"),
              Fact("getWarpMap(920030001).countPlayers() = 0")}),
      Do(<<Call("getWarpMap(920030000).resetPQ 1"), Call("getWarpMap(920030001).resetPQ 1"),
           Call("getWarpMap(920030001).spawnMonsterOnGround.."), Warp(920030000)>>, Through),
    Stays),
  Do(<<Warp(200060001)>>, Through))

p_enterPort ==
  If(AllOf({Started(21301), Fact("getQuestProgress(21301,9001013) = 0")}),
    If(Fact("getPlayerCount(108010700) = 0"),
      If(Fact("getClient().getChannelServer().getMapFacto..7"),
        Do(<<Call("getClient().getChannelServer().getMapFacto.."), Warp(108010700)>>, Through),
      Do(<<Warp(108010700)>>, Through)),
    Stays),
  Do(<<Warp(140020300)>>, Through))

p_enterRider ==
  If(AllOf({Started(21610), Fact("haveItem(4001193,1) = 0")}),
    If(Fact("getEventManager('Aran_2ndmount') = null"), Stays,
    If(Fact("the event has room"), Do(<<Instance("Aran_2ndmount")>>, Through), Stays)),
  Stays)

p_enterRienFirst == Do(<<Warp(140000000)>>, Through)

p_enterSecondDH ==
  If(AnyOf({Started(20201), Started(20202), Started(20203), Started(20204), Started(20205)}),
    Do(<<TakeAll(4032096), TakeAll(4032097), TakeAll(4032098), TakeAll(4032099), TakeAll(4032100),
         WarpTo("maps[floor((random * 3))]")>>, Through),
  Stays)

p_enterthirdDH ==
  If(AnyOf({Has(4032120, 1), Has(4032121, 1), Has(4032122, 1), Has(4032123, 1), Has(4032124, 1)}),
    Stays,
  If(AnyOf({Started(20601), Started(20602), Started(20603), Started(20604), Started(20605)}),
    If(Fact("getPlayerCount(913010200) = 0"),
      Do(<<Call("getMap(913010200).killAllMonsters"), Warp(913010200),
           Call("spawnMonster 9300289 0 0")>>, Through),
    Stays),
  Stays))

p_entertraining ==
  If(Started(1041), Do(<<Warp(1010100)>>, Through),
  If(Started(1042), Do(<<Warp(1010200)>>, Through),
  If(Started(1043), Do(<<Warp(1010300)>>, Through),
  If(Started(1044), Do(<<Warp(1010400)>>, Through), Stays))))

p_enterWarehouse == Do(<<Warp(300000011)>>, Through)

p_enterWitch ==
  If(Completed(20404),
    If(Completed(20407), Do(<<Warp(924010200)>>, Through),
    If(Completed(20406), Do(<<Warp(924010100)>>, Through), Do(<<Warp(924010000)>>, Through))),
  Stays)

p_evanEntrance == Do(<<Warp(100030400)>>, Through)
p_evanFall == Do(<<Warp(900090102)>>, Through)

p_evanFarmCT ==
  If(Started(22010), Do(<<Warp(100030310)>>, Through),
  If(Job(2001), Through, Do(<<Warp(100030310)>>, Through)))

p_evanGarden0 == Do(<<Warp(100030200)>>, Through)
p_evanGarden1 == If(Started(22008), Do(<<Warp(100030103)>>, Through), Through)
p_evanlivingRoom == Do(<<Warp(100030102)>>, Through)

p_evanRoom0 ==
  If(Fact("containsAreaInfo(22014,'mo30=o')"), Do(<<Block>>, Stays),
  Do(<<Block, Call("updateAreaInfo 22014")>>, Through))

p_evanRoom1 ==
  If(Fact("containsAreaInfo(22013,'hand=o')"), Do(<<Block>>, Stays),
  Do(<<Block, Call("updateAreaInfo 22013")>>, Breaks))

p_evantalk00 ==
  If(Fact("containsAreaInfo(22013,'mo00=o')"), Do(<<Block>>, Stays),
  Do(<<Block, Call("updateAreaInfo 22013")>>, Through))

p_evantalk01 ==
  If(Fact("containsAreaInfo(22013,'mo01=o')"), Do(<<Block>>, Stays),
  Do(<<Block, Call("updateAreaInfo 22013")>>, Through))

p_evantalk02 ==
  If(Fact("containsAreaInfo(22013,'mo02=o')"), Do(<<Block>>, Stays),
  Do(<<Block, Call("updateAreaInfo 22013")>>, Through))

p_evantalk10 ==
  If(Fact("containsAreaInfo(22013,'mo10=o')"), Do(<<Block>>, Stays),
  Do(<<Block, Call("updateAreaInfo 22013")>>, Through))

p_evantalk11 ==
  If(Fact("containsAreaInfo(22013,'mo11=o')"), Do(<<Block>>, Stays),
  Do(<<Block, Call("updateAreaInfo 22013")>>, Through))

p_evantalk20 ==
  If(Fact("containsAreaInfo(22013,'mo20=o')"), Do(<<Block>>, Stays),
  Do(<<Block, Call("updateAreaInfo 22013")>>, Through))

p_evantalk21 ==
  If(Fact("containsAreaInfo(22013,'mo21=o')"), Do(<<Block>>, Stays),
  Do(<<Block, Call("updateAreaInfo 22013")>>, Through))

p_evantalk40 ==
  If(Fact("containsAreaInfo(22014,'mo40=o')"), Do(<<Block>>, Stays),
  Do(<<Block, Call("updateAreaInfo 22014")>>, Through))

p_evantalk41 ==
  If(Fact("containsAreaInfo(22014,'mo41=o')"), Do(<<Block>>, Stays),
  Do(<<Block, Call("updateAreaInfo 22014")>>, Through))

p_evantalk42 ==
  If(Fact("containsAreaInfo(22014,'mo42=o')"), Do(<<Block>>, Stays),
  Do(<<Block, Call("updateAreaInfo 22014")>>, Through))

p_evantalk50 ==
  If(Fact("containsAreaInfo(22014,'mo50=o')"), Do(<<Block>>, Stays),
  Do(<<Block, Call("updateAreaInfo 22014")>>, Through))

p_evantalk60 ==
  If(Fact("containsAreaInfo(22014,'mo60=o')"), Do(<<Block>>, Stays),
  Do(<<Block, Call("updateAreaInfo 22014")>>, Through))

p_exit_puppeteer ==
  If(Fact("getMap().countMonster(9300285) >= 1"), Stays,
  If(InAnEvent, Do(<<ToEvent("stopEventTimer"), ToEvent("dispose"), Warp(105070300)>>, Through),
  Do(<<Warp(105070300)>>, Through)))

p_female00 == If(Fact("getGender() = 1"), Do(<<Warp(670010200)>>, Through), Stays)
p_fishing_out == Do(<<WarpTo("getSavedLocation('MIRROR')")>>, Through)

p_foxLaidy_map ==
  If(AllOf({Started(3647), Has(4031793, 1)}),
    Do(<<Unless(Started(23647), <<Start(23647)>>), Warp(922220000)>>, Through),
  Do(<<Warp(222010200)>>, Through))
=============================================================================
